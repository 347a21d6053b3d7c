CONSTANTS
  MaxDepth = 2
  Scenes = {s1, s2}
  None = None
SPECIFICATION Spec
INVARIANTS
  DetoursFindOriginals
  CompleteOrLogged
  OnlyCrosshairMoves
  CompassInOwnScene
PROPERTY EachCallRestores
