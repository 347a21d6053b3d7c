CONSTANTS
  Actors = {a1, a2}
  None = None
SPECIFICATION FairSpec
INVARIANTS
  NoFrameTimeAcrossPause
  FreshAfterToggle
  LeanNotCarried
  OverlaysMatchView
PROPERTIES
  OffSettles
  ViewsAreAtomic
