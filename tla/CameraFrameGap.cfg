CONSTANTS
  Actors = {a1}
  None = None
SPECIFICATION Spec
INVARIANT NoFrameTimeAcrossOff
