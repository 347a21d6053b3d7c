SPECIFICATION FairSpec
CHECK_DEADLOCK FALSE
INVARIANTS
  EndsOnlyWhenTold
PROPERTIES
  ShutdownEndsReceiver
  ExitCompletes
  UnloadCompletes
  PortLeftTrackingBack
  NoStepInVain
