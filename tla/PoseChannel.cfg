CONSTANTS
  Datagrams <- Poses
  MaxDatagrams = 2
  AgeCap = 2
  NoSample = NoSample
SPECIFICATION FairSpec
INVARIANTS
  FreshSample
  Healed
  StallClockRuns
  CellsFromAccepted
PROPERTIES
  SettlesOnLastPose
  ImplementsPoseFeed
