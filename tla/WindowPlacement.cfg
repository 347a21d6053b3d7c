CONSTANTS
  Layouts <- FittingAndTall
  Places <- TwoPlaces
  Elapsed <- OnTimeOrStalled
  MaxDisturbances = 2
SPECIFICATION FairSpec
INVARIANTS
  MovedOnlyAtRest
  OneMovePerLayout
  TitleBarReachable
PROPERTIES
  PlacedOrGivenUp
  EachStepAdvances
