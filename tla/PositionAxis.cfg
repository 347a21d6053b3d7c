CONSTANTS
  Samples = {0, 6}
  Frames = {0, 50, 100}
  LimitBelow = 1
  LimitAbove = 4
SPECIFICATION Spec
INVARIANTS
  FadesToReported
  OvershootBounded
  LearnsSteadyRate
PROPERTIES
  HoldsPrediction
  NoWindUp
