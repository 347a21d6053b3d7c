CONSTANT Samples <- SeamSamples
SPECIFICATION Spec
INVARIANTS
  TakesShorterArc
  ArrivesWhereReported
