CONSTANTS
  NumBins = 3
  MetricMin = 0
  Width = 2
  Samples <- MCSamples
  Baselines <- MCBaselines
  MaxStream = 4
  MaxFreezes = 2
SPECIFICATION Spec
INVARIANTS LearnsAccepted PredictsFromHistory PhantomMovesBounded
CHECK_DEADLOCK FALSE
