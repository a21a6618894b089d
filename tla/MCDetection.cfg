CONSTANTS
  Length = 7
  Scores <- MCScores
  K = 1
  H = 3
  Estimators = {"last_reset", "crossing"}
  MinEffects = {0, 1}
  SameSlope = 3
SPECIFICATION Spec
INVARIANTS TypeOK EventsAreRuns OnsetsMaximiseEvidence SameOnsetSameDirection RollbackExact
CHECK_DEADLOCK FALSE
