CONSTANTS
  k1 = k1
  k2 = k2
  Keys <- MCKeys
  Windows = {1, 2}
  Step = 1
  Warmup = 1
  Tail = 0
  ShortAnswers = {1, 2}
  MaxLate = 2
  MaxRuns = 2
  MaxKills = 1
  Absent = Absent
  Torn = Torn
  NoWindow = NoWindow
  NoKey = NoKey
SPECIFICATION Spec
INVARIANTS ManifestTruthful BaselinesHonest RunsAccounted SelectionSound
SYMMETRY Symmetry
CHECK_DEADLOCK FALSE
