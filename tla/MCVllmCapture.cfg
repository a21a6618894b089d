CONSTANTS
  Matrix <- MCMatrix
  Kind <- MCKind
  Repeats <- MCRepeats
  Stacks = {"native","compose"}
  MaxFailures = 2
  MaxSessions = 2
SPECIFICATION Spec
INVARIANTS NeverRedone TallyHonest ServerRestored LabelsTrue CountedCanBeScored
PROPERTY BatchEnds
CHECK_DEADLOCK FALSE
