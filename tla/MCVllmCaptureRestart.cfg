CONSTANTS
  Matrix <- MCMatrix
  Kind <- MCKind
  Repeats <- MCRepeats
  Stacks = {"native","compose"}
  MaxFailures = 3
  MaxSessions = 2
SPECIFICATION Spec
INVARIANT RestartIsClean
CHECK_DEADLOCK FALSE
