CONSTANTS
  Nodes = {1, 2, 3, 4}
  Graphs <- MCGraphs
SPECIFICATION SearchSpec
INVARIANTS HasPathExact FindPathShortest
PROPERTY BothTerminate
CHECK_DEADLOCK FALSE
