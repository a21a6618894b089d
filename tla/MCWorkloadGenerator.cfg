CONSTANTS
  Phases <- MCPhases
  Period <- MCPeriod
  First = "nominal"
  Cap = 1
  Resync = 2
  Duration = 9
  JoinTimeout = 2
  MaxTime = 10
SPECIFICATION Spec
INVARIANTS TypeOK NeverAhead BurstBounded CleanStep StopClean
CHECK_DEADLOCK FALSE
