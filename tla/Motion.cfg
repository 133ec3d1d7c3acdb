CONSTANTS
  Slots = {0}
  MaxWaypoints = 3
  Requests <- EveryKind
  MaxRequests = 3
  MaxWaiting = 1
  Horizon = 3
SPECIFICATION MCSpec
CHECK_DEADLOCK FALSE
INVARIANTS TypeOK NoDangling TrajectoriesSorted WaypointReached AcyclicUnlessReplaced StopIsNoticed CreateRepliesTruly
PROPERTY ExecutionEnds
