CONSTANTS
  Wrap = 2
  EdgeWraps = 65536
  Capacity = 3
  Backward <- LeftTurns
  MaxTime = 3
  MaxEdges = 2
  MaxPasses = 2
SPECIFICATION Spec
CHECK_DEADLOCK FALSE
INVARIANTS TypeOK ClockTrue EventsInOrder TicksConserved SpeedFromLastEdge
