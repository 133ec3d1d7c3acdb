CONSTANTS
  Order <- MonitorOnly
  PriorityOf <- Urgent
  Updates = {0, 1}
  QueueBound = 2
  MaxCalls = 2
  MaxStarts <- NoRestart
SPECIFICATION Spec
CHECK_DEADLOCK FALSE
INVARIANT MonitorWithinMaxUpdates
