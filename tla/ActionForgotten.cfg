CONSTANTS
  Order <- CreateExecute
  PriorityOf <- Urgent
  Updates = {1}
  QueueBound = 2
  MaxCalls = 2
  MaxStarts <- NoRestart
SPECIFICATION Spec
CHECK_DEADLOCK FALSE
INVARIANT InProgressIsReal
