CONSTANTS
  Order <- CreateExecute
  PriorityOf <- Urgent
  Updates = {1}
  QueueBound = 2
  MaxCalls = 2
  MaxStarts <- EitherRestarts
SPECIFICATION FairSpec
CHECK_DEADLOCK FALSE
INVARIANTS TypeOK NoMotionWithoutAction NothingRunsForPreviousStart AnsweredAtMostOnce ExecuteReportsItsOwn
PROPERTY TakenIsAnswered
