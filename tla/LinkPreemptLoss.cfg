CONSTANTS
  robot = robot
  host = host
  Ends = {robot, host}
  InCapacity = 3
  OutCapacity <- Small
  WireCapacity = 1
  Traffic <- Preempted
  MaxPackets = 1
  MaxStarts <- NoRestart
  MaxFaults = 1
SPECIFICATION FairSpec
CHECK_DEADLOCK FALSE
PROPERTY EventuallyAcknowledged
