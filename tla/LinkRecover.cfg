CONSTANTS
  robot = robot
  host = host
  Ends = {robot, host}
  InCapacity = 3
  OutCapacity <- Roomy
  WireCapacity = 1
  Traffic <- RobotPreempted
  MaxPackets = 1
  MaxStarts <- HostRestarts
  MaxFaults = 0
SPECIFICATION FairSpec
CHECK_DEADLOCK FALSE
PROPERTY EventuallyAcknowledged
