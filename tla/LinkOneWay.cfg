CONSTANTS
  robot = robot
  host = host
  Ends = {robot, host}
  InCapacity = 3
  OutCapacity <- Small
  WireCapacity = 1
  Traffic <- HostReliable
  MaxPackets = 2
  MaxStarts <- NoRestart
  MaxFaults = 1
SPECIFICATION FairSpec
CHECK_DEADLOCK FALSE
INVARIANTS TypeOK
PROPERTIES GuaranteedDelivery AckQueuedWhenAccepted EventuallyAcknowledged
