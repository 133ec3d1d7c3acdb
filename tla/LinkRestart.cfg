CONSTANTS
  robot = robot
  host = host
  Ends = {robot, host}
  InCapacity = 3
  OutCapacity <- Small
  WireCapacity = 1
  Traffic <- HostReliable
  MaxPackets = 1
  MaxStarts <- BothRestart
  MaxFaults = 0
SPECIFICATION Spec
CHECK_DEADLOCK FALSE
INVARIANTS AckedIsKept OnlyCurrentSession NotifiedOncePerStart InOrderOnce
 
