CONSTANTS
  Priorities <- Levels
  Contents <- ManyContents
  FirstSequence = 169
  BurstMaxLength = 6
  AtomicSendMaxLength = 4
  WireCapacity = 1
  MaxContentLength = 6
  MaxPackets <- OneOrTwo
  Noise <- SomeNoise
  MaxFaults = 1
SPECIFICATION Spec
CHECK_DEADLOCK FALSE
INVARIANTS NextPacketReceived SynchronizedByStart
