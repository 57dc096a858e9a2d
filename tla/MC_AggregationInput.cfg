CONSTANTS
  HardwareDepth = 1
  RingCapacity = 2
  MaximumBatch = 2
  IdModulus = 6
SPECIFICATION Spec
INVARIANTS
  TypeOK
  NoFrameLostOrReordered
  NoLostReceiveWakeup
  NoLostValidatorWakeup
  StampHasWakeup
PROPERTIES
  EveryFrameProcessed
  EveryErrorNoted
