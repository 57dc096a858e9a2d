CONSTANTS
  Capacity = 2
  IndexModulus = 6
  Elements = {f1, f2}
  Nothing = none
SPECIFICATION Spec
INVARIANTS
  TypeOK
  NoSlotShared
  SizeWithinCapacity
  RoomObservationHolds
PROPERTY ImplementsFifo
