CONSTANTS
  RecordEngines = {"meter"}
  FamilyEngines = {"harmonic"}
  FamilySize = 2
  RingCapacity = 2
  NumberModulus = 5
SPECIFICATION Spec
INVARIANTS
  TypeOK
  RecordStreamHasNoHole
  NoLostOutputWakeup
  FaultVisibleWhileHeld
PROPERTIES
  ValidatorNeverWaits
  RecordsDrain
