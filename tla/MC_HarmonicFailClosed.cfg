CONSTANTS
  RecordEngines = {"meter"}
  FamilyEngines = {"harmonic"}
  FamilySize = 2
  RingCapacity = 1
  NumberModulus = 5
SPECIFICATION Spec
INVARIANT EveryStreamHasNoHole
