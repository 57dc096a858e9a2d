SPECIFICATION Spec
CONSTANTS
  Generations = {1, 2}
  Invalid <- InvalidGenerations
  RequestBound = 3
INVARIANTS
  TypeOK
  ConfiguredIsInForce
  CapturesWhatIsReported
PROPERTY
  ImplementsAtomicChange
