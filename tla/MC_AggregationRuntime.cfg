SPECIFICATION Spec
INVARIANTS
  AllOrNothing
  NoWorkBeforeInitialisation
  HealthIsBacked
PROPERTY StartedComesIntoService
CHECK_DEADLOCK FALSE
