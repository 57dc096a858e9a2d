SPECIFICATION Spec
CONSTANTS
  Generations = {1, 2}
  Invalid <- NothingInvalid
  RequestBound = 2
INVARIANT ProfileIsRolledBack
