SPECIFICATION Spec
CONSTANTS
  Profiles = {"sliding60", "sliding300", "fixed600"}
  InitialProfile = "sliding60"
  GenerationModulus = 4
  ChangeBound = 5
INVARIANT TypeOK
PROPERTIES
  ImplementsRegister
  StagedIsApplied
