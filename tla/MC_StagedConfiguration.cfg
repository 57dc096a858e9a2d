SPECIFICATION Spec
CONSTANTS
  Configurations = {1, 2}
  WordCount = 2
  Attempts = 2
  RequestBound = 3
  Rejected <- RejectedByEngine
INVARIANT TypeOK
PROPERTIES
  ImplementsRegisters
  StagedIsAdopted
  ReplacedOnlyByFramesOwn
