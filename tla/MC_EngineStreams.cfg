CONSTANTS
  CycleSamples = 2
  CyclesAt50 = 2
  CyclesAt60 = 3
  BlocksPerAggregate = 2
  IntervalSamples = 9
  IntervalsPerTwoHour = 2
  MaxDeferredPasses = 8
  MarkOffsets = {1, 2, 3}
  MaxCycles = 16
  MaxDisturbances = 2
  WindowBuckets = 2
  MaxFaults = 2
  SettlingBatches = 1
  LiveBatches = 2
  IntervalBatches = 2
  PltPeriods = 2
  MaxBatches = 14
  WindowBatches = 2
  MaxHalfCycles = 6
  UpdateFrames = 2
  MaxPlaceholders = 2
  MaxObservations = 9
  FamiliesPerAggregate = 2
  FamilyInterval = 3
  IntervalsPerTwoHours = 2
  MaxFamilies = 13
SPECIFICATION EngineSpec
INVARIANTS
  StreamTypeOK
  NoResultSpansAGap
  LossIsMarked
  SamplesCountedOnce
  EnergyAccountsForEveryBlock
  EventRecordsPair
  FrequencySequenceHasNoHole
CHECK_DEADLOCK FALSE
