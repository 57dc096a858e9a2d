CONSTANTS
  CycleSamples = 2
  CyclesAt50 = 2
  CyclesAt60 = 3
  BlocksPerAggregate = 2
  IntervalSamples = 10
  IntervalsPerTwoHour = 3
  MaxDeferredPasses = 8
  MarkOffsets = {2}
  MaxCycles = 24
  MaxDisturbances = 0
SPECIFICATION Spec
PROPERTIES
  AlignedIntervalAddsItself
CHECK_DEADLOCK FALSE
