SPECIFICATION Spec
CONSTANTS
  OutageIterations = 3
  MaxActive = 2
  LoopTicks = 6
  PassTicks = 1
  SleepTicks = 1
INVARIANT OutageMeansNothingRead
