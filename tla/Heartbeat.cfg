SPECIFICATION FairSpec
CONSTANTS
  LastDay = 2
  MaxLost = 2
INVARIANTS OncePerDay RecordedIsTold
PROPERTY LastDayIsTold
