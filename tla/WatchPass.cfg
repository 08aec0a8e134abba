SPECIFICATION FairSpec
CONSTANTS
  None = None
  Configs <- MCConfigs
  Instants <- MCInstants
  Schedules <- MCSchedules
  Pages <- MCPages
INVARIANTS
  EachSlotOnce
  ObservationsAreTrue
  ExitsAgree
  ExpiryHonoured
PROPERTIES
  WatchEnds
CHECK_DEADLOCK FALSE
