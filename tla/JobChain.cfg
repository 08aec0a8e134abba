SPECIFICATION FairSpec
CONSTANTS
  MaxEdits = 2
  MaxNotes = 3
  None = None
INVARIANTS
  TypeOK
  NothingLostSilently
  NewConfigWaits
  CancelledMeansNewConfig
  SuccessHandsOver
  ChainUnbroken
PROPERTIES
  BranchOnlyGrows
  LoopsComplete
