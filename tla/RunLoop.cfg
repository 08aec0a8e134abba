SPECIFICATION FairSpec
CONSTANTS
  OutageIterations = 5
  MaxActive = 2
  LoopTicks = 19
  PassTicks = 2
  SleepTicks = 2
INVARIANTS TypeOK FlagsAreTrue OutageAlertIsNews RecoveryIsTrue SessionsChangeOnce
PROPERTIES EventuallyAnswered EventuallyAlerted
