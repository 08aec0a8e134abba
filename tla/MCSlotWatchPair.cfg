SPECIFICATION Spec
CONSTANTS
  None = None
  s1 = s1  s2 = s2  v1 = v1  m1 = m1  m2 = m2  p1 = p1  p2 = p2
  ErrorCap = 1
  ErrorAlertThreshold = 1
  Capacity = 2
  Targets <- TwoSessions
  Variants = {}
  Day <- OneDay
  Monitors = {m1}
  MonitorOf <- OneMonitor
  Products = {p1}
  Threshold <- One1
  NotifyInitial <- On1
  NotifyIncrease <- On1
INVARIANTS TypeOK NoMaskedOpening OnlyNews ConfirmedIsDurable PassIsDurable
