SPECIFICATION FairSpec
CONSTANTS
  None = None
  s1 = s1  s2 = s2  v1 = v1  m1 = m1  m2 = m2  p1 = p1  p2 = p2
  ErrorCap = 3
  ErrorAlertThreshold = 2
  Capacity = 3
  Targets = {s1}
  Variants = {}
  Day <- OneDay
  Monitors = {m1}
  MonitorOf <- OneMonitor
  Threshold <- One1
  Products = {p1, p2}
  NotifyInitial <- On1
  NotifyIncrease <- On1
INVARIANTS NoMaskedFailure NewsIsSent
PROPERTIES EventuallyAnnounced EventuallyReported
