SPECIFICATION Spec
CONSTANTS
  None = None
  s1 = s1  s2 = s2  v1 = v1  m1 = m1  m2 = m2  p1 = p1  p2 = p2
  ErrorCap = 1
  ErrorAlertThreshold = 1
  Capacity = 2
  Products = {p1, p2}
  Targets <- Mixed
  Variants = {v1}
  Day <- MixedDay
  Monitors = {m1, m2}
  MonitorOf <- MixedMonitors
  Threshold <- MixedThreshold
  NotifyInitial <- MixedInitial
  NotifyIncrease <- MixedIncrease
PROPERTY ImplementsOpeningAlerts
