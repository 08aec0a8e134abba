SPECIFICATION Spec
CONSTANTS
  RetryDelays <- Delays
  MaxRateLimitBackoff = 6
INVARIANTS BoundedSleep GrowingCaution CalmAfterSuccess
