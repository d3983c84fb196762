SPECIFICATION LoginSpec
CONSTANTS
  Logins = {l1, l2}
  Threshold = 2
  Window = 2
  MaxStep = 0
  MaxTries = 3
  MaxIssued = 1
  MaxStops = 0
CHECK_DEADLOCK FALSE
INVARIANT OnlyThresholdTries
