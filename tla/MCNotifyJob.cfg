CONSTANTS
  Orders = {o1, o2}
  Concurrency = 1
  MaxRetry = 1
  MaxRetryNum = 1
  MaxLost = 1
  MaxCrashes = 1
SPECIFICATION Spec
INVARIANTS
  RepeatsHaveACause
  DoneMeansSentOrTried
PROPERTY TasksEnd
CHECK_DEADLOCK FALSE
