\* One execution that nobody disturbs.
SPECIFICATION Spec
CONSTANTS
  Instances = {i1}
  Execs = {e1}
  Cancels = {}
  Requested = 1
  RefundOnFailure = TRUE
  RefundPartial = TRUE
  PoolFallback = FALSE
  Clock = FALSE
  MaxCrashes = 0
  NoOne = NoOne
INVARIANT FailuresReachTheGeneration
