\* One execution and one cancel request on one instance.
SPECIFICATION Spec
CONSTANTS
  Instances = {i1}
  Execs = {e1}
  Cancels = {c1}
  Requested = 1
  RefundOnFailure = TRUE
  RefundPartial = TRUE
  PoolFallback = FALSE
  Clock = FALSE
  MaxCrashes = 0
  NoOne = NoOne
INVARIANT CancelBeforeUpstreamRefunds
