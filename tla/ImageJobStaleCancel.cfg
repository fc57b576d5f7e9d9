\* A crash between a cancel request and its refund.
SPECIFICATION Spec
CONSTANTS
  Instances = {i1}
  Execs = {e1}
  Cancels = {c1}
  Requested = 1
  RefundOnFailure = TRUE
  RefundPartial = TRUE
  PoolFallback = FALSE
  Clock = TRUE
  MaxCrashes = 1
  NoOne = NoOne
PROPERTY StaleCancelRefunds
