\* A worker that is woken up again while the job waits for its slot.
SPECIFICATION Spec
CONSTANTS
  Instances = {i1}
  Execs = {e1, e2}
  Cancels = {}
  Requested = 1
  RefundOnFailure = TRUE
  RefundPartial = TRUE
  PoolFallback = FALSE
  Clock = FALSE
  MaxCrashes = 0
  NoOne = NoOne
INVARIANT OneExecution
