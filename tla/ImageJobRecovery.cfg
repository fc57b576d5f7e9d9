\* One execution that may crash, time, the reconciler and one cancel request.
SPECIFICATION FairSpec
CONSTANTS
  Instances = {i1}
  Execs = {e1}
  Cancels = {c1}
  Requested = 1
  RefundOnFailure = TRUE
  RefundPartial = TRUE
  PoolFallback = TRUE
  Clock = TRUE
  MaxCrashes = 1
  NoOne = NoOne
INVARIANTS
  EndingsAreFree
  SentMeansCalled
  ConversationIsRight
PROPERTIES
  ReconcilerSparesTheLiving
  JobSettles
