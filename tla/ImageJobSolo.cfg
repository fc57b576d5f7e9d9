\* One execution, two cancel requests, two instances, no crash, no lease runs out.
SPECIFICATION Spec
CONSTANTS
  Instances = {i1, i2}
  Execs = {e1}
  Cancels = {c1, c2}
  Requested = 2
  RefundOnFailure = TRUE
  RefundPartial = TRUE
  PoolFallback = FALSE
  Clock = FALSE
  MaxCrashes = 0
  NoOne = NoOne
SYMMETRY Symmetric
INVARIANTS
  TypeOK
  EndingsAreFree
  PicturesArePaid
  ConversationIsRight
