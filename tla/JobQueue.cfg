\* Two jobs, two instances whose channels hold one notification, one crash.
SPECIFICATION Spec
CONSTANTS
  Jobs = {j1, j2}
  Instances = {i1, i2}
  ChannelSize = 1
  BatchSize = 1
  MaxCrashes = 1
  Drain = Drain
INVARIANTS
  QueueIsWhole
PROPERTIES
  EveryJobIsClaimed
