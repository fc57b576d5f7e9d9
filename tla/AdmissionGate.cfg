\* Two callers, settings that change and are read by halves.
SPECIFICATION FairSpec
CONSTANTS
  Callers = {c1, c2}
  Gates = {g1, g2, g3}
  NoGate = NoGate
  Settings <- BothSettings
INVARIANTS
  TypeOK
  HeldByCallers
  GateOfItsSettings
PROPERTY EveryCallerReturns
