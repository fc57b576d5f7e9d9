\* The length of the queue changes, the number of slots does not.
SPECIFICATION Spec
CONSTANTS
  Callers = {c1, c2, c3}
  Gates = {g1, g2, g3, g4}
  NoGate = NoGate
  Settings <- OneSlot
SYMMETRY Symmetric
INVARIANT RunningWithinLimit
