\* Two orders of two packages, two transactions, one generation, two days.
SPECIFICATION Spec
CONSTANTS
  Orders = {o1, o2}
  Subs = {s1, s2}
  Generations = {g1}
  Txs = {t1, t2}
  Basic = Basic
  Better = Better
  NoOne = NoOne
  Packages <- MCPackages
  Amount <- MCAmount
  Credits <- MCCredits
  UpgradeCredits <- MCUpgradeCredits
  Period = 1
  MaxTime = 1
  MaxReserved = 2
SYMMETRY Symmetry
INVARIANTS
  TypeOK
  OrderGrantsOnce
  UsageMatchesLedger
  RefundsFitReserves
  RunsQueueUp
PROPERTIES
  ImplementsPaymentOrder
