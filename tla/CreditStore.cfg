\* Two transactions at a time over two wallets and one generation.
SPECIFICATION FairSpec
CONSTANTS
  u1 = u1
  u2 = u2
  g1 = g1
  Users = {u1, u2}
  Gens = {g1}
  Owner <- MCOwner
  Referrer <- MCReferrer
  Rank <- MCRank
  Txs = {t1, t2}
  Amounts = {1, 2}
  Shares = {0, 1}
  MaxBalance = 1
  MaxReserved = 1
  NoUser = NoUser
  NoTx = NoTx
  NoGen = NoGen
INVARIANTS
  TypeOK
  NoLostUpdate
  NeverOverRefunded
  NoCircle
PROPERTIES
  LedgerSpec
  EveryTransactionEnds
