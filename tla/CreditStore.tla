----------------------------- MODULE CreditStore -----------------------------
(***************************************************************************)
(* businesscredits.Store and the transactions that post through it: each   *)
(* caller opens a transaction, locks the row of the wallet (balanceFor-    *)
(* Update: SELECT ... FOR UPDATE, read committed), computes the new        *)
(* balance, writes it together with the ledger entry and commits.  A paid  *)
(* or refunded order goes on to the wallet of the referrer in the same     *)
(* transaction.  What a transaction writes is seen by nobody before it     *)
(* commits; a transaction may be rolled back at any moment.                *)
(***************************************************************************)
EXTENDS CreditLedger, FiniteSets

CONSTANTS
  Txs,          \* database connections, one transaction at a time each
  Amounts,      \* amounts callers ask for
  Shares,       \* commissions on an order; 0 when none is due
  MaxBalance,   \* bound: no recharge is begun beyond it
  MaxReserved,  \* bound: no reserve is begun beyond it
  Rank,         \* order of registration: a referrer registered before
  NoTx,         \* "not locked"
  NoGen         \* "for no generation"

ASSUME StoreAssumption ==
  /\ Amounts \subseteq Nat \ {0} /\ Shares \subseteq Nat
  /\ MaxBalance \in Nat /\ MaxReserved \in Nat
  /\ Rank \in [Users -> Nat]
  /\ \A u \in Users : Referrer[u] # NoUser => Rank[Referrer[u]] < Rank[u]
  /\ NoTx \notin Txs
  /\ NoGen \notin Gens

VARIABLES
  holder,  \* which transaction holds the row lock of a wallet
  tx       \* the transactions

vars == <<balance, posted, reserved, refunded, holder, tx>>
store == ledgerVars

-----------------------------------------------------------------------------
(* Requests and transactions.                                              *)

Least(a, b) == IF a <= b THEN a ELSE b

\* reserve, refund: Reserve and Refund of a generation; set: SetBalance;
\* add, take: an order completed or refunded, with the commission in share
\* (0: none is due), or any other single posting.
Request ==
  [kind: {"reserve", "refund", "set", "add", "take"}, user: Users,
   gen: Gens \cup {NoGen}, amount: Nat, share: Nat]

Free == [pc |-> "free"]

\* cur: the balance read under the lock; wrote, next, delta: what the
\* transaction has written and not yet committed.
Open ==
  [pc: {"lock", "totals", "write", "commit"}, req: Request, wallet: Users,
   cur: Nat, wrote: SUBSET Users, next: [Users -> Nat],
   delta: [Users -> Int]]

\* (Variation: an order that is refunded takes the commission back first.)
FirstReferrer(q) == IF q.kind = "take" /\ q.share > 0 /\ Referrer[q.user] \in Users
                    THEN Referrer[q.user] ELSE q.user

\* The wallet a transaction locks first.
First(q) == q.user

\* The wallet it goes on to, when a commission is due.
HasShare(q) == q.share > 0 /\ Referrer[q.user] \in Users

Other(q) == IF First(q) = q.user THEN Referrer[q.user] ELSE q.user

\* What a request adds to wallet w, whose balance under the lock is c.
Delta(q, w, c) ==
  IF w # q.user THEN IF q.kind = "add" THEN q.share ELSE -q.share
  ELSE CASE q.kind \in {"refund", "add"} -> q.amount
         [] q.kind \in {"reserve", "take"} -> -q.amount
         [] OTHER -> q.amount - c

\* Callers ask for what the bounds allow.
Asked ==
  { q \in [kind: {"reserve", "refund"}, user: Users, gen: Gens,
           amount: Amounts, share: {0}] :
      /\ q.user = Owner[q.gen]
      /\ q.kind = "reserve" => reserved[q.gen] + q.amount <= MaxReserved }
  \cup [kind: {"set"}, user: Users, gen: {NoGen}, amount: {0} \cup Amounts,
        share: {0}]
  \cup { q \in [kind: {"add", "take"}, user: Users, gen: {NoGen},
                amount: Amounts, share: Shares] :
      /\ q.share > 0 => Referrer[q.user] \in Users
      /\ q.kind = "add" =>
           /\ balance[q.user] + q.amount <= MaxBalance
           /\ HasShare(q) => balance[Referrer[q.user]] + q.share <= MaxBalance }

Move(t, r) == tx' = [tx EXCEPT ![t] = r]

\* The locks of t are released with the end of its transaction.
Release(t) == holder' = [u \in Users |-> IF holder[u] = t THEN NoTx ELSE holder[u]]

Begin(t) ==
  /\ tx[t].pc = "free"
  /\ \E q \in Asked :
       Move(t, [pc |-> "lock", req |-> q, wallet |-> First(q), cur |-> 0,
                wrote |-> {}, next |-> [u \in Users |-> 0],
                delta |-> [u \in Users |-> 0]])
  /\ UNCHANGED <<store, holder>>

\* (Variation: the balance is read without waiting for the lock.)
LockNothing(t) ==
  LET w == tx[t].wallet
  IN  /\ tx[t].pc = "lock"
      /\ holder' = [holder EXCEPT ![w] = t]
      /\ Move(t, [tx[t] EXCEPT
           !.cur = balance[w],
           !.pc = IF tx[t].req.kind = "refund" THEN "totals" ELSE "write"])
      /\ UNCHANGED store

\* balanceForUpdate: wait for the row, then read it.
Lock(t) ==
  LET w == tx[t].wallet
  IN  /\ tx[t].pc = "lock"
      /\ holder[w] = NoTx
      /\ holder' = [holder EXCEPT ![w] = t]
      /\ Move(t, [tx[t] EXCEPT
           !.cur = balance[w],
           !.pc = IF tx[t].req.kind = "refund" THEN "totals" ELSE "write"])
      /\ UNCHANGED store

\* (Variation: the caller is trusted not to ask for more than it reserved.)
TotalsUnread(t) ==
  /\ tx[t].pc = "totals"
  /\ Move(t, [tx[t] EXCEPT !.pc = "write"])
  /\ UNCHANGED <<store, holder>>

\* Refund: the amount is capped by what the generation still holds; when it
\* holds nothing the transaction commits without a write.
Totals(t) ==
  LET g == tx[t].req.gen
      left == reserved[g] - refunded[g]
  IN  /\ tx[t].pc = "totals"
      /\ \/ /\ left <= 0
            /\ Move(t, [tx[t] EXCEPT !.pc = "commit"])
         \/ /\ left > 0
            /\ Move(t, [tx[t] EXCEPT !.req.amount = Least(@, left),
                                     !.pc = "write"])
      /\ UNCHANGED <<store, holder>>

\* (Variation: wallets may be overdrawn.)
CoversAll(c, d) == TRUE

\* A balance of c allows a change of d.
Covers(c, d) == c + d >= 0

\* The new balance must not be negative; then it is written with its ledger
\* entry, and the transaction goes on to the commission or to its commit.
Write(t) ==
  LET r == tx[t]
      w == r.wallet
      d == Delta(r.req, w, r.cur)
      more == HasShare(r.req) /\ w = First(r.req)
  IN  /\ r.pc = "write"
      /\ Covers(r.cur, d)
      /\ Move(t, [r EXCEPT
           !.cur = 0, !.wrote = @ \cup {w}, !.next[w] = r.cur + d, !.delta[w] = d,
           !.wallet = IF more THEN Other(r.req) ELSE w,
           !.pc = IF more THEN "lock" ELSE "commit"])
      /\ UNCHANGED <<store, holder>>

\* ErrInsufficientBalance: the whole transaction is rolled back.
Refuse(t) ==
  /\ tx[t].pc = "write"
  /\ ~Covers(tx[t].cur, Delta(tx[t].req, tx[t].wallet, tx[t].cur))
  /\ Release(t)
  /\ Move(t, Free)
  /\ UNCHANGED store

Commit(t) ==
  LET r == tx[t]
      q == r.req
      moves(kind, g) == q.kind = kind /\ q.gen = g /\ r.wrote # {}
  IN  /\ r.pc = "commit"
      /\ balance' = [u \in Users |-> IF u \in r.wrote THEN r.next[u]
                                     ELSE balance[u]]
      /\ posted' = [u \in Users |-> posted[u] + r.delta[u]]
      /\ reserved' = [g \in Gens |-> IF moves("reserve", g)
                        THEN reserved[g] + q.amount ELSE reserved[g]]
      /\ refunded' = [g \in Gens |-> IF moves("refund", g)
                        THEN refunded[g] + q.amount ELSE refunded[g]]
      /\ Release(t)
      /\ Move(t, Free)

\* A cancelled context, a lost connection or a crash.
Rollback(t) ==
  /\ tx[t].pc # "free"
  /\ Release(t)
  /\ Move(t, Free)
  /\ UNCHANGED store

-----------------------------------------------------------------------------

Init ==
  /\ LedgerInit
  /\ holder = [u \in Users |-> NoTx]
  /\ tx = [t \in Txs |-> Free]

Go(t) == Totals(t) \/ Write(t) \/ Refuse(t) \/ Commit(t)

Next == \E t \in Txs : Begin(t) \/ Lock(t) \/ Go(t) \/ Rollback(t)

Spec == Init /\ [][Next]_vars

\* A transaction that is not rolled back goes on; waiting for a row lock is
\* first come, first served in the database.
FairSpec ==
  Spec /\ \A t \in Txs : WF_vars(Go(t)) /\ SF_vars(Lock(t))

-----------------------------------------------------------------------------
(* Properties.  That FairSpec implements the ledger is the property        *)
(* LedgerSpec itself: the variables of the ledger are those of the store.  *)

\* The type invariant; no wallet is ever negative.
TypeOK ==
  /\ balance \in [Users -> Nat] /\ posted \in [Users -> Int]
  /\ reserved \in [Gens -> Nat] /\ refunded \in [Gens -> Nat]
  /\ holder \in [Users -> Txs \cup {NoTx}]
  /\ tx \in [Txs -> Open \cup {Free}]

\* The balance of a wallet is the sum of its ledger entries: no transaction
\* overwrites what another one has booked since it read the balance.
NoLostUpdate == \A u \in Users : balance[u] = posted[u]

\* However many handlers, executions and reconcilers refund a generation at
\* the same time, they never return more than was reserved for it.
NeverOverRefunded == \A g \in Gens : refunded[g] <= reserved[g]

\* A transaction that waits for a wallet holds only wallets of users who
\* registered later.
LockOrder ==
  \A t \in Txs, u \in Users :
    tx[t].pc = "lock" /\ holder[u] = t => Rank[tx[t].wallet] < Rank[u]

\* No transactions wait in a circle for each other's wallets: of any that do
\* not go on, one waits for nobody among them (balanceForUpdate on the buyer,
\* then on the referrer).
NoCircle ==
  \A W \in (SUBSET Txs) \ {{}} :
    \E t \in W : ~(tx[t].pc = "lock" /\ holder[tx[t].wallet] \in W)

\* Every transaction comes to an end, without the help of the database's
\* deadlock detector.
EveryTransactionEnds == \A t \in Txs : tx[t].pc # "free" ~> tx[t].pc = "free"
=============================================================================
