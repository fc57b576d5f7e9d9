-------------------------- MODULE CreditStore_proofs --------------------------
(***************************************************************************)
(* Proofs about the credit store, for any number of users, generations and *)
(* transactions, any amounts and any referrals that respect the order of   *)
(* registration.  The argument: a transaction holds the lock of every      *)
(* wallet it has written or is about to write, so what it read there is    *)
(* still the balance when it commits; a generation is always charged to    *)
(* the same wallet, so the cap read under that lock still stands, too.     *)
(***************************************************************************)
EXTENDS CreditStore, TLAPS, NaturalsInduction, WellFoundedInduction

-----------------------------------------------------------------------------
(* The inductive invariant.                                                *)

\* Requests that callers make.
WellFormed(q) ==
  /\ q.kind \in {"reserve", "refund"} =>
       q.gen \in Gens /\ q.user = Owner[q.gen] /\ q.share = 0 /\ q.amount > 0
  /\ q.kind \in {"set", "add", "take"} => q.gen = NoGen
  /\ q.kind = "set" => q.share = 0
  /\ q.share > 0 => Referrer[q.user] \in Users

\* How far a transaction has come: the wallet of its user first, that of the
\* referrer second.
Progress(r) ==
  /\ r.wrote \subseteq {r.req.user, Referrer[r.req.user]}
  /\ r.wrote # {} => r.req.user \in r.wrote
  /\ ~HasShare(r.req) => r.wrote \subseteq {r.req.user}
  /\ r.pc # "commit" /\ r.wrote = {} => r.wallet = r.req.user
  /\ r.pc # "commit" /\ r.wrote # {} =>
       /\ HasShare(r.req)
       /\ r.wallet = Referrer[r.req.user]
       /\ r.wrote = {r.req.user}
  /\ r.pc = "totals" => r.req.kind = "refund" /\ r.wrote = {}
  /\ r.pc = "commit" /\ r.wrote = {} => r.req.kind = "refund"

\* The wallets whose rows a transaction has locked.
Locked(r) ==
  IF r.pc = "free" THEN {}
  ELSE r.wrote \cup (IF r.pc = "lock" THEN {} ELSE {r.wallet})

\* What it read and what it is going to write is up to date.
Fresh(r) ==
  /\ r.pc \in {"totals", "write"} => r.cur = balance[r.wallet]
  /\ \A u \in Users :
       IF u \in r.wrote THEN r.next[u] = balance[u] + r.delta[u]
                        ELSE r.delta[u] = 0
  /\ r.req.kind = "reserve" /\ r.wrote # {} =>
       r.delta[r.req.user] = -r.req.amount
  /\ r.req.kind = "refund" /\ r.wrote # {} =>
       r.delta[r.req.user] = r.req.amount

\* A refund about to be written or committed is within what is reserved.
Capped(r) ==
  r.req.kind = "refund" /\ r.pc \in {"write", "commit"}
    /\ (r.pc = "commit" => r.wrote # {})
    => r.req.amount <= reserved[r.req.gen] - refunded[r.req.gen]

TxInv(r) ==
  r.pc # "free" => WellFormed(r.req) /\ Progress(r) /\ Fresh(r) /\ Capped(r)

LocksInv == \A t \in Txs, u \in Users : holder[u] = t <=> u \in Locked(tx[t])

IInv ==
  /\ TypeOK /\ NoLostUpdate /\ NeverOverRefunded /\ LocksInv
  /\ \A t \in Txs : TxInv(tx[t])

-----------------------------------------------------------------------------
(* Lemmas.                                                                 *)

\* Nobody is his own referrer.
LEMMA ReferrerIsAnother ==
  ASSUME NEW u \in Users, Referrer[u] \in Users
  PROVE  Referrer[u] # u /\ Rank[Referrer[u]] < Rank[u]
BY LedgerAssumption, StoreAssumption

\* A wallet a transaction has locked, nobody else has locked.
LEMMA OneHolder ==
  ASSUME LocksInv, NEW s \in Txs, NEW t \in Txs, s # t, NEW u \in Users,
         u \in Locked(tx[s])
  PROVE  u \notin Locked(tx[t])
BY DEF LocksInv

\* A step of t that leaves the ledger alone and keeps the locks consistent
\* preserves the invariant when it leaves t in a sound state.
LEMMA OwnStep ==
  ASSUME IInv, NEW t \in Txs, NEW r \in Open \cup {Free}, Move(t, r),
         UNCHANGED store, TxInv(r),
         holder' \in [Users -> Txs \cup {NoTx}],
         \A u \in Users : holder'[u] = t <=> u \in Locked(r),
         \A u \in Users, s \in Txs \ {t} : holder'[u] = s <=> holder[u] = s
  PROVE  IInv'
<1>1. tx' = [tx EXCEPT ![t] = r] /\ tx \in [Txs -> Open \cup {Free}]
  BY DEF Move, IInv, TypeOK
<1>2. tx'[t] = r /\ \A s \in Txs \ {t} : tx'[s] = tx[s]
  BY <1>1
<1>3. UNCHANGED <<balance, posted, reserved, refunded>>
  BY DEF store, ledgerVars
<1>4. TypeOK'
  BY <1>1, <1>3 DEF IInv, TypeOK
<1>5. NoLostUpdate' /\ NeverOverRefunded'
  BY <1>3 DEF IInv, NoLostUpdate, NeverOverRefunded
<1>6. LocksInv'
  <2> SUFFICES ASSUME NEW s \in Txs, NEW u \in Users
               PROVE  holder'[u] = s <=> u \in Locked(tx'[s])
    BY DEF LocksInv, Locked
  <2> QED BY <1>2 DEF IInv, LocksInv
<1>7. ASSUME NEW s \in Txs PROVE TxInv(tx[s])'
  <2>1. TxInv(tx'[s])
    BY <1>2 DEF IInv
  <2> QED
    BY <2>1, <1>3 DEF TxInv, WellFormed, Progress, Fresh, Capped, HasShare
<1> QED BY <1>4, <1>5, <1>6, <1>7 DEF IInv

-----------------------------------------------------------------------------
(* The invariant is inductive: one lemma per action.                       *)

LEMMA InitInv == Init => IInv
<1> SUFFICES ASSUME Init PROVE IInv
  OBVIOUS
<1>1. TypeOK
  BY DEF Init, LedgerInit, TypeOK
<1>2. NoLostUpdate /\ NeverOverRefunded
  BY DEF Init, LedgerInit, NoLostUpdate, NeverOverRefunded
<1>3. \A t \in Txs : tx[t].pc = "free"
  BY DEF Init, Free
<1>4. LocksInv
  BY <1>3, StoreAssumption DEF Init, LocksInv, Locked
<1> QED BY <1>1, <1>2, <1>3, <1>4 DEF IInv, TxInv

LEMMA BeginInv == ASSUME IInv, NEW t \in Txs, Begin(t) PROVE IInv'
<1>1. PICK q \in Asked :
        Move(t, [pc |-> "lock", req |-> q, wallet |-> First(q), cur |-> 0,
                 wrote |-> {}, next |-> [u \in Users |-> 0],
                 delta |-> [u \in Users |-> 0]])
  BY DEF Begin
<1> DEFINE r == [pc |-> "lock", req |-> q, wallet |-> First(q), cur |-> 0,
                 wrote |-> {}, next |-> [u \in Users |-> 0],
                 delta |-> [u \in Users |-> 0]]
<1>2. q \in Request /\ WellFormed(q)
  <2>0. \A n \in {0} \cup Amounts : n \in Nat /\ (n \in Amounts => n > 0)
    <3>1. Amounts \subseteq Nat \ {0}
      BY StoreAssumption
    <3> QED BY <3>1
  <2>1. CASE /\ q \in [kind: {"reserve", "refund"}, user: Users, gen: Gens,
                        amount: Amounts, share: {0}]
             /\ q.user = Owner[q.gen]
    <3>1. /\ q.kind \in {"reserve", "refund"} /\ q.user \in Users
          /\ q.gen \in Gens /\ q.amount \in Nat /\ q.amount > 0 /\ q.share = 0
      BY <2>0, <2>1
    <3>2. q \in Request
      BY <2>1, <3>1 DEF Request
    <3> QED BY <2>1, <3>1, <3>2 DEF WellFormed
  <2>2. CASE q \in [kind: {"set"}, user: Users, gen: {NoGen},
                    amount: {0} \cup Amounts, share: {0}]
    <3>1. /\ q.kind = "set" /\ q.user \in Users /\ q.gen = NoGen
          /\ q.amount \in {0} \cup Amounts /\ q.share = 0
      BY <2>2
    <3>2. q.amount \in Nat
      BY <2>0, <3>1
    <3>3. q \in Request
      BY <2>2, <3>1, <3>2 DEF Request
    <3> QED BY <3>1, <3>3 DEF WellFormed
  <2>3. CASE /\ q \in [kind: {"add", "take"}, user: Users, gen: {NoGen},
                        amount: Amounts, share: Shares]
             /\ q.share > 0 => Referrer[q.user] \in Users
    <3>1. /\ q.kind \in {"add", "take"} /\ q.user \in Users /\ q.gen = NoGen
          /\ q.amount \in Nat /\ q.share \in Nat
      BY <2>3, StoreAssumption
    <3>2. q \in Request
      BY <2>3, <3>1 DEF Request
    <3> QED BY <2>3, <3>1, <3>2 DEF WellFormed
  <2> QED BY <2>1, <2>2, <2>3 DEF Asked
<1>3. r \in Open
  BY <1>2 DEF Open, Request, First
<1>4. TxInv(r)
  BY <1>2 DEF TxInv, Progress, Fresh, Capped, First
<1>5. Locked(r) = {} /\ Locked(tx[t]) = {}
  BY DEF Locked, Begin
<1>6. holder' = holder /\ UNCHANGED store /\ holder \in [Users -> Txs \cup {NoTx}]
  BY DEF Begin, IInv, TypeOK
<1>7. \A u \in Users : holder'[u] = t <=> u \in Locked(r)
  BY <1>5, <1>6 DEF IInv, LocksInv
<1> QED BY <1>1, <1>3, <1>4, <1>6, <1>7, OwnStep

LEMMA LockInv == ASSUME IInv, NEW t \in Txs, Lock(t) PROVE IInv'
<1> DEFINE w == tx[t].wallet
           r == [tx[t] EXCEPT
                  !.cur = balance[w],
                  !.pc = IF tx[t].req.kind = "refund" THEN "totals" ELSE "write"]
<1>1. tx[t] \in Open /\ tx[t].pc = "lock" /\ balance \in [Users -> Nat]
  BY DEF IInv, TypeOK, Lock, Free
<1>2. r \in Open /\ w \in Users /\ r.wallet = w /\ r.cur = balance[w]
      /\ r.wrote = tx[t].wrote /\ r.req = tx[t].req /\ r.delta = tx[t].delta
      /\ r.next = tx[t].next /\ r.pc \in {"totals", "write"}
      /\ (r.pc = "totals" <=> r.req.kind = "refund")
  BY <1>1 DEF Open
<1>3. TxInv(tx[t])
  BY DEF IInv
<1>4. r.req.kind = "refund" => r.wrote = {}
  BY <1>1, <1>2, <1>3 DEF TxInv, Progress, WellFormed, HasShare, Open, Request
<1>5. TxInv(r)
  BY <1>1, <1>2, <1>3, <1>4
  DEF TxInv, Progress, Fresh, Capped, HasShare
<1>6. Locked(tx[t]) = tx[t].wrote /\ Locked(r) = tx[t].wrote \cup {w}
  BY <1>1, <1>2 DEF Locked
<1>7. /\ holder \in [Users -> Txs \cup {NoTx}]
      /\ holder' = [holder EXCEPT ![w] = t] /\ holder[w] = NoTx
      /\ Move(t, r) /\ UNCHANGED store
  BY DEF IInv, TypeOK, Lock
<1>8. \A u \in Users : holder'[u] = t <=> u \in Locked(r)
  BY <1>2, <1>6, <1>7 DEF IInv, LocksInv
<1>9. \A u \in Users, s \in Txs \ {t} : holder'[u] = s <=> holder[u] = s
  BY <1>2, <1>7, StoreAssumption
<1>10. holder' \in [Users -> Txs \cup {NoTx}]
  BY <1>7
<1> QED BY <1>2, <1>5, <1>7, <1>8, <1>9, <1>10, OwnStep

LEMMA TotalsInv == ASSUME IInv, NEW t \in Txs, Totals(t) PROVE IInv'
<1> DEFINE x == tx[t]
           left == reserved[x.req.gen] - refunded[x.req.gen]
<1>1. x \in Open /\ x.pc = "totals" /\ TxInv(x)
  BY DEF IInv, TypeOK, Totals, Free
<1>2. x.req.kind = "refund" /\ x.wrote = {} /\ WellFormed(x.req)
      /\ x.req.gen \in Gens /\ x.req \in Request
  BY <1>1 DEF TxInv, Progress, WellFormed, Open
<1>3. left \in Int
  BY <1>2 DEF IInv, TypeOK
<1>4. /\ holder \in [Users -> Txs \cup {NoTx}] /\ holder' = holder
      /\ UNCHANGED store
  BY DEF IInv, TypeOK, Totals
<1>5. CASE left <= 0 /\ Move(t, [x EXCEPT !.pc = "commit"])
  <2> DEFINE r == [x EXCEPT !.pc = "commit"]
  <2>1. r \in Open /\ r.pc = "commit" /\ r.wrote = x.wrote /\ r.req = x.req
        /\ r.delta = x.delta /\ r.next = x.next /\ r.wallet = x.wallet
    BY <1>1 DEF Open
  <2>2. TxInv(r)
    BY <1>1, <1>2, <2>1 DEF TxInv, Progress, Fresh, Capped, HasShare
  <2>3. Locked(r) = Locked(x)
    BY <1>1, <2>1 DEF Locked
  <2> QED BY <1>4, <1>5, <2>1, <2>2, <2>3, OwnStep DEF IInv, LocksInv
<1>6. CASE left > 0 /\ Move(t, [x EXCEPT !.req.amount = Least(@, left),
                                         !.pc = "write"])
  <2> DEFINE q == [x.req EXCEPT !.amount = Least(@, left)]
             r == [x EXCEPT !.req = q, !.pc = "write"]
  <2>1. q \in Request /\ q.kind = x.req.kind /\ q.user = x.req.user
        /\ q.gen = x.req.gen /\ q.share = x.req.share
        /\ q.amount = Least(x.req.amount, left) /\ x.req.amount \in Nat
    BY <1>2, <1>3, <1>6 DEF Request, Least
  <2>2. q.amount > 0 /\ q.amount <= left
    BY <1>2, <1>3, <1>6, <2>1 DEF WellFormed, Least
  <2>3. r \in Open /\ r.pc = "write" /\ r.wrote = {} /\ r.req = q
        /\ r.delta = x.delta /\ r.next = x.next /\ r.wallet = x.wallet
        /\ r.cur = x.cur
    BY <1>1, <1>2, <2>1 DEF Open
  <2>4. Move(t, r)
    BY <1>1, <1>2, <1>6 DEF Move, Open, Request
  <2>5. WellFormed(q)
    BY <1>2, <2>1, <2>2 DEF WellFormed
  <2>6. TxInv(r)
    BY <1>1, <1>2, <2>1, <2>2, <2>3, <2>5
    DEF TxInv, Progress, Fresh, Capped, HasShare
  <2>7. Locked(r) = Locked(x)
    BY <1>1, <1>2, <2>3 DEF Locked
  <2> QED BY <1>4, <2>3, <2>4, <2>6, <2>7, OwnStep DEF IInv, LocksInv
<1> QED BY <1>5, <1>6 DEF Totals

LEMMA DeltaFacts ==
  ASSUME NEW q \in Request, NEW w \in Users, NEW c \in Nat
  PROVE  /\ Delta(q, w, c) \in Int
         /\ w = q.user /\ q.kind = "reserve" => Delta(q, w, c) = -q.amount
         /\ w = q.user /\ q.kind = "refund" => Delta(q, w, c) = q.amount
BY DEF Delta, Request

LEMMA WriteInv == ASSUME IInv, NEW t \in Txs, Write(t) PROVE IInv'
<1> DEFINE x == tx[t]
           w == x.wallet
           q == x.req
           d == Delta(q, w, x.cur)
           more == HasShare(q) /\ w = First(q)
           r == [x EXCEPT
             !.cur = 0, !.wrote = @ \cup {w}, !.next[w] = x.cur + d,
             !.delta[w] = d,
             !.wallet = IF more THEN Other(q) ELSE w,
             !.pc = IF more THEN "lock" ELSE "commit"]
<1>1. x \in Open /\ x.pc = "write" /\ TxInv(x)
  BY DEF IInv, TypeOK, Write, Free
<1>2. q \in Request /\ w \in Users /\ x.cur \in Nat /\ x.wrote \subseteq Users
      /\ x.next \in [Users -> Nat] /\ x.delta \in [Users -> Int]
  BY <1>1 DEF Open
<1>3. WellFormed(q) /\ Progress(x) /\ Fresh(x) /\ Capped(x)
  BY <1>1 DEF TxInv
<1>4. d \in Int
  BY <1>2, DeltaFacts
<1>5. x.cur + d \in Nat
  BY <1>2, <1>4 DEF Write, Covers
<1>6. q.user \in Users /\ (HasShare(q) => Referrer[q.user] \in Users
                                          /\ Referrer[q.user] # q.user)
  BY <1>2, ReferrerIsAnother DEF HasShare, Request
<1>7. \/ x.wrote = {} /\ w = q.user
      \/ x.wrote = {q.user} /\ w = Referrer[q.user] /\ HasShare(q)
  BY <1>1, <1>3 DEF Progress
<1>8. more => Other(q) \in Users /\ Other(q) = Referrer[q.user] /\ w = q.user
  BY <1>6 DEF First, Other
<1>9. /\ r.req = q /\ r.wrote = x.wrote \cup {w}
      /\ r.next = [x.next EXCEPT ![w] = x.cur + d]
      /\ r.delta = [x.delta EXCEPT ![w] = d]
      /\ r.wallet = (IF more THEN Other(q) ELSE w)
      /\ r.pc = (IF more THEN "lock" ELSE "commit")
      /\ r.cur = 0
  BY <1>1 DEF Open
<1>10. r \in Open
  <2>1. r.next \in [Users -> Nat] /\ r.delta \in [Users -> Int]
    BY <1>2, <1>4, <1>5, <1>9
  <2>2. r.wallet \in Users /\ r.wrote \subseteq Users
        /\ r.pc \in {"lock", "commit"}
    BY <1>2, <1>8, <1>9
  <2> HIDE DEF d, more
  <2> QED BY <1>1, <1>2, <1>9, <2>1, <2>2 DEF Open
<1> HIDE DEF r
<1>11. TxInv(r)
  <2>1. Progress(r)
    BY <1>6, <1>7, <1>8, <1>9 DEF Progress, First
  <2>2. Fresh(r)
    <3>1. x.cur = balance[w]
      BY <1>1, <1>3 DEF Fresh
    <3>2. \A u \in Users :
            IF u \in r.wrote THEN r.next[u] = balance[u] + r.delta[u]
                             ELSE r.delta[u] = 0
      <4> SUFFICES ASSUME NEW u \in Users
                   PROVE  IF u \in r.wrote
                          THEN r.next[u] = balance[u] + r.delta[u]
                          ELSE r.delta[u] = 0
        OBVIOUS
      <4>1. CASE u = w
        <5>1. u \in r.wrote /\ r.next[u] = x.cur + d /\ r.delta[u] = d
          BY <1>2, <1>9, <4>1
        <5> QED BY <3>1, <4>1, <5>1
      <4>2. CASE u # w
        <5>1. /\ u \in r.wrote <=> u \in x.wrote
              /\ r.next[u] = x.next[u] /\ r.delta[u] = x.delta[u]
          BY <1>2, <1>9, <4>2
        <5> QED BY <1>3, <5>1 DEF Fresh
      <4> QED BY <4>1, <4>2
    <3>3. q.kind \in {"reserve", "refund"} => w = q.user
      <4>1. q.kind \in {"reserve", "refund"} => ~HasShare(q)
        BY <1>2, <1>3 DEF WellFormed, HasShare, Request
      <4> QED BY <1>7, <4>1
    <3>4. q.kind = "reserve" => r.delta[q.user] = -q.amount
      BY <1>2, <1>6, <1>9, <3>3, DeltaFacts
    <3>5. q.kind = "refund" => r.delta[q.user] = q.amount
      BY <1>2, <1>6, <1>9, <3>3, DeltaFacts
    <3> QED BY <1>9, <3>2, <3>4, <3>5 DEF Fresh
  <2>3. Capped(r)
    <3>1. q.kind = "refund" => q.amount <= reserved[q.gen] - refunded[q.gen]
      BY <1>1, <1>3 DEF Capped
    <3> QED BY <1>9, <3>1 DEF Capped
  <2> QED BY <1>3, <1>9, <2>1, <2>2, <2>3 DEF TxInv
<1>12. Locked(r) = Locked(x)
  BY <1>1, <1>9 DEF Locked
<1>13. /\ holder \in [Users -> Txs \cup {NoTx}] /\ holder' = holder
       /\ Move(t, r) /\ UNCHANGED store
  BY DEF IInv, TypeOK, Write, r
<1> QED BY <1>10, <1>11, <1>12, <1>13, OwnStep DEF IInv, LocksInv

LEMMA ReleaseLocks ==
  ASSUME IInv, NEW t \in Txs, Release(t)
  PROVE  /\ holder' \in [Users -> Txs \cup {NoTx}]
         /\ \A u \in Users : holder'[u] # t
         /\ \A u \in Users, s \in Txs \ {t} : holder'[u] = s <=> holder[u] = s
BY StoreAssumption DEF IInv, TypeOK, Release

LEMMA EndInv ==
  ASSUME IInv, NEW t \in Txs, Refuse(t) \/ Rollback(t)
  PROVE  IInv'
<1>1. Release(t) /\ Move(t, Free) /\ UNCHANGED store
  BY DEF Refuse, Rollback
<1>2. TxInv(Free) /\ Locked(Free) = {}
  BY DEF TxInv, Locked, Free
<1>3. \A u \in Users : holder'[u] = t <=> u \in Locked(Free)
  BY <1>1, <1>2, ReleaseLocks
<1> QED BY <1>1, <1>2, <1>3, ReleaseLocks, OwnStep

\* What a commit does to each wallet and to each generation.
LEMMA CommitEffect ==
  ASSUME IInv, NEW t \in Txs, Commit(t)
  PROVE  /\ tx[t] \in Open /\ TxInv(tx[t]) /\ tx[t].pc = "commit"
         /\ tx' = [tx EXCEPT ![t] = Free]
         /\ \A u \in Users : balance'[u] = balance[u] + tx[t].delta[u]
         /\ \A u \in Users : posted'[u] = posted[u] + tx[t].delta[u]
         /\ balance' \in [Users -> Nat] /\ posted' \in [Users -> Int]
         /\ \A u \in Users : u \notin tx[t].wrote => balance'[u] = balance[u]
<1> DEFINE x == tx[t]
<1>1. x \in Open /\ TxInv(x) /\ x.pc = "commit"
  BY DEF IInv, TypeOK, Commit, Free
<1>2. /\ balance \in [Users -> Nat] /\ posted \in [Users -> Int]
      /\ tx \in [Txs -> Open \cup {Free}]
  BY DEF IInv, TypeOK
<1>3. x.next \in [Users -> Nat] /\ x.delta \in [Users -> Int]
  BY <1>1 DEF Open
<1>4. /\ balance' = [u \in Users |-> IF u \in x.wrote THEN x.next[u]
                                     ELSE balance[u]]
      /\ posted' = [u \in Users |-> posted[u] + x.delta[u]]
      /\ tx' = [tx EXCEPT ![t] = Free]
  BY DEF Commit, Move
<1>5. \A u \in Users : IF u \in x.wrote THEN x.next[u] = balance[u] + x.delta[u]
                                        ELSE x.delta[u] = 0
  BY <1>1 DEF TxInv, Fresh
<1>6. balance' \in [Users -> Nat] /\ posted' \in [Users -> Int]
  BY <1>2, <1>3, <1>4
<1>7. \A u \in Users : balance'[u] = balance[u] + x.delta[u]
  BY <1>2, <1>4, <1>5
<1> QED BY <1>1, <1>4, <1>6, <1>7

\* Only a reserve or a refund that wrote moves the totals of its generation.
LEMMA CommitTotals ==
  ASSUME IInv, NEW t \in Txs, Commit(t), NEW g \in Gens
  PROVE  /\ reserved'[g] = IF /\ tx[t].req.kind = "reserve"
                              /\ tx[t].req.gen = g /\ tx[t].wrote # {}
                           THEN reserved[g] + tx[t].req.amount ELSE reserved[g]
         /\ refunded'[g] = IF /\ tx[t].req.kind = "refund"
                              /\ tx[t].req.gen = g /\ tx[t].wrote # {}
                           THEN refunded[g] + tx[t].req.amount ELSE refunded[g]
         /\ reserved' \in [Gens -> Nat] /\ refunded' \in [Gens -> Nat]
         /\ tx[t].req.amount \in Nat
<1>1. tx[t].req.amount \in Nat
  BY CommitEffect DEF Open, Request
<1>2. reserved \in [Gens -> Nat] /\ refunded \in [Gens -> Nat]
  BY DEF IInv, TypeOK
<1> QED BY <1>1, <1>2 DEF Commit

LEMMA CommitInv == ASSUME IInv, NEW t \in Txs, Commit(t) PROVE IInv'
<1> DEFINE x == tx[t]
           q == x.req
<1>1. /\ x \in Open /\ WellFormed(q) /\ Progress(x) /\ Fresh(x) /\ Capped(x)
      /\ x.pc = "commit"
  BY CommitEffect DEF TxInv
<1>2. tx' = [tx EXCEPT ![t] = Free] /\ tx \in [Txs -> Open \cup {Free}]
  BY CommitEffect DEF IInv, TypeOK
<1>3. tx'[t] = Free /\ \A s \in Txs \ {t} : tx'[s] = tx[s]
  BY <1>2
<1>4. Release(t)
  BY DEF Commit
<1>5. TypeOK'
  <2>1. tx' \in [Txs -> Open \cup {Free}]
    BY <1>2
  <2>2. CASE Gens = {}
    BY <1>4, <2>1, <2>2, CommitEffect, ReleaseLocks
    DEF TypeOK, Commit
  <2>3. CASE Gens # {}
    BY <1>4, <2>1, <2>3, CommitEffect, CommitTotals, ReleaseLocks DEF TypeOK
  <2> QED BY <2>2, <2>3
<1>6. NoLostUpdate'
  <2> SUFFICES ASSUME NEW u \in Users PROVE balance'[u] = posted'[u]
    BY DEF NoLostUpdate
  <2>1. balance[u] = posted[u]
    BY DEF IInv, NoLostUpdate
  <2> QED BY <2>1, CommitEffect
<1>7. NeverOverRefunded'
  <2> SUFFICES ASSUME NEW g \in Gens PROVE refunded'[g] <= reserved'[g]
    BY DEF NeverOverRefunded
  <2>1. /\ refunded[g] <= reserved[g]
        /\ refunded[g] \in Nat /\ reserved[g] \in Nat
    BY DEF IInv, NeverOverRefunded, TypeOK
  <2>2. CASE q.kind = "refund" /\ q.gen = g /\ x.wrote # {}
    <3>1. q.amount <= reserved[g] - refunded[g]
      BY <1>1, <2>2 DEF Capped
    <3> QED BY <2>1, <2>2, <3>1, CommitTotals
  <2>3. CASE ~(q.kind = "refund" /\ q.gen = g /\ x.wrote # {})
    BY <2>1, <2>3, CommitTotals
  <2> QED BY <2>2, <2>3
<1>8. LocksInv'
  <2> SUFFICES ASSUME NEW s \in Txs, NEW u \in Users
               PROVE  holder'[u] = s <=> u \in Locked(tx'[s])
    BY DEF LocksInv, Locked
  <2>1. CASE s = t
    BY <1>3, <1>4, <2>1, ReleaseLocks DEF Locked, Free
  <2>2. CASE s # t
    BY <1>3, <1>4, <2>2, ReleaseLocks DEF IInv, LocksInv
  <2> QED BY <2>1, <2>2
<1>9. ASSUME NEW s \in Txs PROVE TxInv(tx[s])'
  <2>1. CASE s = t
    BY <1>3, <2>1 DEF TxInv, Free
  <2>2. CASE s # t /\ tx[s].pc = "free"
    BY <1>3, <2>2 DEF TxInv
  <2>3. CASE s # t /\ tx[s].pc # "free"
    <3> DEFINE y == tx[s]
    <3>1. /\ y \in Open /\ WellFormed(y.req) /\ Progress(y) /\ Fresh(y)
          /\ Capped(y) /\ tx'[s] = y
      BY <1>3, <2>3 DEF IInv, TypeOK, TxInv, Free
    <3>2. y.wrote \subseteq Users /\ y.wallet \in Users
      BY <3>1 DEF Open
    <3>3. \A u \in Users : u \in Locked(y) => u \notin x.wrote
      BY <1>1, <2>3, OneHolder DEF IInv, Locked
    <3>4. \A u \in Users : u \in Locked(y) => balance'[u] = balance[u]
      BY <3>3, CommitEffect
    <3>5. y.pc \in {"totals", "write"} => y.cur = balance'[y.wallet]
      BY <3>1, <3>2, <3>4 DEF Fresh, Locked
    <3>6. \A u \in Users :
            IF u \in y.wrote THEN y.next[u] = balance'[u] + y.delta[u]
                             ELSE y.delta[u] = 0
      BY <2>3, <3>1, <3>4 DEF Fresh, Locked
    <3>7. Fresh(tx[s])'
      <4> HIDE DEF y
      <4> QED BY <3>1, <3>5, <3>6 DEF Fresh
    <3>8. Capped(tx[s])'
      <4> SUFFICES ASSUME y.req.kind = "refund", y.pc \in {"write", "commit"},
                          y.pc = "commit" => y.wrote # {}
                   PROVE  y.req.amount
                            <= reserved'[y.req.gen] - refunded'[y.req.gen]
        BY <3>1 DEF Capped
      <4> DEFINE g == y.req.gen
      <4>1. g \in Gens /\ y.req.user = Owner[g] /\ Owner[g] \in Users
            /\ y.req.amount \in Nat
        BY <3>1, LedgerAssumption DEF WellFormed, Open, Request
      <4>2. Owner[g] \in Locked(y)
        BY <2>3, <3>1, <4>1 DEF Locked, Progress
      <4>3. ~(q.kind = "refund" /\ q.gen = g /\ x.wrote # {})
        BY <1>1, <3>3, <4>1, <4>2 DEF WellFormed, Progress
      <4>4. refunded'[g] = refunded[g] /\ reserved'[g] >= reserved[g]
            /\ refunded[g] \in Nat /\ reserved[g] \in Nat /\ reserved'[g] \in Nat
        BY <4>1, <4>3, CommitTotals DEF IInv, TypeOK
      <4>5. y.req.amount <= reserved[g] - refunded[g]
        BY <3>1 DEF Capped
      <4> HIDE DEF y, g
      <4> QED BY <4>1, <4>4, <4>5 DEF g
    <3> QED BY <3>1, <3>7, <3>8 DEF TxInv, WellFormed, Progress, HasShare
  <2> QED BY <2>1, <2>2, <2>3
<1> QED BY <1>5, <1>6, <1>7, <1>8, <1>9 DEF IInv

LEMMA NextInv == IInv /\ [Next]_vars => IInv'
<1> SUFFICES ASSUME IInv, [Next]_vars PROVE IInv'
  OBVIOUS
<1>1. ASSUME NEW t \in Txs, Begin(t) PROVE IInv'
  BY <1>1, BeginInv
<1>2. ASSUME NEW t \in Txs, Lock(t) PROVE IInv'
  BY <1>2, LockInv
<1>3. ASSUME NEW t \in Txs, Go(t) PROVE IInv'
  BY <1>3, TotalsInv, WriteInv, EndInv, CommitInv DEF Go
<1>4. ASSUME NEW t \in Txs, Rollback(t) PROVE IInv'
  BY <1>4, EndInv
<1>5. CASE UNCHANGED vars
  BY <1>5 DEF vars, IInv, TypeOK, NoLostUpdate, NeverOverRefunded, LocksInv,
    Locked, TxInv, WellFormed, Progress, Fresh, Capped, HasShare
<1> QED BY <1>1, <1>2, <1>3, <1>4, <1>5 DEF Next

\* The inductive invariant holds in every behaviour.
THEOREM Invariance == Spec => []IInv
<1>1. Init => IInv
  BY InitInv
<1>2. IInv /\ [Next]_vars => IInv'
  BY NextInv
<1> QED BY <1>1, <1>2, PTL DEF Spec

-----------------------------------------------------------------------------
(* What the store promises.                                                *)

\* Balances, ledgers and transactions are always well formed; no committed
\* balance is negative (writeBalanceDeltaWithSource).
THEOREM TypeCorrect == Spec => []TypeOK
<1>1. IInv => TypeOK
  BY DEF IInv
<1> QED BY <1>1, Invariance, PTL

\* Row locks taken before the balance is read rule out lost updates
\* (balanceForUpdate).
THEOREM BalancesMatchLedger == Spec => []NoLostUpdate
<1>1. IInv => NoLostUpdate
  BY DEF IInv
<1> QED BY <1>1, Invariance, PTL

\* Concurrent refunds of one generation never exceed its reserves (Refund).
THEOREM RefundsAreCapped == Spec => []NeverOverRefunded
<1>1. IInv => NeverOverRefunded
  BY DEF IInv
<1> QED BY <1>1, Invariance, PTL

\* Users lock their own wallet and then that of their referrer, who
\* registered before them.
THEOREM LocksAreOrdered == Spec => []LockOrder
<1>1. IInv => LockOrder
  <2> SUFFICES ASSUME IInv, NEW t \in Txs, NEW u \in Users,
                      tx[t].pc = "lock", holder[u] = t
               PROVE  Rank[tx[t].wallet] < Rank[u]
    BY DEF LockOrder
  <2>1. u \in tx[t].wrote
    BY DEF IInv, LocksInv, Locked
  <2>2. u = tx[t].req.user /\ tx[t].wallet = Referrer[u] /\ Referrer[u] \in Users
    BY <2>1 DEF IInv, TxInv, Progress, HasShare
  <2> QED BY <2>2, ReferrerIsAnother
<1> QED BY <1>1, Invariance, PTL

\* A set of numbers has a smallest one.
LEMMA LowestRank ==
  ASSUME NEW R \in SUBSET Nat, R # {}
  PROVE  \E n \in R : \A m \in R : n <= m
<1> DEFINE L == OpToRel(<, Nat)
<1>1. IsWellFoundedOn(L, Nat) BY NatLessThanWellFounded
<1>2. \A x, y \in Nat : x < y => <<x, y>> \in L BY DEF OpToRel
<1> HIDE DEF L
<1>3. PICK n \in R : \A m \in R : ~(<<m, n>> \in L) BY <1>1, WFMin
<1>4. ASSUME NEW m \in R PROVE n <= m
  <2>1. m \in Nat /\ n \in Nat /\ (m < n => <<m, n>> \in L) BY <1>2
  <2>2. ~(m < n) BY <1>3, <2>1
  <2> QED BY <2>1, <2>2
<1> QED BY <1>4

\* Orders never block each other for good: of transactions that all wait, the
\* one that waits for the user registered first waits for somebody who waits
\* for a user registered still earlier, who is not among them
\* (balanceForUpdate, completeOrder and its commission).
THEOREM NobodyWaitsInACircle == Spec => []NoCircle
<1>1. IInv /\ LockOrder => NoCircle
  <2> SUFFICES ASSUME IInv, LockOrder, NEW W \in (SUBSET Txs) \ {{}},
                      \A t \in W : tx[t].pc = "lock" /\ holder[tx[t].wallet] \in W
               PROVE  FALSE
    BY Zenon DEF NoCircle
  <2> DEFINE R == {Rank[tx[t].wallet] : t \in W}
  <2>1. ASSUME NEW t \in W PROVE tx[t].wallet \in Users /\ Rank[tx[t].wallet] \in Nat
    <3>1. tx[t] \in Open BY DEF IInv, TypeOK, Free
    <3>2. tx[t].wallet \in Users BY <3>1 DEF Open
    <3> QED BY <3>2, StoreAssumption
  <2>2. PICK n \in R : \A m \in R : n <= m
    <3>1. R \subseteq Nat BY <2>1
    <3>2. PICK t \in W : TRUE OBVIOUS
    <3>3. Rank[tx[t].wallet] \in R BY <3>2
    <3> HIDE DEF R
    <3> QED BY <3>1, <3>3, LowestRank
  <2>3. PICK t \in W : n = Rank[tx[t].wallet] BY <2>2
  <2> DEFINE d == holder[tx[t].wallet]
  <2>4. d \in W /\ Rank[tx[d].wallet] \in R BY <2>3
  <2>5. Rank[tx[d].wallet] < Rank[tx[t].wallet] BY <2>1, <2>4 DEF LockOrder
  <2>6. Rank[tx[d].wallet] \in Nat /\ Rank[tx[t].wallet] \in Nat BY <2>1, <2>4
  <2>7. n <= Rank[tx[d].wallet] BY <2>2, <2>4
  <2> HIDE DEF d, R
  <2> QED BY <2>3, <2>5, <2>6, <2>7
<1>2. Spec => []IInv BY Invariance
<1> QED BY <1>1, <1>2, LocksAreOrdered, PTL

-----------------------------------------------------------------------------
(* The store implements the ledger.                                        *)

\* A commit posts all of its transaction at once.
LEMMA CommitIsLedgerStep ==
  ASSUME IInv, NEW t \in Txs, Commit(t)
  PROVE  [LedgerNext]_ledgerVars
<1> DEFINE x == tx[t]
           q == x.req
           u == q.user
<1>1. /\ x \in Open /\ x.pc = "commit"
      /\ WellFormed(q) /\ Progress(x) /\ Fresh(x) /\ Capped(x)
  BY CommitEffect DEF TxInv
<1>2. q \in Request /\ u \in Users /\ q.amount \in Nat /\ x.wrote \subseteq Users
      /\ x.delta \in [Users -> Int]
  BY <1>1 DEF Open, Request
<1>3. \A v \in Users \ x.wrote : x.delta[v] = 0
  BY <1>1 DEF Fresh
<1>4. /\ balance \in [Users -> Nat] /\ posted \in [Users -> Int]
      /\ reserved \in [Gens -> Nat] /\ refunded \in [Gens -> Nat]
  BY DEF IInv, TypeOK
<1>5. /\ balance' = [v \in Users |-> balance[v] + x.delta[v]]
      /\ posted' = [v \in Users |-> posted[v] + x.delta[v]]
  BY <1>1, <1>2, <1>3, <1>4, CommitEffect DEF Commit, Fresh
<1>6. /\ reserved' = [g \in Gens |->
           IF q.kind = "reserve" /\ q.gen = g /\ x.wrote # {}
           THEN reserved[g] + q.amount ELSE reserved[g]]
      /\ refunded' = [g \in Gens |->
           IF q.kind = "refund" /\ q.gen = g /\ x.wrote # {}
           THEN refunded[g] + q.amount ELSE refunded[g]]
  BY DEF Commit
<1>7. CASE q.kind \in {"reserve", "refund"} /\ x.wrote = {}
  <2>1. balance' = balance /\ posted' = posted
    BY <1>2, <1>3, <1>4, <1>5, <1>7
  <2>2. reserved' = reserved /\ refunded' = refunded
    BY <1>4, <1>6, <1>7
  <2> QED BY <2>1, <2>2 DEF ledgerVars
<1>8. CASE q.kind \in {"reserve", "refund"} /\ x.wrote # {}
  <2> DEFINE d == x.delta[u]
  <2>1. q.gen \in Gens /\ u = Owner[q.gen] /\ q.amount > 0
    BY <1>1, <1>8 DEF WellFormed
  <2>2. x.wrote = {u}
    BY <1>1, <1>2, <1>8 DEF WellFormed, Progress, HasShare
  <2>3. balance' = [balance EXCEPT ![u] = @ + d]
        /\ posted' = [posted EXCEPT ![u] = @ + d]
    <3>1. \A v \in Users \ {u} : x.delta[v] = 0
      BY <1>3, <2>2
    <3>2. balance \in [Users -> Int] /\ posted \in [Users -> Int]
      BY <1>4
    <3> DEFINE e == x.delta
    <3>3. e \in [Users -> Int] /\ u \in Users
      BY <1>2
    <3>4. balance' = [v \in Users |-> balance[v] + e[v]]
          /\ posted' = [v \in Users |-> posted[v] + e[v]]
      BY <1>5
    <3>5. d = e[u] /\ \A v \in Users \ {u} : e[v] = 0
      BY <3>1
    <3> HIDE DEF d, e, u
    <3>6. [v \in Users |-> balance[v] + e[v]] = [balance EXCEPT ![u] = @ + e[u]]
      <4>1. ASSUME NEW v \in Users
            PROVE  balance[v] + e[v] = [balance EXCEPT ![u] = @ + e[u]][v]
        <5>1. CASE v = u
          BY <3>2, <3>3, <5>1
        <5>2. CASE v # u
          <6>1. e[v] = 0 /\ balance[v] \in Int
            BY <3>2, <3>5, <5>2
          <6>2. [balance EXCEPT ![u] = @ + e[u]][v] = balance[v]
            BY <3>2, <5>2
          <6> QED BY <6>1, <6>2
        <5> QED BY <5>1, <5>2
      <4> QED BY <3>2, <4>1
    <3>7. [v \in Users |-> posted[v] + e[v]] = [posted EXCEPT ![u] = @ + e[u]]
      <4>1. ASSUME NEW v \in Users
            PROVE  posted[v] + e[v] = [posted EXCEPT ![u] = @ + e[u]][v]
        <5>1. CASE v = u
          BY <3>2, <3>3, <5>1
        <5>2. CASE v # u
          <6>1. e[v] = 0 /\ posted[v] \in Int
            BY <3>2, <3>5, <5>2
          <6>2. [posted EXCEPT ![u] = @ + e[u]][v] = posted[v]
            BY <3>2, <5>2
          <6> QED BY <6>1, <6>2
        <5> QED BY <5>1, <5>2
      <4> QED BY <3>2, <4>1
    <3> QED BY <3>4, <3>5, <3>6, <3>7
  <2>4. balance[u] + d >= 0
    BY <1>2, <1>5, CommitEffect
  <2>5. Post(u, d)
    BY <2>3, <2>4 DEF Post
  <2>6. CASE q.kind = "reserve"
    <3>1. d = -q.amount
      BY <1>1, <1>8, <2>6 DEF Fresh
    <3>2. reserved' = [reserved EXCEPT ![q.gen] = @ + q.amount]
          /\ refunded' = refunded
      BY <1>4, <1>6, <1>8, <2>6
    <3>3. q.amount \in 1 .. balance[u]
      BY <1>2, <1>4, <2>1, <2>4, <3>1
    <3>4. ReserveFor(q.gen, q.amount)
      BY <2>1, <2>5, <3>1, <3>2 DEF ReserveFor
    <3> QED BY <2>1, <3>3, <3>4 DEF LedgerNext
  <2>7. CASE q.kind = "refund"
    <3>1. d = q.amount
      BY <1>1, <1>8, <2>7 DEF Fresh
    <3>2. refunded' = [refunded EXCEPT ![q.gen] = @ + q.amount]
          /\ reserved' = reserved
      BY <1>4, <1>6, <1>8, <2>7
    <3>3. q.amount <= reserved[q.gen] - refunded[q.gen]
      BY <1>1, <1>8, <2>7 DEF Capped
    <3>4. q.amount \in 1 .. (reserved[q.gen] - refunded[q.gen])
      BY <1>2, <1>4, <2>1, <3>3
    <3>5. RefundFor(q.gen, q.amount)
      BY <2>1, <2>5, <3>1, <3>2, <3>3 DEF RefundFor
    <3> QED BY <2>1, <3>4, <3>5 DEF LedgerNext
  <2> QED BY <1>8, <2>6, <2>7
<1>9. CASE q.kind \in {"set", "add", "take"}
  <2>1. reserved' = reserved /\ refunded' = refunded
    BY <1>4, <1>6, <1>9
  <2>2. \A v \in Users : balance'[v] - balance[v] = posted'[v] - posted[v]
    BY <1>2, <1>4, <1>5
  <2>3. \A v \in Users \ ({u, Referrer[u]} \cap Users) : balance'[v] = balance[v]
    BY <1>1, CommitEffect DEF Progress
  <2>4. Book(u)
    BY <2>1, <2>2, <2>3, CommitEffect DEF Book
  <2> QED BY <1>2, <2>4 DEF LedgerNext
<1> QED BY <1>2, <1>7, <1>8, <1>9 DEF Request

\* Every behaviour of the store is one of the ledger: seen from outside, a
\* posting happens at one moment, whole, with its ledger entry.
THEOREM StoreImplementsLedger == Spec => LedgerSpec
<1>1. Init => LedgerInit
  BY DEF Init
<1>2. IInv /\ [Next]_vars => [LedgerNext]_ledgerVars
  <2> SUFFICES ASSUME IInv, [Next]_vars PROVE [LedgerNext]_ledgerVars
    OBVIOUS
  <2>1. ASSUME NEW t \in Txs, Commit(t) PROVE [LedgerNext]_ledgerVars
    BY <2>1, CommitIsLedgerStep
  <2>2. ASSUME NEW t \in Txs,
               Begin(t) \/ Lock(t) \/ Totals(t) \/ Write(t) \/ Refuse(t)
                 \/ Rollback(t)
        PROVE  UNCHANGED ledgerVars
    BY <2>2 DEF Begin, Lock, Totals, Write, Refuse, Rollback, store
  <2>3. CASE UNCHANGED vars
    BY <2>3 DEF vars, ledgerVars
  <2> QED BY <2>1, <2>2, <2>3 DEF Next, Go
<1> QED BY <1>1, <1>2, Invariance, PTL DEF Spec, LedgerSpec
=============================================================================
