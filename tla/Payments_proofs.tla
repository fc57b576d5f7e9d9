--------------------------- MODULE Payments_proofs ---------------------------
(***************************************************************************)
(* Payments and subscriptions.  Orders are granted once, usage and ledger  *)
(* agree, refunds fit their reserves and subscriptions queue up, for any   *)
(* number of orders, subscriptions, generations and transactions           *)
(* (Subscription); the entries of an order follow its status, and its      *)
(* status follows PaymentOrder, whatever the channel and the administrator *)
(* do (PaymentFlow).                                                       *)
(***************************************************************************)
EXTENDS Subscription, PaymentFlow, TLAPS

\* What a transaction has locked, and what it knows of the rows it locked.
LockedBy(u) ==
  /\ tx[u].pc \in {"lock", "take", "grant"} => tx[u].order \in Orders
  /\ tx[u].pc \in {"take", "grant"} =>
       holder[tx[u].order] = u /\ order[tx[u].order].status = "pending"
  /\ tx[u].pc \in {"find", "spend", "refund", "pay"} =>
       tx[u].gen \in Generations /\ tx[u].amount > 0
  /\ tx[u].pc \in {"spend", "refund", "pay"} => tx[u].base \in Existing
  /\ tx[u].pc \in {"spend", "pay"} =>
       holder[tx[u].base] = u /\ tx[u].used = sub[tx[u].base].used
  /\ tx[u].pc = "spend" => tx[u].used < sub[tx[u].base].total
  /\ tx[u].pc \in {"refund", "pay"} => tx[u].base \in drawn[tx[u].gen]

\* A subscription that was there when the order was locked and still runs is
\* about to be taken, or ends no later than the one that was taken and is
\* about to be upgraded.
QueueBy(u) ==
  /\ tx[u].pc \in {"take", "grant"} => tx[u].known \subseteq Existing
  /\ tx[u].pc = "take" => \A r \in tx[u].known : Runs(r) => r \in tx[u].sees
  /\ tx[u].pc = "grant" =>
       /\ tx[u].base # NoOne =>
            tx[u].base \in Existing /\ sub[tx[u].base].expires > now
       /\ \A r \in tx[u].known : Runs(r) =>
            /\ tx[u].base # NoOne
            /\ sub[r].expires <= sub[tx[u].base].expires
            /\ order[tx[u].order].action = "upgrade" => r \in tx[u].sees

\* Ledger entries name subscriptions that exist.
Books ==
  /\ \A g \in Generations :
       /\ source[g] # NoOne => source[g] \in drawn[g]
       /\ drawn[g] \subseteq Existing
  /\ \A s \in Subs : s \notin Existing => net[s] = 0
  /\ \A s \in Subs : sub[s].known \subseteq Existing

Single(g) == \A r, s \in drawn[g] : r = s

\* A refund that is about to be paid fits as well.
PayFits(u) ==
  tx[u].pc = "pay" /\ Single(tx[u].gen) =>
    tx[u].amount <= reserved[tx[u].gen] - refunded[tx[u].gen]

IInv ==
  /\ TypeOK
  /\ Books
  /\ \A u \in Txs : LockedBy(u) /\ QueueBy(u) /\ PayFits(u)
  /\ OrderGrantsOnce
  /\ UsageMatchesLedger
  /\ RefundsFitReserves
  /\ RunsQueueUp

-----------------------------------------------------------------------------
(* Types.                                                                  *)

LEMMA Constants ==
  /\ SomePackage \in Packages /\ Period \in Nat \ {0}
  /\ NoOne \notin Orders /\ NoOne \notin Subs /\ NoOne \notin Txs
  /\ NoOne \notin Generations /\ Orders \cap Subs = {}
  /\ \A p \in Packages : Amount[p] \in Nat /\ Credits[p] \in Nat
  /\ UpgradeCredits \subseteq Nat
BY SubscriptionAssumption DEF SomePackage

LEMMA IdleTyped == Idle \in Tx
BY Constants DEF Idle, Tx

\* What a step of one transaction makes of the records of all.
LEMMA StepOf ==
  ASSUME tx \in [Txs -> Tx], NEW t \in Txs, NEW r, Step(t, r)
  PROVE  /\ tx'[t] = r
         /\ \A u \in Txs \ {t} : tx'[u] = tx[u]
         /\ r \in Tx => tx' \in [Txs -> Tx]
BY DEF Step

LEMMA UnlockedOf ==
  ASSUME TypeOK, NEW t \in Txs, Unlocked(t)
  PROVE  /\ holder' \in [Orders \cup Subs -> Txs \cup {NoOne}]
         /\ \A row \in Orders \cup Subs :
              /\ holder[row] # t => holder'[row] = holder[row]
              /\ holder[row] = t => holder'[row] = NoOne
BY DEF Unlocked, TypeOK

LEMMA LocksOf ==
  ASSUME TypeOK, NEW t \in Txs, NEW row \in Orders \cup Subs, Locks(t, row)
  PROVE  /\ holder' \in [Orders \cup Subs -> Txs \cup {NoOne}]
         /\ holder'[row] = t
         /\ \A x \in (Orders \cup Subs) \ {row} : holder'[x] = holder[x]
BY DEF Locks, TypeOK

LEMMA EndsOf ==
  ASSUME TypeOK, NEW t \in Txs, Ends(t)
  PROVE  /\ tx' \in [Txs -> Tx]
         /\ tx'[t] = Idle
         /\ \A u \in Txs \ {t} : tx'[u] = tx[u]
         /\ holder' \in [Orders \cup Subs -> Txs \cup {NoOne}]
         /\ \A row \in Orders \cup Subs :
              /\ holder[row] # t => holder'[row] = holder[row]
              /\ holder[row] = t => holder'[row] = NoOne
<1>1. Step(t, Idle) /\ Unlocked(t) /\ tx \in [Txs -> Tx]
  BY DEF Ends, TypeOK
<1> QED BY <1>1, StepOf, UnlockedOf, IdleTyped

LEMMA SubTyped ==
  ASSUME NEW r \in Sub, NEW status \in {"none", "active", "upgraded", "cancelled"},
         NEW used \in Nat
  PROVE  /\ [r EXCEPT !.status = status] \in Sub
         /\ [r EXCEPT !.used = used] \in Sub
BY DEF Sub

LEMMA OrderTyped ==
  ASSUME NEW r \in Order, NEW status \in OrderStatus
  PROVE  [r EXCEPT !.status = status] \in Order
BY DEF Order

LEMMA RowTyped ==
  ASSUME TypeOK, NEW t \in Txs, tx[t].order \in Orders,
         NEW starts \in Nat, NEW expires \in Nat
  PROVE  Row(t, starts, expires) \in Sub
<1>1. order[tx[t].order] \in Order /\ tx[t] \in Tx
  BY DEF TypeOK
<1>2. /\ order[tx[t].order].pkg \in Packages /\ order[tx[t].order].credits \in Nat
      /\ tx[t].known \in SUBSET Subs
  BY <1>1 DEF Order, Tx
<1> QED BY <1>2 DEF Row, Sub

LEMMA ActivatedTyped ==
  ASSUME TypeOK, NEW t \in Txs, tx[t].order \in Orders
  PROVE  Activated(t) \in Sub
<1>1. tx[t] \in Tx /\ now \in Nat
  BY DEF TypeOK
<1>2. CASE tx[t].base = NoOne
  BY <1>1, <1>2, RowTyped, Constants DEF Activated
<1>3. CASE tx[t].base # NoOne
  <2>1. tx[t].base \in Subs
    BY <1>1, <1>3 DEF Tx
  <2>2. sub[tx[t].base] \in Sub
    BY <2>1 DEF TypeOK
  <2>3. sub[tx[t].base].expires \in Nat
    BY <2>2 DEF Sub
  <2> QED BY <1>1, <1>3, <2>3, RowTyped, Constants DEF Activated
<1> QED BY <1>2, <1>3

\* The steps of a transaction that change its record.
LEMMA NewRecord ==
  ASSUME TypeOK, NEW t \in Txs
  PROVE  /\ \A p \in Packages, S \in SUBSET Subs :
              [Idle EXCEPT !.pc = "price", !.pkg = p, !.sees = S] \in Tx
         /\ \A o \in Orders : [Idle EXCEPT !.pc = "lock", !.order = o] \in Tx
         /\ \A g \in Generations, n \in Nat, S \in SUBSET Subs :
              [Idle EXCEPT !.pc = "find", !.gen = g, !.amount = n, !.sees = S] \in Tx
         /\ \A g \in Generations, n \in Nat, s \in Subs :
              [Idle EXCEPT !.pc = "refund", !.gen = g, !.amount = n, !.base = s] \in Tx
<1>1. ASSUME NEW p \in Packages, NEW S \in SUBSET Subs
      PROVE  [Idle EXCEPT !.pc = "price", !.pkg = p, !.sees = S] \in Tx
  BY IdleTyped DEF Tx
<1>2. ASSUME NEW o \in Orders
      PROVE  [Idle EXCEPT !.pc = "lock", !.order = o] \in Tx
  BY IdleTyped DEF Tx
<1>3. ASSUME NEW g \in Generations, NEW n \in Nat, NEW S \in SUBSET Subs
      PROVE  [Idle EXCEPT !.pc = "find", !.gen = g, !.amount = n, !.sees = S] \in Tx
  BY IdleTyped DEF Tx
<1>4. ASSUME NEW g \in Generations, NEW n \in Nat, NEW s \in Subs
      PROVE  [Idle EXCEPT !.pc = "refund", !.gen = g, !.amount = n, !.base = s] \in Tx
  BY IdleTyped DEF Tx
<1> QED BY <1>1, <1>2, <1>3, <1>4

LEMMA NextRecord ==
  ASSUME TypeOK, NEW t \in Txs
  PROVE  /\ \A S \in SUBSET Subs : [tx[t] EXCEPT !.sees = S] \in Tx
         /\ \A K, S \in SUBSET Subs :
              [tx[t] EXCEPT !.pc = "take", !.known = K, !.sees = S] \in Tx
         /\ \A b \in Subs \cup {NoOne}, S \in SUBSET Subs :
              [tx[t] EXCEPT !.pc = "grant", !.base = b, !.sees = S] \in Tx
         /\ \A b \in Subs, n \in Nat, S \in SUBSET Subs :
              [tx[t] EXCEPT !.pc = "spend", !.base = b, !.used = n, !.sees = S] \in Tx
         /\ \A n, a \in Nat :
              [tx[t] EXCEPT !.pc = "pay", !.used = n, !.amount = a] \in Tx
<1>0. tx[t] \in Tx
  BY DEF TypeOK
<1>1. ASSUME NEW S \in SUBSET Subs
      PROVE  [tx[t] EXCEPT !.sees = S] \in Tx
  BY <1>0 DEF Tx
<1>2. ASSUME NEW K \in SUBSET Subs, NEW S \in SUBSET Subs
      PROVE  [tx[t] EXCEPT !.pc = "take", !.known = K, !.sees = S] \in Tx
  BY <1>0 DEF Tx
<1>3. ASSUME NEW b \in Subs \cup {NoOne}, NEW S \in SUBSET Subs
      PROVE  [tx[t] EXCEPT !.pc = "grant", !.base = b, !.sees = S] \in Tx
  BY <1>0 DEF Tx
<1>4. ASSUME NEW b \in Subs, NEW n \in Nat, NEW S \in SUBSET Subs
      PROVE  [tx[t] EXCEPT !.pc = "spend", !.base = b, !.used = n, !.sees = S] \in Tx
  BY <1>0 DEF Tx
<1>5. ASSUME NEW n \in Nat, NEW a \in Nat
      PROVE  [tx[t] EXCEPT !.pc = "pay", !.used = n, !.amount = a] \in Tx
  BY <1>0 DEF Tx
<1> QED BY <1>1, <1>2, <1>3, <1>4, <1>5

\* A step that changes one record of one transaction, and perhaps a lock.
LEMMA StepTypes ==
  ASSUME TypeOK, NEW t \in Txs, NEW r \in Tx, Step(t, r),
         UNCHANGED <<now, order, sub, ledger>>,
         \/ UNCHANGED holder
         \/ \E row \in Orders \cup Subs : Locks(t, row)
  PROVE  TypeOK'
<1>1. tx' \in [Txs -> Tx]
  BY StepOf DEF TypeOK
<1>2. holder' \in [Orders \cup Subs -> Txs \cup {NoOne}]
  <2>1. CASE UNCHANGED holder
    BY <2>1 DEF TypeOK
  <2>2. CASE \E row \in Orders \cup Subs : Locks(t, row)
    BY <2>2, LocksOf
  <2> QED BY <2>1, <2>2
<1> QED BY <1>1, <1>2 DEF TypeOK, ledger

LEMMA BeginTypes ==
  ASSUME TypeOK, NEW t \in Txs, Begin(t)
  PROVE  TypeOK'
<1>1. ASSUME NEW p \in Packages, BeginCreate(t, p)
      PROVE  TypeOK'
  <2> DEFINE r == [Idle EXCEPT !.pc = "price", !.pkg = p,
                               !.sees = {s \in Subs : Current(s)}]
  <2>1. r \in Tx
    BY NewRecord
  <2>2. Step(t, r) /\ UNCHANGED <<now, order, sub, ledger, holder>>
    BY <1>1 DEF BeginCreate
  <2> HIDE DEF r
  <2> QED BY <2>1, <2>2, StepTypes
<1>2. ASSUME NEW o \in Orders, Report(t, o)
      PROVE  TypeOK'
  <2> DEFINE r == [Idle EXCEPT !.pc = "lock", !.order = o]
  <2>1. r \in Tx
    BY NewRecord
  <2>2. Step(t, r) /\ UNCHANGED <<now, order, sub, ledger, holder>>
    BY <1>2 DEF Report
  <2> HIDE DEF r
  <2> QED BY <2>1, <2>2, StepTypes
<1>3. ASSUME NEW g \in Generations, NEW n \in 1 .. MaxReserved, BeginReserve(t, g, n)
      PROVE  TypeOK'
  <2> DEFINE r == [Idle EXCEPT !.pc = "find", !.gen = g, !.amount = n,
                               !.sees = {s \in Subs : Usable(s)}]
  <2>0. n \in Nat
    OBVIOUS
  <2>1. r \in Tx
    BY <2>0, NewRecord
  <2>2. Step(t, r) /\ UNCHANGED <<now, order, sub, ledger, holder>>
    BY <1>3 DEF BeginReserve
  <2> HIDE DEF r
  <2> QED BY <2>1, <2>2, StepTypes
<1>4. ASSUME NEW g \in Generations, NEW n \in 1 .. MaxReserved, BeginRefund(t, g, n)
      PROVE  TypeOK'
  <2> DEFINE r == [Idle EXCEPT !.pc = "refund", !.gen = g, !.amount = n,
                               !.base = source[g]]
  <2>0. n \in Nat
    OBVIOUS
  <2>1. source[g] \in Subs
    BY <1>4 DEF BeginRefund, TypeOK
  <2>2. r \in Tx
    BY <2>0, <2>1, NewRecord
  <2>3. Step(t, r) /\ UNCHANGED <<now, order, sub, ledger, holder>>
    BY <1>4 DEF BeginRefund
  <2> HIDE DEF r
  <2> QED BY <2>2, <2>3, StepTypes
<1> QED BY <1>1, <1>2, <1>3, <1>4 DEF Begin

LEMMA AbortTypes ==
  ASSUME TypeOK, NEW t \in Txs, Abort(t)
  PROVE  TypeOK'
<1>1. Ends(t) /\ UNCHANGED <<now, order, sub, ledger>>
  BY DEF Abort
<1>2. tx' \in [Txs -> Tx] /\ holder' \in [Orders \cup Subs -> Txs \cup {NoOne}]
  BY <1>1, EndsOf
<1> QED BY <1>1, <1>2 DEF TypeOK, ledger

LEMMA InsertedTypes ==
  ASSUME TypeOK, NEW t \in Txs, NEW action \in {"new", "renewal", "upgrade"},
         NEW credits \in Nat, Inserted(t, action, credits),
         UNCHANGED <<now, sub, ledger, holder>>
  PROVE  TypeOK'
<1>1. PICK o \in Orders :
        order' = [order EXCEPT ![o] = [status |-> "pending", action |-> action,
                                       pkg |-> tx[t].pkg, credits |-> credits]]
  BY DEF Inserted
<1>2. tx[t].pkg \in Packages
  BY DEF TypeOK, Tx
<1>3. [status |-> "pending", action |-> action,
       pkg |-> tx[t].pkg, credits |-> credits] \in Order
  BY <1>2 DEF Order, OrderStatus
<1>4. order' \in [Orders -> Order]
  BY <1>1, <1>3 DEF TypeOK
<1>5. tx' \in [Txs -> Tx]
  BY StepOf, IdleTyped DEF Inserted, TypeOK
<1> QED BY <1>4, <1>5 DEF TypeOK, ledger

LEMMA PriceTypes ==
  ASSUME TypeOK, NEW t \in Txs, Price(t)
  PROVE  TypeOK'
<1> DEFINE p == tx[t].pkg
<1>1. p \in Packages /\ tx[t] \in Tx
  BY DEF TypeOK, Tx
<1>2. Credits[p] \in Nat /\ \A c \in UpgradeCredits : c \in Nat
  BY <1>1, Constants
<1>3. UNCHANGED <<now, sub, ledger, holder>>
  BY DEF Price
<1>4. \/ \E action \in {"new", "renewal"} : Inserted(t, action, Credits[p])
      \/ \E c \in UpgradeCredits : Inserted(t, "upgrade", c)
      \/ \E s \in Subs : Step(t, [tx[t] EXCEPT !.sees = @ \ {s}]) /\ UNCHANGED order
  BY <1>1 DEF Price, Tx
<1>5. CASE \E s \in Subs : Step(t, [tx[t] EXCEPT !.sees = @ \ {s}]) /\ UNCHANGED order
  <2>1. PICK s \in Subs : Step(t, [tx[t] EXCEPT !.sees = tx[t].sees \ {s}])
    BY <1>5
  <2>2. [tx[t] EXCEPT !.sees = tx[t].sees \ {s}] \in Tx
    BY <1>1, NextRecord DEF Tx
  <2> QED BY <1>3, <1>5, <2>1, <2>2, StepTypes DEF ledger
<1> HIDE DEF p
<1>6. CASE \E action \in {"new", "renewal"} : Inserted(t, action, Credits[p])
  BY <1>2, <1>3, <1>6, InsertedTypes
<1>7. CASE \E c \in UpgradeCredits : Inserted(t, "upgrade", c)
  BY <1>2, <1>3, <1>7, InsertedTypes
<1> QED BY <1>4, <1>5, <1>6, <1>7

LEMMA LockOrderTypes ==
  ASSUME TypeOK, NEW t \in Txs, tx[t].order \in Orders, LockOrder(t)
  PROVE  TypeOK'
<1>1. CASE Payable(t) /\ Locks(t, tx[t].order)
  <2> DEFINE r == [tx[t] EXCEPT !.pc = "take", !.known = Existing,
                                !.sees = {s \in Subs : Runs(s)}]
  <2>1. r \in Tx
    BY NextRecord DEF Existing
  <2>2. Step(t, r)
    BY <1>1 DEF Payable
  <2> HIDE DEF r
  <2> QED BY <1>1, <2>1, <2>2, StepTypes DEF LockOrder
<1>2. CASE NotPayable(t) /\ UNCHANGED holder
  BY <1>2, IdleTyped, StepTypes DEF LockOrder, NotPayable
<1> QED BY <1>1, <1>2 DEF LockOrder

LEMMA TakeLatestTypes ==
  ASSUME TypeOK, NEW t \in Txs, TakeLatest(t)
  PROVE  TypeOK'
<1> DEFINE S == IF order[tx[t].order].action = "upgrade"
                THEN {r \in Subs : Runs(r)} ELSE {}
           found(s) == [tx[t] EXCEPT !.pc = "grant", !.base = s, !.sees = S]
<1>0. tx[t] \in Tx /\ tx[t].sees \subseteq Subs
  BY DEF TypeOK, Tx
<1>1. \A s \in Subs \cup {NoOne} : found(s) \in Tx
  BY NextRecord
<1>2. UNCHANGED <<now, order, sub, ledger>>
  BY DEF TakeLatest
<1>3. \/ Step(t, found(NoOne)) /\ UNCHANGED holder
      \/ \E s \in Subs : Locks(t, s) /\ Step(t, found(s))
      \/ \E s \in Subs : /\ Step(t, [tx[t] EXCEPT !.sees = tx[t].sees \ {s}])
                         /\ UNCHANGED holder
  BY <1>0 DEF TakeLatest
<1>4. \A s \in Subs : [tx[t] EXCEPT !.sees = tx[t].sees \ {s}] \in Tx
  BY <1>0, NextRecord
<1> HIDE DEF found
<1> QED BY <1>1, <1>2, <1>3, <1>4, StepTypes

LEMMA FindTypes ==
  ASSUME TypeOK, NEW t \in Txs, Find(t)
  PROVE  TypeOK'
<1>0. tx[t] \in Tx /\ tx[t].sees \subseteq Subs
  BY DEF TypeOK, Tx
<1>1. UNCHANGED <<now, order, sub, ledger>>
  BY DEF Find
<1>2. \/ Step(t, Idle) /\ UNCHANGED holder
      \/ \E s \in Subs : Locks(t, s) /\ Found(t, s)
      \/ \E s \in Subs : Missed(t, s) /\ UNCHANGED holder
  BY <1>0 DEF Find
<1>3. ASSUME NEW s \in Subs, Locks(t, s), Found(t, s)
      PROVE  TypeOK'
  <2> DEFINE r == [tx[t] EXCEPT !.pc = "spend", !.base = s, !.used = sub[s].used,
                                !.sees = {}]
  <2>1. sub[s].used \in Nat
    BY DEF TypeOK, Sub
  <2>2. r \in Tx
    BY <2>1, NextRecord
  <2>3. Step(t, r)
    BY <1>3 DEF Found
  <2> HIDE DEF r
  <2> QED BY <1>1, <1>3, <2>2, <2>3, StepTypes
<1>4. ASSUME NEW s \in Subs, Missed(t, s), UNCHANGED holder
      PROVE  TypeOK'
  <2>1. [tx[t] EXCEPT !.sees = tx[t].sees \ {s}] \in Tx
    BY <1>0, NextRecord
  <2> QED BY <1>1, <1>4, <2>1, StepTypes DEF Missed
<1> QED BY <1>1, <1>2, <1>3, <1>4, IdleTyped, StepTypes

LEMMA LockRefundTypes ==
  ASSUME TypeOK, NEW t \in Txs, LockRefund(t), tx[t].base \in Subs,
         tx[t].gen \in Generations
  PROVE  TypeOK'
<1>1. UNCHANGED <<now, order, sub, ledger>>
  BY DEF LockRefund
<1>2. CASE Capped(t) > 0 /\ Locks(t, tx[t].base)
           /\ Step(t, [tx[t] EXCEPT !.pc = "pay", !.used = sub[tx[t].base].used,
                                    !.amount = Capped(t)])
  <2> DEFINE r == [tx[t] EXCEPT !.pc = "pay", !.used = sub[tx[t].base].used,
                                !.amount = Capped(t)]
  <2>1. sub[tx[t].base].used \in Nat
    BY DEF TypeOK, Sub
  <2>2. /\ tx[t].amount \in Nat /\ reserved[tx[t].gen] \in Nat
        /\ refunded[tx[t].gen] \in Nat
    BY DEF TypeOK, Tx
  <2>3. Capped(t) \in Nat
    BY <2>2, <1>2 DEF Capped, Least
  <2>4. r \in Tx
    BY <2>1, <2>3, NextRecord
  <2>5. Step(t, r)
    BY <1>2
  <2> HIDE DEF r
  <2> QED BY <1>1, <1>2, <2>4, <2>5, StepTypes
<1>3. CASE Step(t, Idle) /\ UNCHANGED holder
  BY <1>1, <1>3, IdleTyped, StepTypes
<1> QED BY <1>2, <1>3 DEF LockRefund

LEMMA GrantTypes ==
  ASSUME TypeOK, NEW t \in Txs, Grant(t), tx[t].order \in Orders
  PROVE  TypeOK'
<1>1. PICK new \in Subs \ Existing :
        sub' = [s \in Subs |->
                 IF s = new THEN Activated(t)
                 ELSE IF s \in tx[t].sees /\ Runs(s)
                      THEN [sub[s] EXCEPT !.status = "upgraded"]
                 ELSE sub[s]]
  BY DEF Grant
<1>2. \A s \in Subs : sub[s] \in Sub /\ [sub[s] EXCEPT !.status = "upgraded"] \in Sub
  BY SubTyped DEF TypeOK
<1>3. sub' \in [Subs -> Sub]
  BY <1>1, <1>2, ActivatedTyped
<1>4. order[tx[t].order] \in Order
  BY DEF TypeOK
<1>5. [order[tx[t].order] EXCEPT !.status = "completed"] \in Order
  BY <1>4, OrderTyped DEF OrderStatus
<1>6. order' \in [Orders -> Order]
  BY <1>5 DEF Grant, SetStatus, TypeOK
<1>7. tx' \in [Txs -> Tx] /\ holder' \in [Orders \cup Subs -> Txs \cup {NoOne}]
  BY EndsOf DEF Grant
<1> QED BY <1>3, <1>6, <1>7 DEF TypeOK, Grant, ledger

\* What is taken of a subscription is positive, and no more than it has left.
LEMMA SpendTakes ==
  ASSUME TypeOK, NEW t \in Txs, LockedBy(t), tx[t].pc = "spend"
  PROVE  LET n == Least(tx[t].amount, sub[tx[t].base].total - tx[t].used)
         IN  /\ n \in Nat /\ n > 0
             /\ tx[t].used + n \in Nat /\ tx[t].used + n <= sub[tx[t].base].total
             /\ tx[t].base \in Subs /\ tx[t].gen \in Generations
<1>1. tx[t].base \in Subs /\ tx[t].gen \in Generations
  BY DEF LockedBy, Existing
<1>2. sub[tx[t].base].total \in Nat /\ tx[t].used \in Nat /\ tx[t].amount \in Nat
  BY <1>1 DEF TypeOK, Sub, Tx
<1>3. tx[t].amount > 0 /\ tx[t].used < sub[tx[t].base].total
  BY DEF LockedBy
<1> QED BY <1>1, <1>2, <1>3 DEF Least

\* What comes back is no more than the subscription has used.
LEMMA RefundGives ==
  ASSUME TypeOK, NEW t \in Txs, LockedBy(t), tx[t].pc = "pay"
  PROVE  /\ Back(t) \in Nat /\ Back(t) <= tx[t].amount /\ tx[t].used - Back(t) \in Nat
         /\ tx[t].base \in Subs /\ tx[t].gen \in Generations
<1>1. tx[t].base \in Subs /\ tx[t].gen \in Generations
  BY DEF LockedBy, Existing
<1>2. tx[t].used \in Nat /\ tx[t].amount \in Nat
  BY DEF TypeOK, Tx
<1> QED BY <1>1, <1>2 DEF Back, Least

LEMMA SpendTypes ==
  ASSUME TypeOK, NEW t \in Txs, LockedBy(t), Spend(t)
  PROVE  TypeOK'
<1> DEFINE s == tx[t].base
           g == tx[t].gen
           n == Least(tx[t].amount, sub[s].total - tx[t].used)
<1>1. n \in Nat /\ tx[t].used + n \in Nat /\ s \in Subs /\ g \in Generations
  BY SpendTakes DEF Spend, At
<1>2. /\ sub' = [sub EXCEPT ![s].used = tx[t].used + n]
      /\ reserved' = [reserved EXCEPT ![g] = @ + n]
      /\ net' = [net EXCEPT ![s] = @ + n]
      /\ source' = [source EXCEPT ![g] = s]
      /\ drawn' = [drawn EXCEPT ![g] = @ \cup {s}]
      /\ Ends(t)
      /\ UNCHANGED <<now, order, refunded>>
  BY DEF Spend
<1>3. tx' \in [Txs -> Tx] /\ holder' \in [Orders \cup Subs -> Txs \cup {NoOne}]
  BY <1>2, EndsOf
<1> HIDE DEF n, s, g
<1>4. [sub[s] EXCEPT !.used = tx[t].used + n] \in Sub
  BY <1>1, SubTyped DEF TypeOK
<1>5. sub' \in [Subs -> Sub]
  BY <1>1, <1>2, <1>4 DEF TypeOK
<1>6. reserved' \in [Generations -> Nat]
  BY <1>1, <1>2 DEF TypeOK
<1>7. net' \in [Subs -> Int]
  BY <1>1, <1>2 DEF TypeOK
<1>8. source' \in [Generations -> Subs \cup {NoOne}] /\ drawn' \in [Generations -> SUBSET Subs]
  BY <1>1, <1>2 DEF TypeOK
<1> QED BY <1>2, <1>3, <1>5, <1>6, <1>7, <1>8 DEF TypeOK

LEMMA RefundTypes ==
  ASSUME TypeOK, NEW t \in Txs, LockedBy(t), Refund(t)
  PROVE  TypeOK'
<1> DEFINE s == tx[t].base
           g == tx[t].gen
           n == Back(t)
<1>1. n \in Nat /\ tx[t].used - n \in Nat /\ s \in Subs /\ g \in Generations
  BY RefundGives DEF Refund, At
<1>2. /\ sub' = [sub EXCEPT ![s].used = tx[t].used - n]
      /\ refunded' = [refunded EXCEPT ![g] = @ + n]
      /\ net' = [net EXCEPT ![s] = @ - n]
      /\ Ends(t)
      /\ UNCHANGED <<now, order, reserved, source, drawn>>
  BY DEF Refund
<1>3. tx' \in [Txs -> Tx] /\ holder' \in [Orders \cup Subs -> Txs \cup {NoOne}]
  BY <1>2, EndsOf
<1> HIDE DEF n, s, g
<1>4. [sub[s] EXCEPT !.used = tx[t].used - n] \in Sub
  BY <1>1, SubTyped DEF TypeOK
<1>5. sub' \in [Subs -> Sub]
  BY <1>1, <1>2, <1>4 DEF TypeOK
<1>6. refunded' \in [Generations -> Nat]
  BY <1>1, <1>2 DEF TypeOK
<1>7. net' \in [Subs -> Int]
  BY <1>1, <1>2 DEF TypeOK
<1> QED BY <1>2, <1>3, <1>5, <1>6, <1>7 DEF TypeOK

LEMMA StatusTypes ==
  ASSUME TypeOK, NEW o \in Orders, NEW status \in OrderStatus, SetStatus(o, status)
  PROVE  order' \in [Orders -> Order]
<1>1. [order[o] EXCEPT !.status = status] \in Order
  BY OrderTyped DEF TypeOK
<1> QED BY <1>1 DEF SetStatus, TypeOK

LEMMA OrderStepTypes ==
  ASSUME TypeOK, NEW o \in Orders, Fail(o) \/ CancelOrder(o) \/ RefundOrder(o)
  PROVE  TypeOK'
<1>1. order' \in [Orders -> Order]
  BY StatusTypes DEF Fail, CancelOrder, RefundOrder, OrderStatus
<1>2. \A s \in Subs : sub[s] \in Sub /\ Cancelled(s) \in Sub
  BY SubTyped DEF TypeOK, Cancelled
<1>3. sub' \in [Subs -> Sub]
  BY <1>2 DEF Fail, CancelOrder, RefundOrder, TypeOK
<1>4. UNCHANGED <<now, ledger, holder, tx>>
  BY DEF Fail, CancelOrder, RefundOrder
<1> QED BY <1>1, <1>3, <1>4 DEF TypeOK, ledger

LEMMA GoTypes ==
  ASSUME TypeOK, NEW t \in Txs, LockedBy(t), Go(t)
  PROVE  TypeOK'
<1>1. CASE LockOrder(t)
  BY <1>1, LockOrderTypes DEF LockedBy, LockOrder, At
<1>2. CASE Grant(t)
  BY <1>2, GrantTypes DEF LockedBy, Grant, At
<1>3. CASE LockRefund(t)
  BY <1>3, LockRefundTypes DEF LockedBy, LockRefund, At, Existing
<1> QED BY <1>1, <1>2, <1>3, PriceTypes, TakeLatestTypes, FindTypes,
     SpendTypes, RefundTypes DEF Go

LEMMA NextTypes ==
  ASSUME TypeOK, \A t \in Txs : LockedBy(t), [Next]_vars
  PROVE  TypeOK'
<1>1. CASE UNCHANGED vars
  BY <1>1 DEF TypeOK, vars, ledger
<1>2. CASE Tick
  BY <1>2 DEF TypeOK, Tick, ledger
<1> QED BY <1>1, <1>2, OrderStepTypes, BeginTypes, GoTypes, AbortTypes DEF Next

-----------------------------------------------------------------------------
(* What a step leaves to the transactions that do not take it.             *)

\* Others keep their records, their locks and the rows they have locked.
Respects(w) ==
  \A u \in Txs \ {w} :
    /\ tx'[u] = tx[u]
    /\ \A o \in Orders : holder[o] = u /\ order[o].status = "pending" =>
         holder'[o] = u /\ order'[o] = order[o]
    /\ \A s \in Existing : holder[s] = u =>
         holder'[s] = u /\ sub'[s].used = sub[s].used

\* Subscriptions keep their dates and do not come back to life.
Lasting ==
  /\ \A s \in Existing :
       /\ sub'[s].status # "none"
       /\ sub'[s].status = "active" => sub[s].status = "active"
       /\ sub[s].status = "cancelled" => sub'[s].status = "cancelled"
       /\ sub'[s].order = sub[s].order
       /\ sub'[s].starts = sub[s].starts
       /\ sub'[s].expires = sub[s].expires
       /\ sub'[s].total = sub[s].total
       /\ sub'[s].known = sub[s].known
  /\ \A g \in Generations : drawn[g] \subseteq drawn'[g]

LEMMA Existence ==
  ASSUME Lasting
  PROVE  Existing \subseteq Existing'
BY DEF Lasting, Existing

LEMMA OthersLocked ==
  ASSUME TypeOK, NEW w, NEW u \in Txs \ {w}, LockedBy(u), Respects(w), Lasting
  PROVE  LockedBy(u)'
<1>1. tx'[u] = tx[u]
  BY DEF Respects
<1>2. tx[u].pc \in {"take", "grant"} =>
        holder'[tx[u].order] = u /\ order'[tx[u].order] = order[tx[u].order]
  BY DEF LockedBy, Respects
<1>3. tx[u].pc \in {"spend", "refund", "pay"} => tx[u].base \in Existing
  BY DEF LockedBy
<1>4. tx[u].pc \in {"spend", "pay"} =>
        /\ holder'[tx[u].base] = u
        /\ sub'[tx[u].base].used = sub[tx[u].base].used
        /\ sub'[tx[u].base].total = sub[tx[u].base].total
  BY <1>3 DEF LockedBy, Respects, Lasting
<1>5. tx[u].pc \in {"refund", "pay"} => tx[u].base \in drawn'[tx[u].gen]
  BY DEF LockedBy, Lasting
<1> QED BY <1>1, <1>2, <1>3, <1>4, <1>5, Existence DEF LockedBy

LEMMA OthersQueue ==
  ASSUME TypeOK, NEW w, NEW u \in Txs \ {w}, LockedBy(u), QueueBy(u),
         Respects(w), Lasting, tx[u].pc \in {"take", "grant"} => now' = now
  PROVE  QueueBy(u)'
<1>1. tx'[u] = tx[u]
  BY DEF Respects
<1>2. tx[u].pc = "grant" => order'[tx[u].order] = order[tx[u].order]
  BY DEF LockedBy, Respects
<1>3. \A s \in Existing : now' = now /\ Runs(s)' => Runs(s)
  BY DEF Lasting, Runs
<1>4. \A s \in Existing : sub'[s].expires = sub[s].expires
  BY DEF Lasting
<1>5. tx[u].pc \in {"take", "grant"} =>
        tx[u].known \subseteq Existing /\ now' = now
  BY DEF QueueBy
<1>6. tx[u].pc \in {"take", "grant"} => tx[u].known \subseteq Existing'
  BY <1>5, Existence
<1>7. tx[u].pc = "take" => \A r \in tx[u].known : Runs(r)' => r \in tx[u].sees
  BY <1>3, <1>5 DEF QueueBy
<1>8. CASE tx[u].pc = "grant"
  <2>1. tx[u].base # NoOne =>
          /\ tx[u].base \in Existing /\ tx[u].base \in Existing'
          /\ sub'[tx[u].base].expires = sub[tx[u].base].expires
          /\ sub[tx[u].base].expires > now
    BY <1>4, <1>8, Existence DEF QueueBy
  <2>2. ASSUME NEW r \in tx[u].known, Runs(r)'
        PROVE  /\ tx[u].base # NoOne
               /\ sub'[r].expires <= sub'[tx[u].base].expires
               /\ order'[tx[u].order].action = "upgrade" => r \in tx[u].sees
    <3>1. r \in Existing /\ Runs(r)
      BY <1>3, <1>5, <1>8, <2>2
    <3>2. sub'[r].expires = sub[r].expires
      BY <1>4, <3>1
    <3> QED BY <1>2, <1>8, <2>1, <3>1, <3>2 DEF QueueBy
  <2> QED BY <1>1, <1>5, <1>6, <1>8, <2>1, <2>2 DEF QueueBy
<1>9. CASE tx[u].pc # "grant"
  BY <1>1, <1>6, <1>7, <1>9 DEF QueueBy
<1> QED BY <1>8, <1>9

\* What IInv says of rows and ledger alone.
Rest == Books /\ OrderGrantsOnce /\ UsageMatchesLedger /\ RefundsFitReserves /\ RunsQueueUp

LEMMA RestSame ==
  ASSUME Rest, UNCHANGED <<order, sub, ledger>>
  PROVE  Rest'
<1>1. Existing' = Existing
  BY DEF Existing
<1>2. \A o : Granted(o)' = Granted(o)
  BY <1>1 DEF Granted
<1>3. Books'
  BY <1>1 DEF Rest, Books, ledger
<1>4. OrderGrantsOnce'
  BY <1>2 DEF Rest, OrderGrantsOnce
<1>5. UsageMatchesLedger' /\ RefundsFitReserves' /\ RunsQueueUp'
  BY DEF Rest, UsageMatchesLedger, RefundsFitReserves, RunsQueueUp, ledger
<1> QED BY <1>3, <1>4, <1>5 DEF Rest

LEMMA PayFitsSame ==
  ASSUME NEW u \in Txs, PayFits(u), tx'[u] = tx[u], UNCHANGED ledger
  PROVE  PayFits(u)'
BY DEF PayFits, Single, ledger

\* A step of t that writes nothing: it begins, locks, reads or ends.
Quiet(t) ==
  /\ UNCHANGED <<order, sub, ledger>> /\ now' = now
  /\ \A u \in Txs \ {t} : tx'[u] = tx[u]
  /\ \A u \in Txs \ {t}, row \in Orders \cup Subs : holder[row] = u => holder'[row] = u

LEMMA QuietStep ==
  ASSUME IInv, NEW t \in Txs, Quiet(t), TypeOK',
         LockedBy(t)' /\ QueueBy(t)' /\ PayFits(t)'
  PROVE  IInv'
<1>1. Respects(t)
  BY DEF Quiet, Respects, Existing
<1>2. Lasting
  BY DEF Quiet, Lasting, ledger, Existing
<1>3. \A u \in Txs \ {t} : LockedBy(u)' /\ QueueBy(u)'
  BY <1>1, <1>2, OthersLocked, OthersQueue DEF IInv, Quiet
<1>4. \A u \in Txs \ {t} : PayFits(u)'
  BY PayFitsSame DEF IInv, Quiet
<1>5. Rest'
  BY RestSame DEF IInv, Rest, Quiet
<1> QED BY <1>3, <1>4, <1>5 DEF IInv, Rest

LEMMA QuietBy ==
  ASSUME TypeOK, NEW t \in Txs, NEW r, Step(t, r), UNCHANGED <<order, sub, ledger>>,
         now' = now,
         \/ UNCHANGED holder
         \/ \E row \in Orders \cup Subs : Free(row) /\ Locks(t, row)
         \/ Unlocked(t)
  PROVE  Quiet(t) /\ tx'[t] = r
<1>1. tx'[t] = r /\ \A u \in Txs \ {t} : tx'[u] = tx[u]
  BY StepOf DEF TypeOK
<1>2. ASSUME NEW u \in Txs \ {t}, NEW row \in Orders \cup Subs, holder[row] = u
      PROVE  holder'[row] = u
  <2>1. CASE UNCHANGED holder
    BY <1>2, <2>1
  <2>2. CASE \E x \in Orders \cup Subs : Free(x) /\ Locks(t, x)
    BY <1>2, <2>2, LocksOf, Constants DEF Free
  <2>3. CASE Unlocked(t)
    BY <1>2, <2>3, UnlockedOf
  <2> QED BY <2>1, <2>2, <2>3
<1> QED BY <1>1, <1>2 DEF Quiet

-----------------------------------------------------------------------------
(* Steps that write no row.                                                *)

\* A transaction that is idle, or seeks a price, knows nothing.
LEMMA KnowsNothing ==
  ASSUME NEW t \in Txs, tx[t].pc \in {"idle", "price"}
  PROVE  LockedBy(t) /\ QueueBy(t) /\ PayFits(t)
BY DEF LockedBy, QueueBy, PayFits

LEMMA IdleQuiet ==
  ASSUME IInv, NEW t \in Txs, TypeOK', Step(t, Idle), UNCHANGED <<order, sub, ledger>>,
         now' = now, UNCHANGED holder \/ Unlocked(t)
  PROVE  IInv'
<1>1. Quiet(t) /\ tx'[t] = Idle
  BY QuietBy DEF IInv
<1>2. (tx[t].pc = "idle")'
  BY <1>1 DEF Idle
<1>3. LockedBy(t)' /\ QueueBy(t)' /\ PayFits(t)'
  BY <1>2 DEF LockedBy, QueueBy, PayFits
<1> QED BY <1>1, <1>3, QuietStep

LEMMA BeginInv ==
  ASSUME IInv, NEW t \in Txs, Begin(t)
  PROVE  IInv'
<1>0. TypeOK /\ TypeOK' /\ Books
  BY BeginTypes DEF IInv
<1>1. ASSUME NEW p \in Packages, BeginCreate(t, p)
      PROVE  IInv'
  <2> DEFINE r == [Idle EXCEPT !.pc = "price", !.pkg = p,
                               !.sees = {s \in Subs : Current(s)}]
  <2>a. r.pc = "price"
    BY DEF Idle
  <2>b. Step(t, r) /\ UNCHANGED <<order, sub, ledger>> /\ now' = now /\ UNCHANGED holder
    BY <1>1 DEF BeginCreate
  <2> HIDE DEF r
  <2>1. Quiet(t) /\ tx'[t].pc = "price"
    BY <1>0, <2>a, <2>b, QuietBy
  <2>2. LockedBy(t)' /\ QueueBy(t)' /\ PayFits(t)'
    BY <2>1 DEF LockedBy, QueueBy, PayFits
  <2> QED BY <1>0, <2>1, <2>2, QuietStep
<1>2. ASSUME NEW o \in Orders, Report(t, o)
      PROVE  IInv'
  <2> DEFINE r == [Idle EXCEPT !.pc = "lock", !.order = o]
  <2>a. r.pc = "lock" /\ r.order = o
    BY DEF Idle
  <2>b. Step(t, r) /\ UNCHANGED <<order, sub, ledger>> /\ now' = now /\ UNCHANGED holder
    BY <1>2 DEF Report
  <2> HIDE DEF r
  <2>1. Quiet(t) /\ tx'[t].pc = "lock" /\ tx'[t].order = o
    BY <1>0, <2>a, <2>b, QuietBy
  <2>2. LockedBy(t)' /\ QueueBy(t)' /\ PayFits(t)'
    BY <2>1 DEF LockedBy, QueueBy, PayFits
  <2> QED BY <1>0, <2>1, <2>2, QuietStep
<1>3. ASSUME NEW g \in Generations, NEW n \in 1 .. MaxReserved, BeginReserve(t, g, n)
      PROVE  IInv'
  <2> DEFINE r == [Idle EXCEPT !.pc = "find", !.gen = g, !.amount = n,
                               !.sees = {s \in Subs : Usable(s)}]
  <2>a. r.pc = "find" /\ r.gen = g /\ r.amount = n
    BY DEF Idle
  <2>b. Step(t, r) /\ UNCHANGED <<order, sub, ledger>> /\ now' = now /\ UNCHANGED holder
    BY <1>3 DEF BeginReserve
  <2> HIDE DEF r
  <2>1. Quiet(t) /\ tx'[t].pc = "find" /\ tx'[t].gen = g /\ tx'[t].amount = n
    BY <1>0, <2>a, <2>b, QuietBy
  <2>2. LockedBy(t)' /\ QueueBy(t)' /\ PayFits(t)'
    BY <2>1 DEF LockedBy, QueueBy, PayFits
  <2> QED BY <1>0, <2>1, <2>2, QuietStep
<1>4. ASSUME NEW g \in Generations, NEW n \in 1 .. MaxReserved, BeginRefund(t, g, n)
      PROVE  IInv'
  <2> DEFINE r == [Idle EXCEPT !.pc = "refund", !.gen = g, !.amount = n,
                               !.base = source[g]]
  <2>a. r.pc = "refund" /\ r.gen = g /\ r.amount = n /\ r.base = source[g]
    BY DEF Idle
  <2>b. Step(t, r) /\ UNCHANGED <<order, sub, ledger>> /\ now' = now /\ UNCHANGED holder
    BY <1>4 DEF BeginRefund
  <2> HIDE DEF r
  <2>1. /\ Quiet(t)
        /\ tx'[t].pc = "refund" /\ tx'[t].gen = g /\ tx'[t].amount = n
        /\ tx'[t].base = source[g]
    BY <1>0, <2>a, <2>b, QuietBy
  <2>2. source[g] \in drawn[g] /\ source[g] \in Existing
    BY <1>0, <1>4 DEF BeginRefund, Books
  <2>3. drawn' = drawn /\ Existing' = Existing
    BY <2>1 DEF Quiet, ledger, Existing
  <2>4. LockedBy(t)' /\ QueueBy(t)' /\ PayFits(t)'
    BY <2>1, <2>2, <2>3 DEF LockedBy, QueueBy, PayFits
  <2> QED BY <1>0, <2>1, <2>4, QuietStep
<1> QED BY <1>1, <1>2, <1>3, <1>4 DEF Begin

LEMMA AbortInv ==
  ASSUME IInv, NEW t \in Txs, Abort(t)
  PROVE  IInv'
BY AbortTypes, IdleQuiet DEF Abort, Ends, IInv

LEMMA LockOrderInv ==
  ASSUME IInv, NEW t \in Txs, LockOrder(t)
  PROVE  IInv'
<1>0. TypeOK /\ LockedBy(t)
  BY DEF IInv
<1>1. tx[t].order \in Orders
  BY <1>0 DEF LockOrder, At, LockedBy
<1>2. TypeOK'
  BY <1>0, <1>1, LockOrderTypes
<1>3. CASE Payable(t) /\ Locks(t, tx[t].order)
  <2> DEFINE r == [tx[t] EXCEPT !.pc = "take", !.known = Existing,
                                !.sees = {s \in Subs : Runs(s)}]
  <2>1. Step(t, r) /\ order[tx[t].order].status = "pending"
    BY <1>3 DEF Payable
  <2>2. /\ r.pc = "take" /\ r.known = Existing /\ r.sees = {s \in Subs : Runs(s)}
        /\ r.order = tx[t].order
    BY <1>0 DEF TypeOK, Tx
  <2>3. UNCHANGED <<order, sub, ledger>> /\ now' = now /\ Free(tx[t].order)
    BY DEF LockOrder
  <2> HIDE DEF r
  <2>4. Quiet(t) /\ tx'[t] = r
    BY <1>0, <1>1, <1>3, <2>1, <2>3, QuietBy
  <2>5. holder'[tx[t].order] = t
    BY <1>0, <1>1, <1>3, LocksOf
  <2>6. Existing' = Existing /\ \A s \in Subs : Runs(s)' <=> Runs(s)
    BY <2>3 DEF Existing, Runs
  <2>7. Existing \subseteq Subs
    BY DEF Existing
  <2>8. LockedBy(t)'
    BY <1>1, <2>1, <2>2, <2>3, <2>4, <2>5 DEF LockedBy
  <2>9. QueueBy(t)'
    BY <2>2, <2>4, <2>6, <2>7 DEF QueueBy
  <2>10. PayFits(t)'
    BY <2>2, <2>4 DEF PayFits
  <2> QED BY <1>2, <2>4, <2>8, <2>9, <2>10, QuietStep
<1>4. CASE NotPayable(t) /\ UNCHANGED holder
  BY <1>2, <1>4, IdleQuiet DEF NotPayable, LockOrder
<1> QED BY <1>3, <1>4 DEF LockOrder

\* A row seen that no longer runs, or no longer can be used, is passed over.
LEMMA TakeLatestInv ==
  ASSUME IInv, NEW t \in Txs, TakeLatest(t)
  PROVE  IInv'
<1> DEFINE o == order[tx[t].order]
           S == IF o.action = "upgrade" THEN {r \in Subs : Runs(r)} ELSE {}
           found(s) == [tx[t] EXCEPT !.pc = "grant", !.base = s, !.sees = S]
           less(s) == [tx[t] EXCEPT !.sees = tx[t].sees \ {s}]
<1>0. TypeOK /\ TypeOK' /\ LockedBy(t) /\ QueueBy(t) /\ tx[t].pc = "take"
  BY TakeLatestTypes DEF IInv, TakeLatest, At
<1>1. UNCHANGED <<order, sub, ledger>> /\ now' = now
  BY DEF TakeLatest
<1>2. /\ tx[t].order \in Orders /\ holder[tx[t].order] = t
      /\ order[tx[t].order].status = "pending"
      /\ tx[t].known \subseteq Existing
      /\ \A r \in tx[t].known : Runs(r) => r \in tx[t].sees
      /\ tx[t].sees \subseteq Subs /\ tx[t].known \subseteq Subs
  BY <1>0 DEF LockedBy, QueueBy, TypeOK, Tx
<1>3. Existing' = Existing /\ \A s \in Subs : Runs(s)' <=> Runs(s)
  BY <1>1 DEF Existing, Runs
<1>4. /\ \A s : found(s).pc = "grant" /\ found(s).base = s /\ found(s).sees = S
      /\ \A s : found(s).order = tx[t].order /\ found(s).known = tx[t].known
      /\ \A s : less(s).pc = "take" /\ less(s).sees = tx[t].sees \ {s}
      /\ \A s : less(s).order = tx[t].order /\ less(s).known = tx[t].known
  BY <1>0 DEF TypeOK, Tx
<1>5. \/ tx[t].sees = {} /\ Step(t, found(NoOne)) /\ UNCHANGED holder
      \/ \E s \in tx[t].sees :
           LastOver(s, tx[t].sees) /\ Free(s) /\ Runs(s) /\ Locks(t, s) /\ Step(t, found(s))
      \/ \E s \in tx[t].sees : ~Runs(s) /\ Step(t, less(s)) /\ UNCHANGED holder
  BY DEF TakeLatest
<1>6. \A r \in Subs : o.action = "upgrade" /\ Runs(r) => r \in S
  OBVIOUS
<1> HIDE DEF found, less, S
<1>7. CASE tx[t].sees = {} /\ Step(t, found(NoOne)) /\ UNCHANGED holder
  <2>1. Quiet(t) /\ tx'[t] = found(NoOne)
    BY <1>0, <1>1, <1>7, QuietBy
  <2>2. LockedBy(t)' /\ PayFits(t)'
    BY <1>1, <1>2, <1>4, <1>7, <2>1 DEF LockedBy, PayFits
  <2>3. \A r \in tx[t].known : ~Runs(r)
    BY <1>2, <1>7
  <2>4. QueueBy(t)'
    BY <1>2, <1>3, <1>4, <2>1, <2>3 DEF QueueBy
  <2> QED BY <1>0, <2>1, <2>2, <2>4, QuietStep
<1>8. ASSUME NEW s \in tx[t].sees, LastOver(s, tx[t].sees), Free(s), Runs(s),
             Locks(t, s), Step(t, found(s))
      PROVE  IInv'
  <2>0. s \in Subs /\ s \in Existing /\ sub[s].expires > now
    BY <1>2, <1>8 DEF Runs, Existing
  <2>1. Quiet(t) /\ tx'[t] = found(s)
    BY <1>0, <1>1, <1>8, <2>0, QuietBy
  <2>2. holder'[tx[t].order] = t
    BY <1>0, <1>2, <1>8, <2>0, LocksOf
  <2>3. LockedBy(t)' /\ PayFits(t)'
    BY <1>1, <1>2, <1>4, <2>1, <2>2 DEF LockedBy, PayFits
  <2>4. \A r \in tx[t].known : Runs(r) => sub[r].expires <= sub[s].expires
    BY <1>2, <1>8 DEF LastOver
  <2>5. \A r \in tx[t].known : Runs(r) /\ o.action = "upgrade" => r \in S
    BY <1>2, <1>6
  <2>6. s # NoOne
    BY <2>0, Constants
  <2>7. QueueBy(t)'
    <3>1. /\ tx'[t].pc = "grant" /\ tx'[t].base = s /\ tx'[t].known = tx[t].known
          /\ tx'[t].sees = S /\ order'[tx'[t].order] = o
      BY <1>1, <1>4, <2>1
    <3>2. \A r \in tx[t].known : Runs(r)' <=> Runs(r)
      BY <1>2, <1>3
    <3> QED BY <1>1, <1>2, <1>3, <2>0, <2>4, <2>5, <2>6, <3>1, <3>2 DEF QueueBy
  <2> QED BY <1>0, <2>1, <2>3, <2>7, QuietStep
<1>9. ASSUME NEW s \in tx[t].sees, ~Runs(s), Step(t, less(s)), UNCHANGED holder
      PROVE  IInv'
  <2>1. Quiet(t) /\ tx'[t] = less(s)
    BY <1>0, <1>1, <1>9, QuietBy
  <2>2. LockedBy(t)' /\ PayFits(t)'
    BY <1>1, <1>2, <1>4, <1>9, <2>1 DEF LockedBy, PayFits
  <2>3. \A r \in tx[t].known : Runs(r)' => r \in tx[t].sees \ {s}
    BY <1>2, <1>3, <1>9
  <2>4. QueueBy(t)'
    BY <1>2, <1>3, <1>4, <2>1, <2>3 DEF QueueBy
  <2> QED BY <1>0, <2>1, <2>2, <2>4, QuietStep
<1> QED BY <1>5, <1>7, <1>8, <1>9

LEMMA FindInv ==
  ASSUME IInv, NEW t \in Txs, Find(t)
  PROVE  IInv'
<1>0. TypeOK /\ TypeOK' /\ LockedBy(t) /\ tx[t].pc = "find"
  BY FindTypes DEF IInv, Find, At
<1>1. UNCHANGED <<order, sub, ledger>> /\ now' = now /\ Existing' = Existing
  BY DEF Find, Existing
<1>2. /\ tx[t].gen \in Generations /\ tx[t].amount > 0 /\ tx[t].sees \subseteq Subs
  BY <1>0 DEF LockedBy, TypeOK, Tx
<1>3. \/ Step(t, Idle) /\ UNCHANGED holder
      \/ \E s \in Subs : Free(s) /\ Usable(s) /\ Locks(t, s) /\ Found(t, s)
      \/ \E s \in Subs : Missed(t, s) /\ UNCHANGED holder
  BY <1>2 DEF Find
<1>4. CASE Step(t, Idle) /\ UNCHANGED holder
  BY <1>0, <1>1, <1>4, IdleQuiet
<1>5. ASSUME NEW s \in Subs, Free(s), Usable(s), Locks(t, s), Found(t, s)
      PROVE  IInv'
  <2> DEFINE r == [tx[t] EXCEPT !.pc = "spend", !.base = s, !.used = sub[s].used,
                                !.sees = {}]
  <2>1. /\ r.pc = "spend" /\ r.base = s /\ r.used = sub[s].used
        /\ r.gen = tx[t].gen /\ r.amount = tx[t].amount
    BY <1>0 DEF TypeOK, Tx
  <2>2. Step(t, r)
    BY <1>5 DEF Found
  <2> HIDE DEF r
  <2>3. Quiet(t) /\ tx'[t] = r
    BY <1>0, <1>1, <1>5, <2>2, QuietBy
  <2>4. s \in Existing /\ sub[s].used < sub[s].total
    BY <1>5 DEF Usable, Current, Runs, Existing
  <2>5. holder'[s] = t
    BY <1>0, <1>5, LocksOf
  <2>6. LockedBy(t)'
    BY <1>1, <1>2, <2>1, <2>3, <2>4, <2>5 DEF LockedBy
  <2>7. QueueBy(t)' /\ PayFits(t)'
    BY <2>1, <2>3 DEF QueueBy, PayFits
  <2> QED BY <1>0, <2>3, <2>6, <2>7, QuietStep
<1>6. ASSUME NEW s \in Subs, Missed(t, s), UNCHANGED holder
      PROVE  IInv'
  <2> DEFINE r == [tx[t] EXCEPT !.sees = tx[t].sees \ {s}]
  <2>1. r.pc = "find" /\ r.gen = tx[t].gen /\ r.amount = tx[t].amount
    BY <1>0 DEF TypeOK, Tx
  <2>2. Step(t, r)
    BY <1>6 DEF Missed
  <2> HIDE DEF r
  <2>3. Quiet(t) /\ tx'[t] = r
    BY <1>0, <1>1, <1>6, <2>2, QuietBy
  <2>4. LockedBy(t)' /\ QueueBy(t)' /\ PayFits(t)'
    BY <1>2, <2>1, <2>3 DEF LockedBy, QueueBy, PayFits
  <2> QED BY <1>0, <2>3, <2>4, QuietStep
<1> QED BY <1>3, <1>4, <1>5, <1>6

LEMMA LockRefundInv ==
  ASSUME IInv, NEW t \in Txs, LockRefund(t)
  PROVE  IInv'
<1>0. TypeOK /\ LockedBy(t) /\ tx[t].pc = "refund"
  BY DEF IInv, LockRefund, At
<1>1. UNCHANGED <<order, sub, ledger>> /\ now' = now /\ Existing' = Existing
  BY DEF LockRefund, Existing
<1>2. /\ tx[t].gen \in Generations /\ tx[t].base \in Existing /\ tx[t].base \in Subs
      /\ tx[t].base \in drawn[tx[t].gen]
  BY <1>0 DEF LockedBy, Existing
<1>3. TypeOK'
  BY <1>0, <1>2, LockRefundTypes
<1>4. CASE Step(t, Idle) /\ UNCHANGED holder
  BY <1>1, <1>3, <1>4, IdleQuiet
<1>5. CASE Capped(t) > 0 /\ Locks(t, tx[t].base)
           /\ Step(t, [tx[t] EXCEPT !.pc = "pay", !.used = sub[tx[t].base].used,
                                    !.amount = Capped(t)])
  <2> DEFINE r == [tx[t] EXCEPT !.pc = "pay", !.used = sub[tx[t].base].used,
                                !.amount = Capped(t)]
  <2>1. /\ r.pc = "pay" /\ r.base = tx[t].base /\ r.used = sub[tx[t].base].used
        /\ r.gen = tx[t].gen /\ r.amount = Capped(t)
    BY <1>0 DEF TypeOK, Tx
  <2>2. Step(t, r)
    BY <1>5
  <2> HIDE DEF r
  <2>3. Free(tx[t].base)
    BY DEF LockRefund
  <2>4. Quiet(t) /\ tx'[t] = r
    BY <1>0, <1>1, <1>2, <1>5, <2>2, <2>3, QuietBy
  <2>5. holder'[tx[t].base] = t
    BY <1>0, <1>2, <1>5, LocksOf
  <2>6. Capped(t) <= reserved[tx[t].gen] - refunded[tx[t].gen]
    <3>1. /\ tx[t].amount \in Nat /\ reserved[tx[t].gen] \in Nat
          /\ refunded[tx[t].gen] \in Nat
      BY <1>0, <1>2 DEF TypeOK, Tx
    <3> QED BY <3>1 DEF Capped, Least
  <2>7. reserved' = reserved /\ refunded' = refunded /\ drawn' = drawn /\ sub' = sub
    BY <1>1 DEF ledger
  <2>8. LockedBy(t)'
    BY <1>1, <1>2, <1>5, <2>1, <2>4, <2>5, <2>7 DEF LockedBy
  <2>9. QueueBy(t)' /\ PayFits(t)'
    BY <2>1, <2>4, <2>6, <2>7 DEF QueueBy, PayFits
  <2> QED BY <1>3, <2>4, <2>8, <2>9, QuietStep
<1> QED BY <1>4, <1>5 DEF LockRefund

LEMMA TickInv ==
  ASSUME IInv, Tick
  PROVE  IInv'
<1>0. TypeOK /\ TypeOK'
  BY DEF IInv, TypeOK, Tick, ledger
<1>1. /\ UNCHANGED <<order, sub, ledger, holder, tx>>
      /\ \A u \in Txs : tx[u].pc \notin {"take", "grant"}
  BY DEF Tick
<1>2. Respects(NoOne) /\ Lasting
  BY <1>1 DEF Respects, Lasting, Existing, ledger
<1>3. \A u \in Txs : LockedBy(u)' /\ QueueBy(u)'
  BY <1>0, <1>1, <1>2, OthersLocked, OthersQueue, Constants DEF IInv
<1>4. \A u \in Txs : PayFits(u)'
  BY <1>1, PayFitsSame DEF IInv
<1>5. Rest'
  BY <1>1, RestSame DEF IInv, Rest
<1> QED BY <1>0, <1>3, <1>4, <1>5 DEF IInv, Rest

-----------------------------------------------------------------------------
(* Steps that write rows.                                                  *)

\* A transaction that has ended knows nothing, the others what they knew.
LEMMA EndStep ==
  ASSUME IInv, NEW t \in Txs, Step(t, Idle), Respects(t), Lasting, now' = now,
         \A u \in Txs \ {t} : PayFits(u)'
  PROVE  \A u \in Txs : LockedBy(u)' /\ QueueBy(u)' /\ PayFits(u)'
<1>1. TypeOK /\ \A u \in Txs : LockedBy(u) /\ QueueBy(u)
  BY DEF IInv
<1>2. tx'[t] = Idle
  BY <1>1, StepOf DEF TypeOK
<1>3. LockedBy(t)' /\ QueueBy(t)' /\ PayFits(t)'
  BY <1>2 DEF Idle, LockedBy, QueueBy, PayFits
<1>4. \A u \in Txs \ {t} : LockedBy(u)' /\ QueueBy(u)'
  BY <1>1, OthersLocked, OthersQueue
<1> QED BY <1>3, <1>4

\* What only ends or is used keeps its place in the queue.
LEMMA QueueLasts ==
  ASSUME Books, RunsQueueUp, Lasting, Existing' = Existing
  PROVE  RunsQueueUp' /\ \A s \in Subs : sub'[s].status # "none" =>
                           sub'[s].known = sub[s].known
<1>1. ASSUME NEW r \in Subs, NEW s \in Subs,
             sub'[r].status = "active", sub'[s].status = "active", r \in sub'[s].known
      PROVE  sub'[r].expires <= sub'[s].starts
  <2>1. r \in Existing /\ s \in Existing
    BY <1>1 DEF Existing
  <2>2. /\ sub[r].status = "active" /\ sub[s].status = "active"
        /\ sub'[r].expires = sub[r].expires /\ sub'[s].starts = sub[s].starts
        /\ sub'[s].known = sub[s].known
    BY <1>1, <2>1 DEF Lasting
  <2> QED BY <1>1, <2>2 DEF RunsQueueUp
<1>2. RunsQueueUp'
  BY <1>1 DEF RunsQueueUp
<1>3. \A s \in Subs : sub'[s].status # "none" => s \in Existing
  BY DEF Existing
<1> QED BY <1>2, <1>3 DEF Lasting

LEMMA InsertedInv ==
  ASSUME IInv, NEW t \in Txs, TypeOK', NEW action, NEW credits,
         Inserted(t, action, credits), UNCHANGED <<now, sub, ledger, holder>>
  PROVE  IInv'
<1>0. TypeOK /\ Rest
  BY DEF IInv, Rest
<1>1. PICK o \in Orders :
        /\ order[o].status = "none"
        /\ order' = [order EXCEPT ![o] = [status |-> "pending", action |-> action,
                                          pkg |-> tx[t].pkg, credits |-> credits]]
  BY DEF Inserted
<1>2. /\ order'[o].status = "pending"
      /\ \A p \in Orders \ {o} : order'[p] = order[p]
  BY <1>0, <1>1 DEF TypeOK
<1>3. \A u \in Txs \ {t} : tx'[u] = tx[u]
  BY <1>0, StepOf DEF Inserted, TypeOK
<1>4. Respects(t)
  BY <1>1, <1>2, <1>3 DEF Respects
<1>5. Lasting
  BY DEF Lasting, Existing, ledger
<1>6. \A u \in Txs \ {t} : PayFits(u)'
  BY <1>3, PayFitsSame DEF IInv
<1>7. \A u \in Txs : LockedBy(u)' /\ QueueBy(u)' /\ PayFits(u)'
  BY <1>4, <1>5, <1>6, EndStep DEF Inserted
<1>8. Existing' = Existing /\ \A p : Granted(p)' = Granted(p)
  BY DEF Existing, Granted
<1>9. Granted(o) = {}
  BY <1>0, <1>1 DEF Rest, OrderGrantsOnce
<1>10. OrderGrantsOnce'
  BY <1>0, <1>2, <1>8, <1>9 DEF Rest, OrderGrantsOnce
<1>11. Books' /\ UsageMatchesLedger' /\ RefundsFitReserves' /\ RunsQueueUp'
  BY <1>0, <1>8 DEF Rest, Books, UsageMatchesLedger, RefundsFitReserves, RunsQueueUp,
     ledger
<1> QED BY <1>7, <1>10, <1>11 DEF IInv

LEMMA PriceInv ==
  ASSUME IInv, NEW t \in Txs, Price(t)
  PROVE  IInv'
<1>0. TypeOK /\ TypeOK' /\ tx[t].pc = "price"
  BY PriceTypes DEF IInv, Price, At
<1>1. UNCHANGED <<now, sub, ledger, holder>>
  BY DEF Price
<1>2. CASE \E action, credits : Inserted(t, action, credits)
  BY <1>0, <1>1, <1>2, InsertedInv
<1>3. ASSUME NEW s, Step(t, [tx[t] EXCEPT !.sees = tx[t].sees \ {s}]), UNCHANGED order
      PROVE  IInv'
  <2> DEFINE r == [tx[t] EXCEPT !.sees = tx[t].sees \ {s}]
  <2>1. r.pc = "price" /\ Step(t, r)
    BY <1>0, <1>3 DEF TypeOK, Tx
  <2> HIDE DEF r
  <2>2. Quiet(t) /\ tx'[t] = r
    BY <1>0, <1>1, <1>3, <2>1, QuietBy
  <2>3. LockedBy(t)' /\ QueueBy(t)' /\ PayFits(t)'
    BY <2>1, <2>2 DEF LockedBy, QueueBy, PayFits
  <2> QED BY <1>0, <2>2, <2>3, QuietStep
<1> QED BY <1>2, <1>3 DEF Price

\* A step that changes only what one subscription has used.
LEMMA UseFrame ==
  ASSUME TypeOK, Rest, NEW s \in Existing, NEW k \in Nat,
         sub' = [sub EXCEPT ![s].used = k], order' = order,
         \A g \in Generations : drawn[g] \subseteq drawn'[g]
  PROVE  /\ Lasting /\ Existing' = Existing
         /\ OrderGrantsOnce' /\ RunsQueueUp'
         /\ \A r \in Subs : sub'[r].known = sub[r].known /\ sub'[r].total = sub[r].total
         /\ \A r \in Subs \ {s} : sub'[r] = sub[r]
         /\ sub'[s].used = k
<1>1. s \in Subs /\ sub[s] \in Sub
  BY DEF Existing, TypeOK
<1>2. /\ \A r \in Subs \ {s} : sub'[r] = sub[r]
      /\ sub'[s] = [sub[s] EXCEPT !.used = k]
  BY <1>1 DEF TypeOK
<1>3. /\ sub'[s].used = k
      /\ sub'[s].status = sub[s].status /\ sub'[s].order = sub[s].order
      /\ sub'[s].starts = sub[s].starts /\ sub'[s].expires = sub[s].expires
      /\ sub'[s].total = sub[s].total /\ sub'[s].known = sub[s].known
  BY <1>1, <1>2 DEF Sub
<1>4. Existing' = Existing
  BY <1>2, <1>3 DEF Existing
<1>5. Lasting
  BY <1>2, <1>3 DEF Lasting, Existing
<1>6. \A o : Granted(o)' = Granted(o)
  BY <1>2, <1>3, <1>4 DEF Granted, Existing
<1>7. \A r \in Subs : sub'[r].status = sub[r].status
  BY <1>2, <1>3
<1>8. OrderGrantsOnce'
  BY <1>6, <1>7 DEF Rest, OrderGrantsOnce, Granted, Existing
<1>9. RunsQueueUp'
  BY <1>4, <1>5, QueueLasts DEF Rest
<1> QED BY <1>2, <1>3, <1>4, <1>5, <1>8, <1>9

LEMMA SpendInv ==
  ASSUME IInv, NEW t \in Txs, Spend(t)
  PROVE  IInv'
<1> DEFINE s == tx[t].base
           g == tx[t].gen
           n == Least(tx[t].amount, sub[s].total - tx[t].used)
<1>0. /\ TypeOK /\ Rest /\ LockedBy(t) /\ tx[t].pc = "spend"
      /\ \A u \in Txs : PayFits(u) /\ LockedBy(u)
  BY DEF IInv, Rest, Spend, At
<1>1. /\ n \in Nat /\ tx[t].used + n \in Nat /\ tx[t].used + n <= sub[s].total
      /\ s \in Subs /\ g \in Generations
  BY <1>0, SpendTakes
<1>2. s \in Existing /\ holder[s] = t /\ tx[t].used = sub[s].used
  BY <1>0 DEF LockedBy
<1>3. /\ sub' = [sub EXCEPT ![s].used = tx[t].used + n]
      /\ reserved' = [reserved EXCEPT ![g] = reserved[g] + n]
      /\ net' = [net EXCEPT ![s] = net[s] + n]
      /\ source' = [source EXCEPT ![g] = s]
      /\ drawn' = [drawn EXCEPT ![g] = drawn[g] \cup {s}]
      /\ Ends(t)
      /\ UNCHANGED <<now, order, refunded>>
  BY DEF Spend
<1>4. TypeOK'
  BY <1>0, SpendTypes
<1> HIDE DEF s, g, n
<1>5. /\ reserved'[g] = reserved[g] + n /\ net'[s] = net[s] + n
      /\ source'[g] = s /\ drawn'[g] = drawn[g] \cup {s}
      /\ \A h \in Generations \ {g} :
           reserved'[h] = reserved[h] /\ source'[h] = source[h] /\ drawn'[h] = drawn[h]
      /\ \A r \in Subs \ {s} : net'[r] = net[r]
  BY <1>0, <1>1, <1>3 DEF TypeOK
<1>6. \A h \in Generations : drawn[h] \subseteq drawn'[h] /\ reserved[h] <= reserved'[h]
  BY <1>0, <1>1, <1>5 DEF TypeOK
<1>7. /\ Lasting /\ Existing' = Existing
      /\ OrderGrantsOnce' /\ RunsQueueUp'
      /\ \A r \in Subs : sub'[r].known = sub[r].known /\ sub'[r].total = sub[r].total
      /\ \A r \in Subs \ {s} : sub'[r] = sub[r]
      /\ sub'[s].used = tx[t].used + n
  BY <1>0, <1>1, <1>2, <1>3, <1>6, UseFrame
<1>8. /\ \A u \in Txs \ {t} : tx'[u] = tx[u]
      /\ \A row \in Orders \cup Subs : holder[row] # t => holder'[row] = holder[row]
  BY <1>0, <1>3, EndsOf
<1>9. Respects(t)
  BY <1>2, <1>3, <1>7, <1>8 DEF Respects, Existing
<1>10. ASSUME NEW u \in Txs \ {t}
       PROVE  PayFits(u)'
  <2>1. CASE tx[u].pc = "pay" /\ Single(tx[u].gen)'
    <3>1. tx[u].gen \in Generations
      BY <1>0, <2>1 DEF LockedBy
    <3>2. Single(tx[u].gen)
      BY <1>6, <1>8, <2>1, <3>1 DEF Single
    <3>3. tx[u].amount <= reserved[tx[u].gen] - refunded[tx[u].gen]
      BY <1>0, <2>1, <3>2 DEF PayFits
    <3>4. /\ reserved[tx[u].gen] <= reserved'[tx[u].gen]
          /\ refunded'[tx[u].gen] = refunded[tx[u].gen]
      BY <1>3, <1>6, <3>1
    <3>5. /\ reserved[tx[u].gen] \in Nat /\ reserved'[tx[u].gen] \in Nat
          /\ refunded[tx[u].gen] \in Nat /\ tx[u].amount \in Nat
      BY <1>0, <1>4, <3>1 DEF TypeOK, Tx
    <3>6. tx[u].amount <= reserved'[tx[u].gen] - refunded'[tx[u].gen]
      BY <3>3, <3>4, <3>5
    <3> QED BY <1>8, <3>6 DEF PayFits
  <2> QED BY <1>8, <2>1 DEF PayFits
<1>11. \A u \in Txs : LockedBy(u)' /\ QueueBy(u)' /\ PayFits(u)'
  BY <1>3, <1>7, <1>9, <1>10, EndStep DEF Ends
<1>12. Books'
  BY <1>0, <1>2, <1>5, <1>7 DEF Rest, Books
<1>13. UsageMatchesLedger'
  <2>1. sub[s].used = net[s] /\ 0 <= net[s] /\ net[s] \in Int
    BY <1>0, <1>1 DEF Rest, UsageMatchesLedger, TypeOK
  <2>2. sub'[s].used = net'[s] /\ 0 <= net'[s] /\ net'[s] <= sub'[s].total
    BY <1>1, <1>2, <1>5, <1>7, <2>1
  <2>3. \A r \in Subs \ {s} : /\ sub'[r].used = net'[r] /\ 0 <= net'[r]
                              /\ net'[r] <= sub'[r].total
    BY <1>0, <1>5, <1>7 DEF Rest, UsageMatchesLedger
  <2> QED BY <2>2, <2>3 DEF UsageMatchesLedger
<1>14. RefundsFitReserves'
  <2>1. ASSUME NEW h \in Generations, \A r, q \in drawn'[h] : r = q
        PROVE  refunded'[h] <= reserved'[h]
    <3>1. \A r, q \in drawn[h] : r = q
      BY <1>6, <2>1
    <3>2. refunded[h] <= reserved[h]
      BY <1>0, <3>1 DEF Rest, RefundsFitReserves
    <3>3. refunded[h] \in Nat /\ reserved[h] \in Nat /\ reserved'[h] \in Nat
      BY <1>0, <1>4 DEF TypeOK
    <3> QED BY <1>3, <1>6, <3>2, <3>3
  <2> QED BY <2>1 DEF RefundsFitReserves
<1> QED BY <1>4, <1>7, <1>11, <1>12, <1>13, <1>14 DEF IInv

LEMMA RefundInv ==
  ASSUME IInv, NEW t \in Txs, Refund(t)
  PROVE  IInv'
<1> DEFINE s == tx[t].base
           g == tx[t].gen
           n == Back(t)
<1>0. /\ TypeOK /\ Rest /\ LockedBy(t) /\ tx[t].pc = "pay"
      /\ \A u \in Txs : PayFits(u) /\ LockedBy(u)
  BY DEF IInv, Rest, Refund, At
<1>1. /\ n \in Nat /\ n <= tx[t].amount /\ tx[t].used - n \in Nat
      /\ s \in Subs /\ g \in Generations
  BY <1>0, RefundGives
<1>2. /\ s \in Existing /\ holder[s] = t /\ tx[t].used = sub[s].used
      /\ s \in drawn[g]
  BY <1>0 DEF LockedBy
<1>3. /\ sub' = [sub EXCEPT ![s].used = tx[t].used - n]
      /\ refunded' = [refunded EXCEPT ![g] = refunded[g] + n]
      /\ net' = [net EXCEPT ![s] = net[s] - n]
      /\ Ends(t)
      /\ UNCHANGED <<now, order, reserved, source, drawn>>
  BY DEF Refund
<1>4. TypeOK'
  BY <1>0, RefundTypes
<1>a. Single(g) => tx[t].amount <= reserved[g] - refunded[g]
  BY <1>0 DEF PayFits
<1> HIDE DEF s, g, n
<1>5. /\ refunded'[g] = refunded[g] + n /\ net'[s] = net[s] - n
      /\ \A h \in Generations \ {g} : refunded'[h] = refunded[h]
      /\ \A r \in Subs \ {s} : net'[r] = net[r]
  BY <1>0, <1>1, <1>3 DEF TypeOK
<1>7. /\ Lasting /\ Existing' = Existing
      /\ OrderGrantsOnce' /\ RunsQueueUp'
      /\ \A r \in Subs : sub'[r].known = sub[r].known /\ sub'[r].total = sub[r].total
      /\ \A r \in Subs \ {s} : sub'[r] = sub[r]
      /\ sub'[s].used = tx[t].used - n
  BY <1>0, <1>1, <1>2, <1>3, UseFrame
<1>8. /\ \A u \in Txs \ {t} : tx'[u] = tx[u]
      /\ \A row \in Orders \cup Subs : holder[row] # t => holder'[row] = holder[row]
  BY <1>0, <1>3, EndsOf
<1>9. Respects(t)
  BY <1>2, <1>3, <1>7, <1>8 DEF Respects, Existing
<1>10. ASSUME NEW u \in Txs \ {t}
       PROVE  PayFits(u)'
  <2>1. CASE tx[u].pc = "pay" /\ Single(tx[u].gen)
    <3>1. tx[u].gen # g
      <4>1. tx[u].base \in drawn[tx[u].gen] /\ holder[tx[u].base] = u
        BY <1>0, <2>1 DEF LockedBy
      <4> QED BY <1>2, <2>1, <4>1 DEF Single
    <3>2. tx[u].gen \in Generations
      BY <1>0, <2>1 DEF LockedBy
    <3>3. refunded'[tx[u].gen] = refunded[tx[u].gen]
      BY <1>5, <3>1, <3>2
    <3> QED BY <1>0, <1>3, <1>8, <2>1, <3>3 DEF PayFits
  <2>2. CASE ~(tx[u].pc = "pay" /\ Single(tx[u].gen))
    BY <1>3, <1>8, <2>2 DEF PayFits, Single
  <2> QED BY <2>1, <2>2
<1>11. \A u \in Txs : LockedBy(u)' /\ QueueBy(u)' /\ PayFits(u)'
  BY <1>3, <1>7, <1>9, <1>10, EndStep DEF Ends
<1>12. Books'
  BY <1>0, <1>2, <1>3, <1>5, <1>7 DEF Rest, Books
<1>13. UsageMatchesLedger'
  <2>1. /\ sub[s].used = net[s] /\ net[s] <= sub[s].total
        /\ net[s] \in Int /\ sub[s].total \in Nat
    BY <1>0, <1>1 DEF Rest, UsageMatchesLedger, TypeOK, Sub
  <2>2. sub'[s].used = net'[s] /\ 0 <= net'[s] /\ net'[s] <= sub'[s].total
    BY <1>1, <1>2, <1>5, <1>7, <2>1
  <2>3. \A r \in Subs \ {s} : /\ sub'[r].used = net'[r] /\ 0 <= net'[r]
                              /\ net'[r] <= sub'[r].total
    BY <1>0, <1>5, <1>7 DEF Rest, UsageMatchesLedger
  <2> QED BY <2>2, <2>3 DEF UsageMatchesLedger
<1>14. RefundsFitReserves'
  <2>1. ASSUME NEW h \in Generations, \A r, q \in drawn'[h] : r = q
        PROVE  refunded'[h] <= reserved'[h]
    <3>1. \A r, q \in drawn[h] : r = q
      BY <1>3, <2>1
    <3>2. CASE h = g
      <4>1. n <= reserved[g] - refunded[g]
        <5>1. tx[t].amount <= reserved[g] - refunded[g]
          BY <1>a, <3>1, <3>2 DEF Single
        <5>2. tx[t].amount \in Nat /\ reserved[g] \in Nat /\ refunded[g] \in Nat
          BY <1>0, <1>1 DEF TypeOK, Tx
        <5> QED BY <1>1, <5>1, <5>2
      <4>2. n \in Nat /\ reserved[g] \in Nat /\ refunded[g] \in Nat
        BY <1>0, <1>1 DEF TypeOK
      <4> QED BY <1>3, <1>5, <3>2, <4>1, <4>2
    <3>3. CASE h # g
      BY <1>0, <1>3, <1>5, <3>1, <3>3 DEF Rest, RefundsFitReserves
    <3> QED BY <3>2, <3>3
  <2> QED BY <2>1 DEF RefundsFitReserves
<1> QED BY <1>4, <1>7, <1>11, <1>12, <1>13, <1>14 DEF IInv

LEMMA OrderStepInv ==
  ASSUME IInv, NEW o \in Orders, Fail(o) \/ CancelOrder(o) \/ RefundOrder(o)
  PROVE  IInv'
<1>0. TypeOK /\ TypeOK' /\ Rest
  BY OrderStepTypes DEF IInv, Rest
<1>1. UNCHANGED <<now, ledger, holder, tx>> /\ Free(o)
  BY DEF Fail, CancelOrder, RefundOrder
<1>2. \A p \in Orders \ {o} : order'[p] = order[p]
  BY <1>0 DEF Fail, CancelOrder, RefundOrder, SetStatus, TypeOK
<1>3. \A s \in Subs : sub[s] \in Sub
  BY <1>0 DEF TypeOK
<1>4. /\ \A s \in Subs : s \notin Granted(o) => sub'[s] = sub[s]
      /\ \A s \in Granted(o) : sub'[s] = sub[s] \/ sub'[s] = Cancelled(s)
  BY <1>0 DEF Fail, CancelOrder, RefundOrder, TypeOK, Granted, Existing
<1>5. \A s \in Subs : /\ Cancelled(s).status = "cancelled"
                      /\ Cancelled(s).order = sub[s].order
                      /\ Cancelled(s).starts = sub[s].starts
                      /\ Cancelled(s).expires = sub[s].expires
                      /\ Cancelled(s).total = sub[s].total
                      /\ Cancelled(s).used = sub[s].used
                      /\ Cancelled(s).known = sub[s].known
  BY <1>3 DEF Cancelled, Sub
<1>6. \A s \in Subs : /\ sub'[s].status \in {sub[s].status, "cancelled"}
                      /\ sub'[s].status = "none" <=> sub[s].status = "none"
                      /\ sub'[s].order = sub[s].order
                      /\ sub'[s].starts = sub[s].starts
                      /\ sub'[s].expires = sub[s].expires
                      /\ sub'[s].total = sub[s].total
                      /\ sub'[s].used = sub[s].used
                      /\ sub'[s].known = sub[s].known
  BY <1>4, <1>5 DEF Granted, Existing
<1>7. Lasting /\ Existing' = Existing
  BY <1>1, <1>6 DEF Lasting, Existing, ledger
<1>8. \A p : Granted(p)' = Granted(p)
  BY <1>6, <1>7 DEF Granted, Existing
<1>9. Respects(NoOne)
  BY <1>1, <1>2, <1>6, Constants DEF Respects, Free, Existing
<1>10. \A u \in Txs : LockedBy(u)' /\ QueueBy(u)'
  BY <1>0, <1>1, <1>7, <1>9, OthersLocked, OthersQueue, Constants DEF IInv
<1>11. \A u \in Txs : PayFits(u)'
  BY <1>1, PayFitsSame DEF IInv
<1>12. Books' /\ UsageMatchesLedger' /\ RefundsFitReserves'
  BY <1>0, <1>1, <1>6, <1>7 DEF Rest, Books, UsageMatchesLedger, RefundsFitReserves, ledger
<1>13. RunsQueueUp'
  BY <1>0, <1>7, QueueLasts DEF Rest
<1>14. ASSUME NEW p \in Orders
       PROVE  /\ \A r, s \in Granted(p) : r = s
              /\ order'[p].status = "completed" => Granted(p) # {}
              /\ order'[p].status = "refunded" =>
                   Granted(p) # {} /\ \A s \in Granted(p) : sub'[s].status = "cancelled"
              /\ Granted(p) # {} => order'[p].status \in {"completed", "refunded"}
  <2>1. /\ \A r, s \in Granted(p) : r = s
        /\ order[p].status = "completed" => Granted(p) # {}
        /\ order[p].status = "refunded" =>
             Granted(p) # {} /\ \A s \in Granted(p) : sub[s].status = "cancelled"
        /\ Granted(p) # {} => order[p].status \in {"completed", "refunded"}
    BY <1>0 DEF Rest, OrderGrantsOnce
  <2>2. CASE p # o
    <3>1. \A s \in Granted(p) : sub[s].status = "cancelled" => sub'[s].status = "cancelled"
      BY <1>6 DEF Granted, Existing
    <3> QED BY <1>2, <2>1, <2>2, <3>1
  <2>3. CASE p = o /\ (Fail(o) \/ CancelOrder(o))
    <3>1. order'[o].status \in {"failed", "cancelled"}
          /\ order[o].status \in {"pending", "failed"}
      BY <1>0, <2>3 DEF Fail, CancelOrder, SetStatus, TypeOK, Order
    <3> QED BY <2>1, <2>3, <3>1
  <2>4. CASE p = o /\ RefundOrder(o)
    <3>1. order[o].status = "completed" /\ order'[o].status = "refunded"
      BY <1>0, <2>4 DEF RefundOrder, SetStatus, TypeOK, Order
    <3>2. \A s \in Granted(o) : sub'[s] = Cancelled(s)
      BY <2>4 DEF RefundOrder, Granted, Existing
    <3>3. \A s \in Granted(o) : sub'[s].status = "cancelled"
      BY <1>5, <3>2 DEF Granted, Existing
    <3> QED BY <2>1, <2>4, <3>1, <3>3
  <2> QED BY <2>2, <2>3, <2>4
<1>15. OrderGrantsOnce'
  BY <1>8, <1>14 DEF OrderGrantsOnce
<1> QED BY <1>0, <1>10, <1>11, <1>12, <1>13, <1>15 DEF IInv

\* The new subscription begins when those known to it have ended.
LEMMA NewBehind ==
  ASSUME TypeOK, NEW t \in Txs, tx[t].pc = "grant", LockedBy(t), QueueBy(t),
         NEW r \in tx[t].known, sub[r].status = "active",
         ~(r \in tx[t].sees /\ Runs(r))
  PROVE  sub[r].expires <= Activated(t).starts
<1>1. r \in Subs /\ tx[t].base \in Subs \cup {NoOne}
  BY DEF QueueBy, Existing, TypeOK, Tx
<1>2. now \in Nat /\ sub[r].expires \in Nat
  BY <1>1 DEF TypeOK, Sub
<1>3. ~Runs(r) => sub[r].expires <= now
  BY <1>2 DEF Runs
<1>4. \A a, b : Row(t, a, b).starts = a
  BY DEF Row
<1>5. CASE tx[t].base = NoOne
  <2>1. ~Runs(r)
    BY <1>5 DEF QueueBy
  <2> QED BY <1>3, <1>4, <1>5, <2>1 DEF Activated
<1>6. CASE tx[t].base # NoOne /\ order[tx[t].order].action = "upgrade"
  <2>1. ~Runs(r)
    BY <1>6 DEF QueueBy
  <2> QED BY <1>3, <1>4, <1>6, <2>1 DEF Activated
<1>7. CASE tx[t].base # NoOne /\ order[tx[t].order].action # "upgrade"
  <2>1. sub[tx[t].base].expires \in Nat
    BY <1>1, <1>7 DEF TypeOK, Sub
  <2>2. sub[tx[t].base].expires > now
    BY <1>7 DEF QueueBy
  <2>3. Runs(r) => sub[r].expires <= sub[tx[t].base].expires
    BY DEF QueueBy
  <2>4. sub[r].expires <= sub[tx[t].base].expires
    BY <1>2, <1>3, <2>1, <2>2, <2>3
  <2> QED BY <1>4, <1>7, <2>4 DEF Activated
<1> QED BY <1>5, <1>6, <1>7

LEMMA GrantInv ==
  ASSUME IInv, NEW t \in Txs, Grant(t)
  PROVE  IInv'
<1> DEFINE o == tx[t].order
<1>0. /\ TypeOK /\ Rest /\ LockedBy(t) /\ QueueBy(t) /\ tx[t].pc = "grant"
  BY DEF IInv, Rest, Grant, At
<1>1. /\ o \in Orders /\ holder[o] = t /\ order[o].status = "pending"
      /\ tx[t].known \subseteq Existing
  BY <1>0 DEF LockedBy, QueueBy
<1>2. TypeOK'
  BY <1>0, <1>1, GrantTypes
<1>3. PICK new \in Subs \ Existing :
        sub' = [s \in Subs |->
                 IF s = new THEN Activated(t)
                 ELSE IF s \in tx[t].sees /\ Runs(s)
                      THEN [sub[s] EXCEPT !.status = "upgraded"]
                 ELSE sub[s]]
  BY DEF Grant
<1>4. /\ \A s \in tx[t].sees : holder[s] \in {NoOne, t}
      /\ SetStatus(o, "completed") /\ Ends(t) /\ UNCHANGED <<now, ledger>>
  BY DEF Grant
<1>5. /\ order'[o].status = "completed"
      /\ \A p \in Orders \ {o} : order'[p] = order[p]
  BY <1>0, <1>1, <1>4 DEF SetStatus, TypeOK, Order
<1>6. /\ \A u \in Txs \ {t} : tx'[u] = tx[u]
      /\ \A row \in Orders \cup Subs : holder[row] # t => holder'[row] = holder[row]
  BY <1>0, <1>4, EndsOf
<1>7. sub'[new] = Activated(t)
  BY <1>3
<1>8. /\ Activated(t).status = "active" /\ Activated(t).order = o
      /\ Activated(t).used = 0 /\ Activated(t).known = tx[t].known
  BY DEF Activated, Row
<1>9. ASSUME NEW s \in Subs, s # new
      PROVE  /\ sub'[s].status \in {sub[s].status, "upgraded"}
             /\ sub'[s].status = "none" <=> sub[s].status = "none"
             /\ sub[s].status = "cancelled" => sub'[s].status = "cancelled"
             /\ sub'[s].status = "active" =>
                  sub[s].status = "active" /\ ~(s \in tx[t].sees /\ Runs(s))
             /\ sub'[s].order = sub[s].order
             /\ sub'[s].starts = sub[s].starts
             /\ sub'[s].expires = sub[s].expires
             /\ sub'[s].total = sub[s].total
             /\ sub'[s].used = sub[s].used
             /\ sub'[s].known = sub[s].known
  <2>1. sub[s] \in Sub
    BY <1>0 DEF TypeOK
  <2>2. CASE s \in tx[t].sees /\ Runs(s)
    <3>1. sub'[s] = [sub[s] EXCEPT !.status = "upgraded"]
      BY <1>3, <1>9, <2>2
    <3>2. sub[s].status = "active"
      BY <2>2 DEF Runs
    <3> QED BY <2>1, <3>1, <3>2 DEF Sub
  <2>3. CASE ~(s \in tx[t].sees /\ Runs(s))
    <3>1. sub'[s] = sub[s]
      BY <1>3, <1>9, <2>3
    <3> QED BY <2>3, <3>1
  <2> QED BY <2>2, <2>3
<1> HIDE DEF o
<1>10. Existing' = Existing \cup {new}
  BY <1>7, <1>8, <1>9 DEF Existing
<1>11. \A s \in Existing : s \in Subs /\ s # new
  BY <1>3 DEF Existing
<1>12. Lasting
  BY <1>4, <1>9, <1>11 DEF Lasting, Existing, ledger
<1>13. Respects(t)
  BY <1>1, <1>5, <1>6, <1>9, <1>11 DEF Respects
<1>14. \A u \in Txs \ {t} : PayFits(u)'
  BY <1>4, <1>6, PayFitsSame DEF IInv
<1>15. \A u \in Txs : LockedBy(u)' /\ QueueBy(u)' /\ PayFits(u)'
  BY <1>4, <1>12, <1>13, <1>14, EndStep DEF Ends
<1>16. /\ Granted(o) = {}
       /\ \A p \in Orders : /\ p = o => Granted(p)' = {new}
                            /\ p # o => Granted(p)' = Granted(p)
  <2>1. Granted(o) = {}
    BY <1>0, <1>1 DEF Rest, OrderGrantsOnce
  <2>2. \A p \in Orders, s \in Existing : s \in Granted(p)' <=> s \in Granted(p)
    BY <1>9, <1>10, <1>11 DEF Granted
  <2>3. \A p \in Orders : new \in Granted(p)' <=> p = o
    BY <1>7, <1>8, <1>10 DEF Granted
  <2>4. \A p \in Orders : Granted(p) \subseteq Existing /\ Granted(p)' \subseteq Existing \cup {new}
    BY <1>10 DEF Granted
  <2>5. ASSUME NEW p \in Orders, p = o
        PROVE  Granted(p)' = {new}
    BY <2>1, <2>2, <2>3, <2>4, <2>5
  <2>6. ASSUME NEW p \in Orders, p # o
        PROVE  Granted(p)' = Granted(p)
    BY <1>11, <2>2, <2>3, <2>4, <2>6
  <2> QED BY <2>1, <2>5, <2>6
<1>17. OrderGrantsOnce'
  <2>1. ASSUME NEW p \in Orders
        PROVE  /\ \A r, s \in Granted(p)' : r = s
               /\ order'[p].status = "completed" => Granted(p)' # {}
               /\ order'[p].status = "refunded" =>
                    Granted(p)' # {} /\ \A s \in Granted(p)' : sub'[s].status = "cancelled"
               /\ Granted(p)' # {} => order'[p].status \in {"completed", "refunded"}
    <3>1. CASE p = o
      BY <1>5, <1>16, <3>1
    <3>2. CASE p # o
      <4>1. /\ \A r, s \in Granted(p) : r = s
            /\ order[p].status = "completed" => Granted(p) # {}
            /\ order[p].status = "refunded" =>
                 Granted(p) # {} /\ \A s \in Granted(p) : sub[s].status = "cancelled"
            /\ Granted(p) # {} => order[p].status \in {"completed", "refunded"}
        BY <1>0 DEF Rest, OrderGrantsOnce
      <4>2. \A s \in Granted(p) : sub[s].status = "cancelled" => sub'[s].status = "cancelled"
        BY <1>9, <1>11 DEF Granted
      <4>3. Granted(p)' = Granted(p) /\ order'[p] = order[p]
        BY <1>5, <1>16, <3>2
      <4> QED BY <4>1, <4>2, <4>3
    <3> QED BY <3>1, <3>2
  <2> QED BY <2>1 DEF OrderGrantsOnce
<1>18. Books'
  <2>1. \A s \in Subs : sub'[s].known \subseteq Existing
    BY <1>0, <1>1, <1>7, <1>8, <1>9 DEF Rest, Books
  <2> QED BY <1>0, <1>4, <1>10, <2>1 DEF Rest, Books, ledger
<1>19. UsageMatchesLedger' /\ RefundsFitReserves'
  <2>1. net' = net /\ reserved' = reserved /\ refunded' = refunded /\ drawn' = drawn
    BY <1>4 DEF ledger
  <2>2. net[new] = 0 /\ sub'[new].total \in Nat
    BY <1>0, <1>2 DEF Rest, Books, TypeOK, Sub
  <2>3. sub'[new].used = net[new] /\ 0 <= net[new] /\ net[new] <= sub'[new].total
    BY <1>7, <1>8, <2>2
  <2>4. \A s \in Subs \ {new} : /\ sub'[s].used = net[s] /\ 0 <= net[s]
                                /\ net[s] <= sub'[s].total
    BY <1>0, <1>9 DEF Rest, UsageMatchesLedger
  <2> QED BY <1>0, <2>1, <2>3, <2>4 DEF Rest, UsageMatchesLedger, RefundsFitReserves
<1>20. RunsQueueUp'
  <2>1. ASSUME NEW r \in Subs, NEW s \in Subs, sub'[r].status = "active",
               sub'[s].status = "active", r \in sub'[s].known
        PROVE  sub'[r].expires <= sub'[s].starts
    <3>1. r \in Existing /\ r # new
      <4>1. sub'[s].known \subseteq Existing
        BY <1>0, <1>1, <1>7, <1>8, <1>9 DEF Rest, Books
      <4> QED BY <1>11, <2>1, <4>1
    <3>2. /\ sub'[r].expires = sub[r].expires /\ sub[r].status = "active"
          /\ ~(r \in tx[t].sees /\ Runs(r))
      BY <1>9, <2>1, <3>1
    <3>3. CASE s = new
      BY <1>0, <1>7, <1>8, <2>1, <3>2, <3>3, NewBehind
    <3>4. CASE s # new
      <4>1. /\ sub[s].status = "active" /\ r \in sub[s].known
            /\ sub'[s].starts = sub[s].starts
        BY <1>9, <2>1, <3>4
      <4> QED BY <1>0, <3>2, <4>1 DEF Rest, RunsQueueUp
    <3> QED BY <3>3, <3>4
  <2> QED BY <2>1 DEF RunsQueueUp
<1> QED BY <1>2, <1>15, <1>17, <1>18, <1>19, <1>20 DEF IInv

-----------------------------------------------------------------------------
(* The theorems.                                                           *)

LEMMA InitInv == Init => IInv
<1> SUFFICES ASSUME Init PROVE IInv
  OBVIOUS
<1>1. NoOrder \in Order /\ NoSub \in Sub /\ Idle \in Tx
  BY Constants, IdleTyped DEF NoOrder, Order, OrderStatus, NoSub, Sub
<1>2. TypeOK
  BY <1>1 DEF Init, TypeOK
<1>3. /\ \A s \in Subs : sub[s].status = "none" /\ sub[s].known = {}
      /\ \A s \in Subs : sub[s].used = 0 /\ sub[s].total = 0
      /\ \A o \in Orders : order[o].status = "none"
      /\ \A t \in Txs : tx[t].pc = "idle"
  BY DEF Init, NoSub, NoOrder, Idle
<1>4. Existing = {}
  BY <1>3 DEF Existing
<1>5. Books
  BY <1>3, <1>4 DEF Init, Books
<1>6. \A u \in Txs : LockedBy(u) /\ QueueBy(u) /\ PayFits(u)
  BY <1>3, KnowsNothing
<1>7. OrderGrantsOnce
  BY <1>3, <1>4 DEF OrderGrantsOnce, Granted
<1>8. UsageMatchesLedger /\ RefundsFitReserves /\ RunsQueueUp
  BY <1>3 DEF Init, UsageMatchesLedger, RefundsFitReserves, RunsQueueUp
<1> QED BY <1>2, <1>5, <1>6, <1>7, <1>8 DEF IInv

LEMMA NextInv ==
  ASSUME IInv, [Next]_vars
  PROVE  IInv'
<1>1. CASE UNCHANGED vars
  <2>1. TypeOK'
    BY <1>1, NextTypes DEF IInv
  <2>2. Rest'
    BY <1>1, RestSame DEF vars, IInv, Rest
  <2>3. Respects(NoOne) /\ Lasting
    BY <1>1 DEF vars, Respects, Lasting, Existing, ledger
  <2>4. \A u \in Txs : LockedBy(u)' /\ QueueBy(u)' /\ PayFits(u)'
    BY <1>1, <2>3, OthersLocked, OthersQueue, PayFitsSame, Constants DEF IInv, vars
  <2> QED BY <2>1, <2>2, <2>4 DEF IInv, Rest
<1>2. ASSUME NEW t \in Txs, Go(t)
      PROVE  IInv'
  BY <1>2, PriceInv, LockOrderInv, TakeLatestInv, GrantInv, FindInv, SpendInv,
     LockRefundInv, RefundInv DEF Go
<1> QED BY <1>1, <1>2, TickInv, OrderStepInv, BeginInv, AbortInv DEF Next

\* The invariant on which the theorems below rest: besides what they state,
\* what each transaction has locked, what it has read of it, and which of the
\* subscriptions it knows are still to be passed.
THEOREM Invariance == Spec => []IInv
<1> QED BY InitInv, NextInv, PTL DEF Spec

\* Every variable keeps its type.
THEOREM TypeCorrect == Spec => []TypeOK
<1>1. IInv => TypeOK
  BY DEF IInv
<1> QED BY <1>1, Invariance, PTL

\* However often an order is reported, it grants one subscription, and a
\* refund cancels it.
THEOREM GrantedOnce == Spec => []OrderGrantsOnce
<1>1. IInv => OrderGrantsOnce
  BY DEF IInv
<1> QED BY <1>1, Invariance, PTL

\* No reserve or refund is lost, and none takes more than there is.
THEOREM UsageIsPosted == Spec => []UsageMatchesLedger
<1>1. IInv => UsageMatchesLedger
  BY DEF IInv
<1> QED BY <1>1, Invariance, PTL

\* A generation that reserved from one subscription is not refunded twice.
THEOREM NoDoubleRefund == Spec => []RefundsFitReserves
<1>1. IInv => RefundsFitReserves
  BY DEF IInv
<1> QED BY <1>1, Invariance, PTL

\* What is bought later runs later, or replaces what ran.
THEOREM Queued == Spec => []RunsQueueUp
<1>1. IInv => RunsQueueUp
  BY DEF IInv
<1> QED BY <1>1, Invariance, PTL

-----------------------------------------------------------------------------
(* The refinement of PaymentOrder.                                         *)

StatusMap == [o \in Orders |-> order[o].status]
GrantMap == [o \in Orders |-> GrantOf(o)]

LEMMA MapOf ==
  /\ PaymentOrders!vars = <<StatusMap, GrantMap>>
  /\ PaymentOrders!vars' = <<StatusMap', GrantMap'>>
<1> QED BY DEF PaymentOrders!vars, StatusMap, GrantMap

LEMMA SameGrants ==
  ASSUME \A s \in Subs : sub'[s].status = sub[s].status /\ sub'[s].order = sub[s].order
  PROVE  GrantMap' = GrantMap
<1>1. \A o : Granted(o)' = Granted(o)
  BY DEF Granted, Existing
<1>2. ASSUME NEW o \in Orders PROVE GrantOf(o)' = GrantOf(o)
  <2>1. Granted(o) \subseteq Subs
    BY DEF Granted, Existing
  <2> QED BY <1>1, <2>1 DEF GrantOf
<1> QED BY <1>2 DEF GrantMap

\* Nothing that PaymentOrder knows of changes.
LEMMA StutterOf ==
  ASSUME \A o \in Orders : order'[o].status = order[o].status,
         \A s \in Subs : sub'[s].status = sub[s].status /\ sub'[s].order = sub[s].order
  PROVE  UNCHANGED PaymentOrders!vars
<1>1. StatusMap' = StatusMap
  BY DEF StatusMap
<1> QED BY <1>1, SameGrants, MapOf

LEMMA StatusOf ==
  ASSUME NEW o \in Orders, \A p \in Orders \ {o} : order'[p].status = order[p].status
  PROVE  StatusMap' = [StatusMap EXCEPT ![o] = order'[o].status]
<1> QED BY DEF StatusMap

LEMMA PlaceOf ==
  ASSUME NEW o \in Orders, order[o].status = "none", order'[o].status = "pending",
         \A p \in Orders \ {o} : order'[p].status = order[p].status,
         GrantMap' = GrantMap
  PROVE  PaymentOrders!Next
<1>1. PaymentOrders!Place(o)
  BY StatusOf DEF PaymentOrders!Place, StatusMap, GrantMap
<1> QED BY <1>1 DEF PaymentOrders!Next

LEMMA CloseOf ==
  ASSUME NEW o \in Orders,
         \/ order[o].status = "pending" /\ order'[o].status = "failed"
         \/ order[o].status \in {"pending", "failed"} /\ order'[o].status = "cancelled",
         \A p \in Orders \ {o} : order'[p].status = order[p].status,
         GrantMap' = GrantMap
  PROVE  PaymentOrders!Next
<1>1. PaymentOrders!Close(o)
  BY StatusOf DEF PaymentOrders!Close, StatusMap, GrantMap
<1> QED BY <1>1 DEF PaymentOrders!Next

LEMMA OrderStepRefines ==
  ASSUME IInv, NEW o \in Orders, Fail(o) \/ CancelOrder(o) \/ RefundOrder(o)
  PROVE  PaymentOrders!Next
<1>0. TypeOK /\ OrderGrantsOnce
  BY DEF IInv
<1>1. \A p \in Orders \ {o} : order'[p].status = order[p].status
  BY <1>0 DEF Fail, CancelOrder, RefundOrder, SetStatus, TypeOK
<1>2. CASE Fail(o) \/ CancelOrder(o)
  <2>1. UNCHANGED sub
    BY <1>2 DEF Fail, CancelOrder
  <2>2. \/ order[o].status = "pending" /\ order'[o].status = "failed"
        \/ order[o].status \in {"pending", "failed"} /\ order'[o].status = "cancelled"
    BY <1>0, <1>2 DEF Fail, CancelOrder, SetStatus, TypeOK, Order
  <2> QED BY <1>1, <2>1, <2>2, SameGrants, CloseOf
<1>3. CASE RefundOrder(o)
  <2>1. order[o].status = "completed" /\ order'[o].status = "refunded"
    BY <1>0, <1>3 DEF RefundOrder, SetStatus, TypeOK, Order
  <2>2. sub' = [s \in Subs |-> IF s \in Granted(o) THEN Cancelled(s) ELSE sub[s]]
    BY <1>3 DEF RefundOrder
  <2>3. \A s \in Subs : sub[s] \in Sub
    BY <1>0 DEF TypeOK
  <2>4. \A s \in Subs : Cancelled(s).status = "cancelled" /\ Cancelled(s).order = sub[s].order
    BY <2>3 DEF Cancelled, Sub
  <2>5. \A p : Granted(p) \subseteq Subs
    BY DEF Granted, Existing
  <2>6. \A s \in Subs : sub'[s].order = sub[s].order
    BY <2>2, <2>4
  <2>7. \A s \in Subs : sub'[s].status = "none" <=> sub[s].status = "none"
    BY <2>2, <2>4 DEF Granted, Existing
  <2>8. \A p : Granted(p)' = Granted(p)
    BY <2>6, <2>7 DEF Granted, Existing
  <2>9. GrantOf(o)' = "taken"
    <3>1. Granted(o) # {}
      BY <1>0, <2>1 DEF OrderGrantsOnce
    <3>2. \A s \in Granted(o) : sub'[s].status = "cancelled"
      BY <2>2, <2>4, <2>5
    <3> QED BY <2>8, <3>1, <3>2 DEF GrantOf
  <2>10. ASSUME NEW p \in Orders \ {o} PROVE GrantOf(p)' = GrantOf(p)
    <3>1. \A s \in Granted(p) : s \notin Granted(o)
      BY <2>10 DEF Granted
    <3>2. \A s \in Granted(p) : sub'[s] = sub[s]
      BY <2>2, <2>5, <3>1
    <3> QED BY <2>8, <3>2 DEF GrantOf
  <2>11. GrantMap' = [GrantMap EXCEPT ![o] = "taken"]
    BY <2>9, <2>10 DEF GrantMap
  <2>12. PaymentOrders!Refund(o)
    BY <1>1, <2>1, <2>11, StatusOf DEF PaymentOrders!Refund, StatusMap, GrantMap
  <2> QED BY <2>12 DEF PaymentOrders!Next
<1> QED BY <1>2, <1>3

LEMMA PriceRefines ==
  ASSUME IInv, NEW t \in Txs, Price(t)
  PROVE  PaymentOrders!Next \/ UNCHANGED PaymentOrders!vars
<1>0. TypeOK /\ UNCHANGED sub
  BY DEF IInv, Price
<1>1. CASE UNCHANGED order
  BY <1>0, <1>1, StutterOf
<1>2. ASSUME NEW action, NEW credits, Inserted(t, action, credits)
      PROVE  PaymentOrders!Next
  <2>1. PICK o \in Orders :
          /\ order[o].status = "none"
          /\ order' = [order EXCEPT ![o] = [status |-> "pending", action |-> action,
                                            pkg |-> tx[t].pkg, credits |-> credits]]
    BY <1>2 DEF Inserted
  <2>2. /\ order'[o].status = "pending"
        /\ \A p \in Orders \ {o} : order'[p].status = order[p].status
    BY <1>0, <2>1 DEF TypeOK
  <2> QED BY <1>0, <2>1, <2>2, SameGrants, PlaceOf
<1>3. \/ UNCHANGED order
      \/ \E action, credits : Inserted(t, action, credits)
  BY DEF Price
<1> QED BY <1>1, <1>2, <1>3

LEMMA GrantRefines ==
  ASSUME IInv, NEW t \in Txs, Grant(t)
  PROVE  PaymentOrders!Next
<1>0. TypeOK /\ LockedBy(t) /\ tx[t].pc = "grant"
  BY DEF IInv, Grant, At
<1>1. PICK o \in Orders : o = tx[t].order /\ order[o].status = "pending"
  BY <1>0 DEF LockedBy
<1>2. PICK new \in Subs \ Existing :
        sub' = [s \in Subs |->
                 IF s = new THEN Activated(t)
                 ELSE IF s \in tx[t].sees /\ Runs(s)
                      THEN [sub[s] EXCEPT !.status = "upgraded"]
                 ELSE sub[s]]
  BY DEF Grant
<1>3. /\ order'[o].status = "completed"
      /\ \A p \in Orders \ {o} : order'[p].status = order[p].status
  BY <1>0, <1>1 DEF Grant, SetStatus, TypeOK, Order
<1>4. sub'[new].status = "active" /\ sub'[new].order = o
  BY <1>1, <1>2 DEF Activated, Row
<1>5. ASSUME NEW s \in Subs, s # new
      PROVE  /\ sub'[s].order = sub[s].order
             /\ \/ sub'[s].status = sub[s].status
                \/ sub[s].status = "active" /\ sub'[s].status = "upgraded"
  <2>1. sub[s] \in Sub
    BY <1>0 DEF TypeOK
  <2>2. CASE s \in tx[t].sees /\ Runs(s)
    <3>1. sub'[s] = [sub[s] EXCEPT !.status = "upgraded"] /\ sub[s].status = "active"
      BY <1>2, <1>5, <2>2 DEF Runs
    <3> QED BY <2>1, <3>1 DEF Sub
  <2>3. CASE ~(s \in tx[t].sees /\ Runs(s))
    <3>1. sub'[s] = sub[s]
      BY <1>2, <1>5, <2>3
    <3> QED BY <3>1
  <2> QED BY <2>2, <2>3
<1>6. GrantOf(o)' = "given"
  <2>1. new \in Granted(o)'
    BY <1>4 DEF Granted, Existing
  <2> QED BY <1>4, <2>1 DEF GrantOf
<1>7. ASSUME NEW p \in Orders \ {o}
      PROVE  \/ GrantOf(p)' = GrantOf(p)
             \/ GrantOf(p) = "given" /\ GrantOf(p)' = "replaced"
  <2>1. Granted(p)' = Granted(p)
    BY <1>2, <1>4, <1>5 DEF Granted, Existing
  <2>2. Granted(p) \subseteq Subs /\ new \notin Granted(p)
    BY <1>2 DEF Granted, Existing
  <2>3. \A s \in Granted(p) : \/ sub'[s].status = sub[s].status
                              \/ sub[s].status = "active" /\ sub'[s].status = "upgraded"
    BY <1>5, <2>2
  <2>4. CASE \E s \in Granted(p) : sub[s].status = "active"
    BY <2>1, <2>3, <2>4 DEF GrantOf
  <2>5. CASE ~ \E s \in Granted(p) : sub[s].status = "active"
    <3>1. \A s \in Granted(p) : sub'[s].status = sub[s].status
      BY <2>3, <2>5
    <3> QED BY <2>1, <3>1 DEF GrantOf
  <2> QED BY <2>4, <2>5
<1> DEFINE Replaced == {p \in Orders \ {o} : GrantOf(p)' # GrantOf(p)}
<1>8. Replaced \in SUBSET {p \in Orders : GrantMap[p] = "given"}
  BY <1>7 DEF GrantMap
<1>9. GrantMap' = [p \in Orders |-> IF p = o THEN "given"
                                    ELSE IF p \in Replaced THEN "replaced" ELSE GrantMap[p]]
  BY <1>6, <1>7 DEF GrantMap
<1>10. StatusMap[o] = "pending" /\ StatusMap' = [StatusMap EXCEPT ![o] = "completed"]
  BY <1>1, <1>3, StatusOf DEF StatusMap
<1>11. PaymentOrders!Complete(o)
  <2> HIDE DEF Replaced
  <2> QED BY <1>8, <1>9, <1>10 DEF PaymentOrders!Complete, StatusMap, GrantMap
<1> QED BY <1>1, <1>11 DEF PaymentOrders!Next

LEMMA UseRefines ==
  ASSUME IInv, NEW t \in Txs, Spend(t) \/ Refund(t)
  PROVE  UNCHANGED PaymentOrders!vars
<1>0. TypeOK /\ UNCHANGED order
  BY DEF IInv, Spend, Refund
<1>1. \A s \in Subs : sub[s] \in Sub
  BY <1>0 DEF TypeOK
<1>2. \A s \in Subs : sub'[s].status = sub[s].status /\ sub'[s].order = sub[s].order
  BY <1>0, <1>1 DEF Spend, Refund, TypeOK, Sub
<1> QED BY <1>0, <1>2, StutterOf

LEMMA InitRefines == Init => PaymentOrders!Init
<1> SUFFICES ASSUME Init PROVE PaymentOrders!Init
  OBVIOUS
<1>1. \A o \in Orders : order[o].status = "none"
  BY DEF Init, NoOrder
<1>2. Existing = {}
  BY DEF Init, NoSub, Existing
<1>3. \A o \in Orders : GrantOf(o) = "none"
  BY <1>2 DEF GrantOf, Granted
<1> QED BY <1>1, <1>3 DEF PaymentOrders!Init

LEMMA NextRefines ==
  ASSUME IInv, [Next]_vars
  PROVE  [PaymentOrders!Next]_(PaymentOrders!vars)
<1>1. CASE UNCHANGED <<order, sub>>
  BY <1>1, StutterOf
<1>2. ASSUME NEW t \in Txs, Go(t)
      PROVE  PaymentOrders!Next \/ UNCHANGED PaymentOrders!vars
  <2>1. CASE LockOrder(t) \/ TakeLatest(t) \/ Find(t) \/ LockRefund(t)
    BY <1>1, <2>1 DEF LockOrder, TakeLatest, Find, LockRefund
  <2> QED BY <1>2, <2>1, PriceRefines, GrantRefines, UseRefines DEF Go
<1>3. ASSUME NEW t \in Txs, Begin(t) \/ Abort(t)
      PROVE  UNCHANGED <<order, sub>>
  BY <1>3 DEF Begin, BeginCreate, Report, BeginReserve, BeginRefund, Abort
<1>4. CASE Tick \/ UNCHANGED vars
  BY <1>1, <1>4 DEF Tick, vars
<1> QED BY <1>1, <1>2, <1>3, <1>4, OrderStepRefines DEF Next

\* The transactions on orders and subscriptions implement PaymentOrder: every
\* step is one of its steps or changes nothing it knows of, for any number of
\* orders, subscriptions and transactions.
THEOREM OrdersRefined == Spec => ImplementsPaymentOrder
<1> QED BY InitRefines, NextRefines, Invariance, PTL
        DEF Spec, ImplementsPaymentOrder, PaymentOrders!Spec

-----------------------------------------------------------------------------
(***************************************************************************)
(* PaymentFlow.  Both results rest on who has locked the row of an order:  *)
(* the transaction that has looked at its status and is about to write, so *)
(* that the status cannot change in between.                               *)
(***************************************************************************)

\* A transaction that has looked at its order holds it, and what it saw is still so.
LookIsGood ==
  \A t \in PayTxs :
    /\ payTx[t].pc # "idle" => /\ payTx[t].order \in PayOrders
                               /\ payOrder[payTx[t].order].status # "none"
    /\ payTx[t].pc = "grant" => /\ payHolder[payTx[t].order] = t
                                /\ payOrder[payTx[t].order].status = "pending"
    /\ payTx[t].pc = "take"  => /\ payHolder[payTx[t].order] = t
                                /\ payOrder[payTx[t].order].status = "completed"

\* An order has no status before it is inserted.
InsertIsFirst ==
  \A o \in PayOrders : checkout[o] \in {"none", "insert"} => payOrder[o].status = "none"

\* A commission has the entries of its status.
CommissionFits ==
  \A o \in PayOrders :
    /\ commission[o].status = "none" => commission[o].reward = 0 /\ commission[o].reversal = 0
    /\ commission[o].status = "settled" => commission[o].reward = 1 /\ commission[o].reversal = 0
    /\ commission[o].status = "reversed" => commission[o].reward = 1 /\ commission[o].reversal = 1

PInv == /\ PaymentFlowTypeOK /\ LookIsGood /\ InsertIsFirst /\ CommissionFits
        /\ MoneyFollowsOrders

\* The order as PaymentOrder sees it: what it has granted are its credits.
GrantSeen(o) ==
  CASE payOrder[o].status = "completed" -> "given"
    [] payOrder[o].status = "refunded"  -> "taken"
    [] OTHER                            -> "none"

CreditOrders == INSTANCE PaymentOrder
  WITH Orders <- PayOrders,
       status <- [o \in PayOrders |-> payOrder[o].status],
       grant  <- [o \in PayOrders |-> GrantSeen(o)]

\* An order of credits, too, goes through what PaymentOrder allows.
ImplementsOrdersOfCredits == CreditOrders!Spec

-----------------------------------------------------------------------------

\* Orders that get another status keep the rest.
LEMMA StatusSet ==
  ASSUME PaymentFlowTypeOK, NEW o \in PayOrders, NEW s \in PayStatus, SetPayStatus(o, s)
  PROVE  /\ payOrder' \in [PayOrders -> [status: PayStatus, shown: BOOLEAN,
                                         channel: Channels \cup {ByHand, NoPay}]]
         /\ payOrder'[o].status = s
         /\ \A p \in PayOrders : p # o => payOrder'[p] = payOrder[p]
<1> DEFINE r == [payOrder[o] EXCEPT !.status = s]
<1>1. r \in [status: PayStatus, shown: BOOLEAN, channel: Channels \cup {ByHand, NoPay}]
      /\ r.status = s
  BY DEF PaymentFlowTypeOK
<1>2. payOrder' = [payOrder EXCEPT ![o] = r]
  BY DEF SetPayStatus, PaymentFlowTypeOK
<1> HIDE DEF r
<1> QED BY <1>1, <1>2 DEF PaymentFlowTypeOK

\* A step that leaves the status of every order and the transactions alone keeps
\* what the invariant says of them.
LEMMA OrdersStay ==
  ASSUME PInv, \A o \in PayOrders : payOrder'[o].status = payOrder[o].status,
         UNCHANGED moneyVars
  PROVE  LookIsGood' /\ CommissionFits' /\ MoneyFollowsOrders'
<1> USE DEF PInv, moneyVars
<1>1. LookIsGood' BY DEF LookIsGood
<1>2. CommissionFits' BY DEF CommissionFits
<1>3. MoneyFollowsOrders' BY DEF MoneyFollowsOrders, PayStatusIs
<1> QED BY <1>1, <1>2, <1>3

\* An order that nobody holds and that is not yet completed may change to another
\* status before completion.
LEMMA FreeOrderMoves ==
  ASSUME PInv, NEW o \in PayOrders, NEW s \in {"pending", "failed", "cancelled"},
         SetPayStatus(o, s), UNCHANGED moneyVars,
         payOrder[o].status \in {"none", "pending", "failed"},
         OrderIsFree(o) \/ payOrder[o].status = "none"
  PROVE  LookIsGood' /\ CommissionFits' /\ MoneyFollowsOrders'
<1> USE DEF PInv, moneyVars
<1>1. /\ payOrder'[o].status = s
      /\ \A p \in PayOrders : p # o => payOrder'[p] = payOrder[p]
  BY StatusSet DEF PayStatus
<1>2. LookIsGood'
  <2> SUFFICES ASSUME NEW t \in PayTxs
               PROVE  /\ payTx[t].pc # "idle" =>
                           /\ payTx[t].order \in PayOrders
                           /\ payOrder'[payTx[t].order].status # "none"
                      /\ payTx[t].pc = "grant" =>
                           /\ payHolder[payTx[t].order] = t
                           /\ payOrder'[payTx[t].order].status = "pending"
                      /\ payTx[t].pc = "take" =>
                           /\ payHolder[payTx[t].order] = t
                           /\ payOrder'[payTx[t].order].status = "completed"
    BY DEF LookIsGood
  <2>1. payTx[t].pc \in {"grant", "take"} => payTx[t].order # o
    BY PaymentFlowAssumption DEF LookIsGood, OrderIsFree
  <2> QED BY <1>1, <2>1 DEF LookIsGood
<1>3. CommissionFits' BY DEF CommissionFits
<1>4. MoneyFollowsOrders' BY <1>1 DEF MoneyFollowsOrders, PayStatusIs
<1> QED BY <1>2, <1>3, <1>4

\* The end of a transaction frees its orders and no other.
LEMMA PayTxEnded ==
  ASSUME PaymentFlowTypeOK, NEW t \in PayTxs, PayTxEnds(t)
  PROVE  /\ payTx' \in [PayTxs -> [pc: {"idle", "complete", "grant", "refund", "take"},
                                   order: PayOrders \cup {NoPay}, share: BOOLEAN]]
         /\ payHolder' \in [PayOrders -> PayTxs \cup {NoPay}]
         /\ payTx'[t].pc = "idle"
         /\ \A u \in PayTxs : u # t => payTx'[u] = payTx[u]
         /\ \A o \in PayOrders : payHolder[o] # t => payHolder'[o] = payHolder[o]
<1>1. NoPayTx \in [pc: {"idle", "complete", "grant", "refund", "take"},
                   order: PayOrders \cup {NoPay}, share: BOOLEAN] /\ NoPayTx.pc = "idle"
  BY DEF NoPayTx
<1> QED BY <1>1 DEF PaymentFlowTypeOK, PayTxEnds

-----------------------------------------------------------------------------

\* Before the first order there is nothing to follow.
THEOREM PaymentsBegin == PaymentFlowInit => PInv
<1> SUFFICES ASSUME PaymentFlowInit PROVE PInv OBVIOUS
<1>1. PaymentFlowTypeOK
  BY DEF PaymentFlowInit, PaymentFlowTypeOK, PayStatus, CheckoutStep, NoPayTx
<1>2. LookIsGood BY DEF PaymentFlowInit, LookIsGood, NoPayTx
<1>3. InsertIsFirst /\ CommissionFits /\ MoneyFollowsOrders
  BY DEF PaymentFlowInit, InsertIsFirst, CommissionFits, MoneyFollowsOrders, PayStatusIs
<1> QED BY <1>1, <1>2, <1>3 DEF PInv

\* The channels leave the orders alone.
LEMMA ChannelStep ==
  ASSUME PInv, NEW c \in Channels,
         \/ CreateChannel(c) \/ EnableChannel(c) \/ EditChannel(c)
         \/ \E edit \in {"off", "gone"} : CheckChannel(c, edit)
  PROVE  PInv'
<1>1. UNCHANGED <<payOrder, checkout, gateway, moneyVars>>
  BY DEF CreateChannel, EnableChannel, EditChannel, CheckChannel
<1>2. /\ channel' \in [Channels -> {"none", "on", "off", "gone"}]
      /\ channelEdit' \in [Channels -> {"none", "off", "gone"}]
  <2> USE DEF PInv, PaymentFlowTypeOK
  <2>1. CASE CreateChannel(c) BY <2>1 DEF CreateChannel
  <2>2. CASE EnableChannel(c) BY <2>2 DEF EnableChannel
  <2>3. CASE EditChannel(c) BY <2>3 DEF EditChannel
  <2>4. CASE \E edit \in {"off", "gone"} : CheckChannel(c, edit)
    BY <2>4 DEF CheckChannel
  <2> QED BY <2>1, <2>2, <2>3, <2>4
<1>3. PaymentFlowTypeOK'
  BY <1>1, <1>2 DEF PInv, PaymentFlowTypeOK, moneyVars
<1>4. LookIsGood' /\ CommissionFits' /\ MoneyFollowsOrders' BY <1>1, OrdersStay
<1>5. InsertIsFirst' BY <1>1 DEF PInv, InsertIsFirst
<1> QED BY <1>3, <1>4, <1>5 DEF PInv

\* The checkout, the payment and the cancellation of an order.
LEMMA CheckoutStepKeeps ==
  ASSUME PInv, NEW o \in PayOrders,
         \/ ChooseChannel(o) \/ InsertPayOrder(o) \/ AskGateway(o) \/ AttachPayment(o)
         \/ MarkOrderFailed(o) \/ CheckoutDies(o) \/ Pay(o) \/ CancelPayOrder(o)
  PROVE  PInv'
<1>1. CASE ChooseChannel(o)
  <2>1. PICK c \in {ByHand} \cup Channels : payOrder' = [payOrder EXCEPT ![o].channel = c]
    BY <1>1 DEF ChooseChannel
  <2>2. checkout[o] = "none" /\ checkout' = [checkout EXCEPT ![o] = "insert"]
        /\ UNCHANGED <<channelVars, gateway, moneyVars>>
    BY <1>1 DEF ChooseChannel
  <2>3. \A p \in PayOrders : payOrder'[p].status = payOrder[p].status
    BY <2>1 DEF PInv, PaymentFlowTypeOK
  <2>a. [payOrder[o] EXCEPT !.channel = c] \in
          [status: PayStatus, shown: BOOLEAN, channel: Channels \cup {ByHand, NoPay}]
    <3>1. payOrder[o] \in [status: PayStatus, shown: BOOLEAN,
                           channel: Channels \cup {ByHand, NoPay}]
      BY DEF PInv, PaymentFlowTypeOK
    <3> QED BY <3>1
  <2>4. PaymentFlowTypeOK'
    BY <2>1, <2>2, <2>a DEF PInv, PaymentFlowTypeOK, CheckoutStep, channelVars, moneyVars
  <2>5. InsertIsFirst' BY <2>2, <2>3 DEF PInv, PaymentFlowTypeOK, InsertIsFirst
  <2> QED BY <2>2, <2>3, <2>4, <2>5, OrdersStay DEF PInv
<1>2. CASE InsertPayOrder(o)
  <2>1. payOrder[o].status = "none" /\ SetPayStatus(o, "pending")
        /\ UNCHANGED <<channelVars, gateway, moneyVars>>
    BY <1>2 DEF InsertPayOrder, PInv, InsertIsFirst
  <2>2. checkout' \in [PayOrders -> CheckoutStep] /\ checkout'[o] \in {"over", "ask"}
        /\ \A p \in PayOrders : p # o => checkout'[p] = checkout[p]
    BY <1>2 DEF InsertPayOrder, PInv, PaymentFlowTypeOK, CheckoutStep
  <2>3. PaymentFlowTypeOK'
    BY <2>1, <2>2, StatusSet DEF PInv, PaymentFlowTypeOK, PayStatus, channelVars, moneyVars
  <2>4. InsertIsFirst'
    BY <2>1, <2>2, StatusSet DEF PInv, InsertIsFirst, PayStatus
  <2> QED BY <2>1, <2>3, <2>4, FreeOrderMoves DEF PInv
<1>3. CASE AskGateway(o) \/ CheckoutDies(o)
  <2>1. /\ checkout[o] \in {"insert", "ask", "attach", "fail"}
        /\ checkout' \in [PayOrders -> CheckoutStep] /\ checkout'[o] \in {"attach", "fail", "over"}
        /\ \A p \in PayOrders : p # o => checkout'[p] = checkout[p]
        /\ gateway' \in [PayOrders -> {"none", "open", "paid"}]
    <3> USE DEF PInv, PaymentFlowTypeOK, CheckoutStep
    <3>1. CASE CheckoutDies(o) BY <3>1 DEF CheckoutDies
    <3>2. CASE AskGateway(o)
      <4>1. gateway' = gateway \/ gateway' = [gateway EXCEPT ![o] = "open"]
        BY <3>2 DEF AskGateway
      <4>2. checkout[o] = "ask" BY <3>2 DEF AskGateway
      <4>3. checkout' \in [PayOrders -> CheckoutStep] /\ checkout'[o] \in {"attach", "fail", "over"}
            /\ \A p \in PayOrders : p # o => checkout'[p] = checkout[p]
        <5>1. \E next \in {"attach", "fail"} : checkout' = [checkout EXCEPT ![o] = next]
          BY <3>2 DEF AskGateway
        <5> QED BY <5>1
      <4> QED BY <4>1, <4>2, <4>3
    <3> QED BY <1>3, <3>1, <3>2
  <2>2. UNCHANGED <<payOrder, channelVars, moneyVars>>
    BY <1>3 DEF AskGateway, CheckoutDies
  <2>3. PaymentFlowTypeOK'
    BY <2>1, <2>2 DEF PInv, PaymentFlowTypeOK, channelVars, moneyVars
  <2>4. InsertIsFirst' BY <2>1, <2>2 DEF PInv, InsertIsFirst
  <2> QED BY <2>2, <2>3, <2>4, OrdersStay DEF PInv
<1>4. CASE AttachPayment(o)
  <2>1. payOrder' = [payOrder EXCEPT ![o].shown = PayStatusIs(o, {"pending"})]
        /\ checkout' = [checkout EXCEPT ![o] = "over"]
        /\ UNCHANGED <<channelVars, gateway, moneyVars>>
    BY <1>4 DEF AttachPayment
  <2>2. PayStatusIs(o, {"pending"}) \in BOOLEAN BY DEF PayStatusIs
  <2>3. \A p \in PayOrders : payOrder'[p].status = payOrder[p].status
    BY <2>1 DEF PInv, PaymentFlowTypeOK
  <2>a. [payOrder[o] EXCEPT !.shown = PayStatusIs(o, {"pending"})] \in
          [status: PayStatus, shown: BOOLEAN, channel: Channels \cup {ByHand, NoPay}]
    BY <2>2 DEF PInv, PaymentFlowTypeOK
  <2>4. PaymentFlowTypeOK'
    BY <2>1, <2>2, <2>a DEF PInv, PaymentFlowTypeOK, CheckoutStep, channelVars, moneyVars
  <2>5. InsertIsFirst' BY <2>1, <2>3 DEF PInv, PaymentFlowTypeOK, InsertIsFirst
  <2> QED BY <2>1, <2>3, <2>4, <2>5, OrdersStay DEF PInv
<1>5. CASE MarkOrderFailed(o)
  <2>1. /\ SetPayStatus(o, IF PayStatusIs(o, {"pending"}) THEN "failed" ELSE payOrder[o].status)
        /\ OrderIsFree(o) /\ checkout' = [checkout EXCEPT ![o] = "over"]
        /\ UNCHANGED <<channelVars, gateway, moneyVars>>
    BY <1>5 DEF MarkOrderFailed
  <2>2. payOrder[o].status \in PayStatus BY DEF PInv, PaymentFlowTypeOK
  <2>3. CASE payOrder[o].status = "pending"
    <3>1. SetPayStatus(o, "failed") BY <2>1, <2>3 DEF PayStatusIs
    <3>2. PaymentFlowTypeOK'
      BY <2>1, <3>1, StatusSet
         DEF PInv, PaymentFlowTypeOK, PayStatus, CheckoutStep, channelVars, moneyVars
    <3>3. InsertIsFirst'
      BY <2>1, <3>1, StatusSet DEF PInv, PaymentFlowTypeOK, InsertIsFirst, PayStatus
    <3> QED BY <2>1, <2>3, <3>1, <3>2, <3>3, FreeOrderMoves DEF PInv
  <2>4. CASE payOrder[o].status # "pending"
    <3>1. SetPayStatus(o, payOrder[o].status) BY <2>1, <2>4 DEF PayStatusIs
    <3>2. \A p \in PayOrders : payOrder'[p].status = payOrder[p].status
      BY <2>2, <3>1, StatusSet DEF PInv
    <3>3. PaymentFlowTypeOK'
      BY <2>1, <2>2, <3>1, StatusSet
         DEF PInv, PaymentFlowTypeOK, CheckoutStep, channelVars, moneyVars
    <3>4. InsertIsFirst' BY <2>1, <3>2 DEF PInv, PaymentFlowTypeOK, InsertIsFirst
    <3> QED BY <2>1, <3>2, <3>3, <3>4, OrdersStay DEF PInv
  <2> QED BY <2>3, <2>4
<1>6. CASE Pay(o)
  <2>1. gateway' = [gateway EXCEPT ![o] = "paid"]
        /\ UNCHANGED <<payOrder, channelVars, checkout, moneyVars>>
    BY <1>6 DEF Pay
  <2>2. PaymentFlowTypeOK' BY <2>1 DEF PInv, PaymentFlowTypeOK, channelVars, moneyVars
  <2>3. InsertIsFirst' BY <2>1 DEF PInv, InsertIsFirst
  <2> QED BY <2>1, <2>2, <2>3, OrdersStay DEF PInv
<1>7. CASE CancelPayOrder(o)
  <2>1. /\ OrderIsFree(o) /\ payOrder[o].status \in {"pending", "failed"}
        /\ SetPayStatus(o, "cancelled") /\ UNCHANGED <<channelVars, checkout, gateway, moneyVars>>
    BY <1>7 DEF CancelPayOrder, PayStatusIs
  <2>2. PaymentFlowTypeOK'
    BY <2>1, StatusSet DEF PInv, PaymentFlowTypeOK, PayStatus, channelVars, moneyVars
  <2>3. InsertIsFirst' BY <2>1, StatusSet DEF PInv, InsertIsFirst, PayStatus
  <2> QED BY <2>1, <2>2, <2>3, FreeOrderMoves DEF PInv
<1> QED BY <1>1, <1>2, <1>3, <1>4, <1>5, <1>6, <1>7

\* A transaction begins, locks its order or ends without a change: the orders stay.
LEMMA TransactionStep ==
  ASSUME PInv, NEW t \in PayTxs,
         \/ \E o \in PayOrders : \/ Notify(t, o) \/ AdminRefund(t, o)
                                 \/ \E share \in BOOLEAN : AdminComplete(t, o, share)
         \/ LockPayOrder(t) \/ AbortPayTx(t)
  PROVE  PInv'
<1>1. UNCHANGED <<payOrder, channel, channelEdit, checkout, gateway, entries, commission>>
  BY DEF Notify, AdminRefund, AdminComplete, BeginPayTx, LockPayOrder, AbortPayTx, channelVars
<1>2. InsertIsFirst' /\ CommissionFits' /\ MoneyFollowsOrders'
  BY <1>1 DEF PInv, InsertIsFirst, CommissionFits, MoneyFollowsOrders, PayStatusIs
<1>3. ASSUME NEW o \in PayOrders, NEW pc \in {"complete", "refund"}, NEW share \in BOOLEAN,
             BeginPayTx(t, pc, o, share)
      PROVE  PaymentFlowTypeOK' /\ LookIsGood'
  <2> DEFINE r == [pc |-> pc, order |-> o, share |-> share]
  <2>1. r \in [pc: {"idle", "complete", "grant", "refund", "take"},
                order: PayOrders \cup {NoPay}, share: BOOLEAN]
        /\ r.order = o /\ r.pc \notin {"grant", "take"}
    OBVIOUS
  <2>2. payTx' = [payTx EXCEPT ![t] = r] /\ payHolder' = payHolder
        /\ payOrder[o].status # "none"
    BY <1>3 DEF BeginPayTx
  <2> HIDE DEF r
  <2>3. PaymentFlowTypeOK' BY <1>1, <2>1, <2>2 DEF PInv, PaymentFlowTypeOK
  <2>4. LookIsGood' BY <1>1, <2>1, <2>2 DEF PInv, PaymentFlowTypeOK, LookIsGood
  <2> QED BY <2>3, <2>4
<1>4. CASE LockPayOrder(t)
  <2>1. PICK o \in PayOrders : o = payTx[t].order
    BY <1>4 DEF PInv, LookIsGood, LockPayOrder
  <2>2. CASE /\ payTx' = [payTx EXCEPT ![t] = NoPayTx]
             /\ UNCHANGED payHolder
    <3>1. NoPayTx \in [pc: {"idle", "complete", "grant", "refund", "take"},
                       order: PayOrders \cup {NoPay}, share: BOOLEAN] /\ NoPayTx.pc = "idle"
      BY DEF NoPayTx
    <3>2. PaymentFlowTypeOK' BY <1>1, <2>2, <3>1 DEF PInv, PaymentFlowTypeOK
    <3>3. LookIsGood' BY <1>1, <2>2, <3>1 DEF PInv, PaymentFlowTypeOK, LookIsGood
    <3> QED BY <1>2, <3>2, <3>3 DEF PInv
  <2>3. CASE /\ payTx[t].pc = "complete" /\ payTx' = [payTx EXCEPT ![t].pc = "grant"]
             /\ payHolder' = [payHolder EXCEPT ![o] = t] /\ payOrder[o].status = "pending"
             /\ OrderIsFree(o)
    <3>1. PaymentFlowTypeOK'
      <4> DEFINE row == [pc: {"idle", "complete", "grant", "refund", "take"},
                         order: PayOrders \cup {NoPay}, share: BOOLEAN]
                 r == [payTx[t] EXCEPT !.pc = "grant"]
      <4>1. payTx \in [PayTxs -> row] /\ payHolder \in [PayOrders -> PayTxs \cup {NoPay}]
        BY DEF PInv, PaymentFlowTypeOK
      <4>2. payTx[t] \in row BY <4>1
      <4>3. r \in row BY <4>2
      <4>4. payTx' = [payTx EXCEPT ![t] = r] BY <2>3
      <4> HIDE DEF r, row
      <4>5. payTx' \in [PayTxs -> row] BY <4>1, <4>3, <4>4
      <4>6. payHolder' \in [PayOrders -> PayTxs \cup {NoPay}] BY <2>3, <4>1
      <4> QED BY <1>1, <4>5, <4>6 DEF PInv, PaymentFlowTypeOK, row
    <3>2. \A u \in PayTxs : payTx[u].pc \in {"grant", "take"} => payTx[u].order # o
      BY <2>3, PaymentFlowAssumption DEF PInv, LookIsGood, OrderIsFree
    <3>3. LookIsGood' BY <1>1, <2>1, <2>3, <3>2 DEF PInv, PaymentFlowTypeOK, LookIsGood
    <3> QED BY <1>2, <3>1, <3>3 DEF PInv
  <2>4. CASE /\ payTx[t].pc = "refund" /\ payTx' = [payTx EXCEPT ![t].pc = "take"]
             /\ payHolder' = [payHolder EXCEPT ![o] = t] /\ payOrder[o].status = "completed"
             /\ OrderIsFree(o)
    <3>1. PaymentFlowTypeOK'
      <4> DEFINE row == [pc: {"idle", "complete", "grant", "refund", "take"},
                         order: PayOrders \cup {NoPay}, share: BOOLEAN]
                 r == [payTx[t] EXCEPT !.pc = "take"]
      <4>1. payTx \in [PayTxs -> row] /\ payHolder \in [PayOrders -> PayTxs \cup {NoPay}]
        BY DEF PInv, PaymentFlowTypeOK
      <4>2. payTx[t] \in row BY <4>1
      <4>3. r \in row BY <4>2
      <4>4. payTx' = [payTx EXCEPT ![t] = r] BY <2>4
      <4> HIDE DEF r, row
      <4>5. payTx' \in [PayTxs -> row] BY <4>1, <4>3, <4>4
      <4>6. payHolder' \in [PayOrders -> PayTxs \cup {NoPay}] BY <2>4, <4>1
      <4> QED BY <1>1, <4>5, <4>6 DEF PInv, PaymentFlowTypeOK, row
    <3>2. \A u \in PayTxs : payTx[u].pc \in {"grant", "take"} => payTx[u].order # o
      BY <2>4, PaymentFlowAssumption DEF PInv, LookIsGood, OrderIsFree
    <3>3. LookIsGood' BY <1>1, <2>1, <2>4, <3>2 DEF PInv, PaymentFlowTypeOK, LookIsGood
    <3> QED BY <1>2, <3>1, <3>3 DEF PInv
  <2> QED BY <1>4, <2>1, <2>2, <2>3, <2>4 DEF LockPayOrder, PayStatusIs
<1>5. CASE AbortPayTx(t)
  <2>1. PayTxEnds(t) BY <1>5 DEF AbortPayTx
  <2>2. PaymentFlowTypeOK' BY <1>1, <2>1, PayTxEnded DEF PInv, PaymentFlowTypeOK
  <2>3. LookIsGood' BY <1>1, <2>1, PayTxEnded DEF PInv, LookIsGood
  <2> QED BY <1>2, <2>2, <2>3 DEF PInv
<1>6. CASE \E o \in PayOrders : \/ Notify(t, o) \/ AdminRefund(t, o)
                                \/ \E share \in BOOLEAN : AdminComplete(t, o, share)
  <2>1. \E o \in PayOrders, pc \in {"complete", "refund"}, share \in BOOLEAN :
          BeginPayTx(t, pc, o, share)
    BY <1>6, Zenon DEF Notify, AdminRefund, AdminComplete
  <2> QED BY <1>2, <1>3, <2>1 DEF PInv
<1> QED BY <1>4, <1>5, <1>6

\* A completion and a refund write what the status has become, for an order whose
\* status cannot have changed since it was looked at.
LEMMA CommitStep ==
  ASSUME PInv, NEW t \in PayTxs, CommitCompletion(t) \/ CommitRefund(t)
  PROVE  PInv'
<1>1. PICK o \in PayOrders : o = payTx[t].order
  BY DEF PInv, LookIsGood, CommitCompletion, CommitRefund
<1>2. /\ payHolder[o] = t /\ PayTxEnds(t)
      /\ UNCHANGED <<channel, channelEdit, checkout, gateway>>
      /\ payOrder[o].status # "none"
  BY <1>1 DEF PInv, LookIsGood, CommitCompletion, CommitRefund, channelVars
<1>3. PICK s \in {"completed", "refunded"} : SetPayStatus(o, s)
  BY <1>1 DEF CommitCompletion, CommitRefund
<1>4. /\ payOrder'[o].status = s
      /\ \A p \in PayOrders : p # o => payOrder'[p] = payOrder[p]
      /\ payOrder' \in [PayOrders -> [status: PayStatus, shown: BOOLEAN,
                                      channel: Channels \cup {ByHand, NoPay}]]
  BY <1>3, StatusSet DEF PInv, PayStatus
<1>5. InsertIsFirst' BY <1>2, <1>4 DEF PInv, InsertIsFirst
<1>6. LookIsGood'
  <2>1. ASSUME NEW u \in PayTxs, u # t, payTx[u].pc \in {"grant", "take"}
        PROVE  payTx[u].order # o /\ payHolder'[payTx[u].order] = payHolder[payTx[u].order]
    BY <1>2, <2>1, PayTxEnded DEF PInv, LookIsGood
  <2>2. /\ payTx'[t].pc = "idle" /\ \A u \in PayTxs : u # t => payTx'[u] = payTx[u]
    BY <1>2, PayTxEnded DEF PInv
  <2>3. ASSUME NEW u \in PayTxs, u # t, payTx[u].pc # "idle"
        PROVE  payTx[u].order \in PayOrders /\ payOrder'[payTx[u].order].status # "none"
    BY <1>4, <2>3 DEF PInv, LookIsGood
  <2>4. ASSUME NEW u \in PayTxs, u # t, payTx[u].pc \in {"grant", "take"}
        PROVE  /\ payHolder'[payTx[u].order] = u
               /\ payOrder'[payTx[u].order].status = payOrder[payTx[u].order].status
    BY <1>4, <2>1, <2>3, <2>4 DEF PInv, LookIsGood
  <2> QED BY <2>2, <2>3, <2>4 DEF PInv, LookIsGood
<1>7. CASE CommitCompletion(t)
  <2>1. /\ payOrder[o].status = "pending" /\ payOrder'[o].status = "completed"
        /\ entries' = [entries EXCEPT ![o].recharge = @ + 1]
        /\ commission' = Settled(o, payTx[t].share)
    BY <1>1, <1>3, <1>4, <1>7, StatusSet
       DEF PInv, LookIsGood, CommitCompletion, PayStatus
  <2>2. /\ entries' \in [PayOrders -> [recharge: Nat, refund: Nat]]
        /\ entries'[o].recharge = entries[o].recharge + 1 /\ entries'[o].refund = entries[o].refund
        /\ \A p \in PayOrders : p # o => entries'[p] = entries[p]
    <3> DEFINE e == [entries[o] EXCEPT !.recharge = @ + 1]
    <3>1. e \in [recharge: Nat, refund: Nat] /\ e.recharge = entries[o].recharge + 1
          /\ e.refund = entries[o].refund
      <4>1. entries[o] \in [recharge: Nat, refund: Nat] BY DEF PInv, PaymentFlowTypeOK
      <4> QED BY <4>1
    <3>2. entries' = [entries EXCEPT ![o] = e] BY <2>1 DEF PInv, PaymentFlowTypeOK
    <3> HIDE DEF e
    <3> QED BY <3>1, <3>2 DEF PInv, PaymentFlowTypeOK
  <2> DEFINE r == [status |-> "settled", reward |-> commission[o].reward + 1,
                   reversal |-> commission[o].reversal]
  <2>3. /\ r \in [status: {"none", "settled", "reversed"}, reward: Nat, reversal: Nat]
        /\ r.status = "settled" /\ r.reward = commission[o].reward + 1
        /\ r.reversal = commission[o].reversal
    BY DEF PInv, PaymentFlowTypeOK
  <2>4. \/ commission' = commission
        \/ commission[o].status = "none" /\ commission' = [commission EXCEPT ![o] = r]
    BY <2>1 DEF Settled, PInv, PaymentFlowTypeOK
  <2> HIDE DEF r
  <2>5. /\ commission' \in [PayOrders -> [status: {"none", "settled", "reversed"},
                                          reward: Nat, reversal: Nat]]
        /\ \A p \in PayOrders : p # o => commission'[p] = commission[p]
        /\ \/ commission'[o] = commission[o]
           \/ commission[o].status = "none" /\ commission'[o] = r
    <3>1. CASE commission' = commission BY <3>1 DEF PInv, PaymentFlowTypeOK
    <3>2. CASE commission[o].status = "none" /\ commission' = [commission EXCEPT ![o] = r]
      BY <2>3, <3>2 DEF PInv, PaymentFlowTypeOK
    <3> QED BY <2>4, <3>1, <3>2
  <2>6. PaymentFlowTypeOK'
    BY <1>2, <1>4, <2>2, <2>5, PayTxEnded DEF PInv, PaymentFlowTypeOK
  <2>7. CommissionFits' BY <2>3, <2>5 DEF PInv, CommissionFits
  <2>8. MoneyFollowsOrders'
    BY <1>4, <2>1, <2>2, <2>3, <2>5
       DEF PInv, PaymentFlowTypeOK, CommissionFits, MoneyFollowsOrders, PayStatusIs
  <2> QED BY <1>5, <1>6, <2>6, <2>7, <2>8 DEF PInv
<1>8. CASE CommitRefund(t)
  <2>1. /\ payOrder[o].status = "completed" /\ payOrder'[o].status = "refunded"
        /\ entries' = [entries EXCEPT ![o].refund = @ + 1]
        /\ commission' = Reversed(o)
    BY <1>1, <1>3, <1>4, <1>8, StatusSet
       DEF PInv, LookIsGood, CommitRefund, PayStatus
  <2>2. /\ entries' \in [PayOrders -> [recharge: Nat, refund: Nat]]
        /\ entries'[o].refund = entries[o].refund + 1 /\ entries'[o].recharge = entries[o].recharge
        /\ \A p \in PayOrders : p # o => entries'[p] = entries[p]
    <3> DEFINE e == [entries[o] EXCEPT !.refund = @ + 1]
    <3>1. e \in [recharge: Nat, refund: Nat] /\ e.refund = entries[o].refund + 1
          /\ e.recharge = entries[o].recharge
      <4>1. entries[o] \in [recharge: Nat, refund: Nat] BY DEF PInv, PaymentFlowTypeOK
      <4> QED BY <4>1
    <3>2. entries' = [entries EXCEPT ![o] = e] BY <2>1 DEF PInv, PaymentFlowTypeOK
    <3> HIDE DEF e
    <3> QED BY <3>1, <3>2 DEF PInv, PaymentFlowTypeOK
  <2> DEFINE r == [status |-> "reversed", reward |-> commission[o].reward,
                   reversal |-> commission[o].reversal + 1]
  <2>3. /\ r \in [status: {"none", "settled", "reversed"}, reward: Nat, reversal: Nat]
        /\ r.status = "reversed" /\ r.reward = commission[o].reward
        /\ r.reversal = commission[o].reversal + 1
    BY DEF PInv, PaymentFlowTypeOK
  <2>4. \/ commission[o].status # "settled" /\ commission' = commission
        \/ commission[o].status = "settled" /\ commission' = [commission EXCEPT ![o] = r]
    BY <2>1 DEF Reversed, PInv, PaymentFlowTypeOK
  <2> HIDE DEF r
  <2>5. /\ commission' \in [PayOrders -> [status: {"none", "settled", "reversed"},
                                          reward: Nat, reversal: Nat]]
        /\ \A p \in PayOrders : p # o => commission'[p] = commission[p]
        /\ \/ commission[o].status # "settled" /\ commission'[o] = commission[o]
           \/ commission[o].status = "settled" /\ commission'[o] = r
    BY <2>3, <2>4 DEF PInv, PaymentFlowTypeOK
  <2>6. PaymentFlowTypeOK'
    BY <1>2, <1>4, <2>2, <2>5, PayTxEnded DEF PInv, PaymentFlowTypeOK
  <2>7. CommissionFits' BY <2>3, <2>5 DEF PInv, CommissionFits
  <2>8. MoneyFollowsOrders'
    BY <1>4, <2>1, <2>2, <2>3, <2>5
       DEF PInv, PaymentFlowTypeOK, CommissionFits, MoneyFollowsOrders, PayStatusIs
  <2> QED BY <1>5, <1>6, <2>6, <2>7, <2>8 DEF PInv
<1> QED BY <1>7, <1>8

-----------------------------------------------------------------------------

\* Every step keeps the invariant.
THEOREM PaymentsContinue == PInv /\ [PaymentFlowNext]_paymentVars => PInv'
<1> SUFFICES ASSUME PInv, [PaymentFlowNext]_paymentVars PROVE PInv' OBVIOUS
<1>1. CASE PaymentFlowNext
  BY <1>1, ChannelStep, CheckoutStepKeeps, TransactionStep, CommitStep DEF PaymentFlowNext
<1>2. CASE UNCHANGED paymentVars
  BY <1>2 DEF paymentVars, channelVars, moneyVars, PInv, PaymentFlowTypeOK, LookIsGood,
              InsertIsFirst, CommissionFits, MoneyFollowsOrders, PayStatusIs
<1> QED BY <1>1, <1>2

\* Orders, channels, transactions and entries keep their types.
THEOREM PaymentTypes == PaymentFlowSpec => []PaymentFlowTypeOK
<1>1. PInv => PaymentFlowTypeOK BY DEF PInv
<1> QED BY <1>1, PaymentsBegin, PaymentsContinue, PTL DEF PaymentFlowSpec

\* However often and by whomever an order is completed, refunded and cancelled, its
\* entries and its commission agree with its status.
THEOREM MoneyHolds == PaymentFlowSpec => []MoneyFollowsOrders
<1>1. PInv => MoneyFollowsOrders BY DEF PInv
<1> QED BY <1>1, PaymentsBegin, PaymentsContinue, PTL DEF PaymentFlowSpec

-----------------------------------------------------------------------------

\* A step that changes no status is no step of PaymentOrder.
LEMMA StatusStays ==
  ASSUME \A o \in PayOrders : payOrder'[o].status = payOrder[o].status
  PROVE  UNCHANGED CreditOrders!vars
<1>1. \A o \in PayOrders : GrantSeen(o)' = GrantSeen(o) BY DEF GrantSeen
<1> QED BY <1>1 DEF CreditOrders!vars

\* What a step that sets one status does to the two functions of PaymentOrder.
LEMMA StatusSeen ==
  ASSUME PInv, NEW o \in PayOrders, NEW s \in PayStatus, SetPayStatus(o, s)
  PROVE  /\ payOrder'[o].status = s
         /\ [p \in PayOrders |-> payOrder[p].status]' =
              [[p \in PayOrders |-> payOrder[p].status] EXCEPT ![o] = s]
         /\ \A p \in PayOrders : p # o => GrantSeen(p)' = GrantSeen(p)
<1>1. /\ payOrder'[o].status = s
      /\ \A p \in PayOrders : p # o => payOrder'[p] = payOrder[p]
  BY StatusSet DEF PInv
<1>2. [p \in PayOrders |-> payOrder'[p].status] =
        [[p \in PayOrders |-> payOrder[p].status] EXCEPT ![o] = s]
  BY <1>1
<1>3. \A p \in PayOrders : p # o => GrantSeen(p)' = GrantSeen(p) BY <1>1 DEF GrantSeen
<1> QED BY <1>1, <1>2, <1>3

\* The insertion places the order.
LEMMA InsertPlaces ==
  ASSUME PInv, NEW o \in PayOrders, InsertPayOrder(o)
  PROVE  CreditOrders!Place(o)
<1>1. payOrder[o].status = "none" /\ SetPayStatus(o, "pending")
  BY DEF InsertPayOrder, PInv, InsertIsFirst
<1>2. \A p \in PayOrders : GrantSeen(p)' = GrantSeen(p)
  BY <1>1, StatusSeen DEF PayStatus, GrantSeen
<1> QED BY <1>1, <1>2, StatusSeen DEF CreditOrders!Place, PayStatus

\* A failure and a cancellation close it.
LEMMA FailureCloses ==
  ASSUME PInv, NEW o \in PayOrders, MarkOrderFailed(o) \/ CancelPayOrder(o)
  PROVE  CreditOrders!Close(o) \/ UNCHANGED CreditOrders!vars
<1>1. CASE MarkOrderFailed(o) /\ payOrder[o].status # "pending"
  <2>1. SetPayStatus(o, payOrder[o].status) /\ payOrder[o].status \in PayStatus
    BY <1>1 DEF MarkOrderFailed, PayStatusIs, PInv, PaymentFlowTypeOK
  <2>2. \A p \in PayOrders : payOrder'[p].status = payOrder[p].status
    BY <2>1, StatusSet DEF PInv
  <2> QED BY <2>2, StatusStays
<1>2. CASE MarkOrderFailed(o) /\ payOrder[o].status = "pending"
  <2>1. SetPayStatus(o, "failed") BY <1>2 DEF MarkOrderFailed, PayStatusIs
  <2>2. \A p \in PayOrders : GrantSeen(p)' = GrantSeen(p)
    BY <1>2, <2>1, StatusSeen DEF PayStatus, GrantSeen
  <2> QED BY <1>2, <2>1, <2>2, StatusSeen DEF CreditOrders!Close, PayStatus
<1>3. CASE CancelPayOrder(o)
  <2>1. SetPayStatus(o, "cancelled") /\ payOrder[o].status \in {"pending", "failed"}
    BY <1>3 DEF CancelPayOrder, PayStatusIs
  <2>2. \A p \in PayOrders : GrantSeen(p)' = GrantSeen(p)
    BY <2>1, StatusSeen DEF PayStatus, GrantSeen
  <2> QED BY <2>1, <2>2, StatusSeen DEF CreditOrders!Close, PayStatus
<1> QED BY <1>1, <1>2, <1>3

\* A completion gives once, and replaces nothing; a refund takes back.
LEMMA CommitRefines ==
  ASSUME PInv, NEW t \in PayTxs, CommitCompletion(t) \/ CommitRefund(t)
  PROVE  CreditOrders!Next
<1>1. PICK o \in PayOrders : o = payTx[t].order
  BY DEF PInv, LookIsGood, CommitCompletion, CommitRefund
<1>2. CASE CommitCompletion(t)
  <2>1. payOrder[o].status = "pending" /\ SetPayStatus(o, "completed")
    BY <1>1, <1>2 DEF PInv, LookIsGood, CommitCompletion
  <2>2. GrantSeen(o)' = "given" BY <2>1, StatusSeen DEF PayStatus, GrantSeen
  <2>3. [p \in PayOrders |-> GrantSeen(p)]' =
          [p \in PayOrders |-> IF p = o THEN "given"
                               ELSE IF p \in {} THEN "replaced"
                               ELSE [q \in PayOrders |-> GrantSeen(q)][p]]
    BY <2>1, <2>2, StatusSeen DEF PayStatus
  <2>4. CreditOrders!Complete(o)
    <3>1. {} \in SUBSET {p \in PayOrders : [q \in PayOrders |-> GrantSeen(q)][p] = "given"}
      OBVIOUS
    <3> QED BY <2>1, <2>3, <3>1, StatusSeen DEF CreditOrders!Complete, PayStatus
  <2> QED BY <2>4 DEF CreditOrders!Next
<1>3. CASE CommitRefund(t)
  <2>1. payOrder[o].status = "completed" /\ SetPayStatus(o, "refunded")
    BY <1>1, <1>3 DEF PInv, LookIsGood, CommitRefund
  <2>2. GrantSeen(o)' = "taken" BY <2>1, StatusSeen DEF PayStatus, GrantSeen
  <2>3. [p \in PayOrders |-> GrantSeen(p)]' =
          [[p \in PayOrders |-> GrantSeen(p)] EXCEPT ![o] = "taken"]
    BY <2>1, <2>2, StatusSeen DEF PayStatus
  <2>4. CreditOrders!Refund(o)
    BY <2>1, <2>3, StatusSeen DEF CreditOrders!Refund, PayStatus
  <2> QED BY <2>4 DEF CreditOrders!Next
<1> QED BY <1>2, <1>3

\* Every step is one of PaymentOrder or changes nothing that it sees.
LEMMA PaymentStepRefines ==
  ASSUME PInv, [PaymentFlowNext]_paymentVars
  PROVE  [CreditOrders!Next]_(CreditOrders!vars)
<1>1. CASE UNCHANGED payOrder
  BY <1>1, StatusStays
<1>2. ASSUME NEW o \in PayOrders, ChooseChannel(o) \/ AttachPayment(o)
      PROVE  UNCHANGED CreditOrders!vars
  <2>1. \A p \in PayOrders : payOrder'[p].status = payOrder[p].status
    BY <1>2 DEF ChooseChannel, AttachPayment, PInv, PaymentFlowTypeOK
  <2> QED BY <2>1, StatusStays
<1>3. ASSUME NEW o \in PayOrders,
             InsertPayOrder(o) \/ MarkOrderFailed(o) \/ CancelPayOrder(o)
      PROVE  CreditOrders!Next \/ UNCHANGED CreditOrders!vars
  BY <1>3, InsertPlaces, FailureCloses DEF CreditOrders!Next
<1>4. ASSUME NEW o \in PayOrders, AskGateway(o) \/ CheckoutDies(o) \/ Pay(o)
      PROVE  UNCHANGED payOrder
  BY <1>4 DEF AskGateway, CheckoutDies, Pay
<1>5. ASSUME NEW c \in Channels,
             \/ CreateChannel(c) \/ EnableChannel(c) \/ EditChannel(c)
             \/ \E edit \in {"off", "gone"} : CheckChannel(c, edit)
      PROVE  UNCHANGED payOrder
  BY <1>5 DEF CreateChannel, EnableChannel, EditChannel, CheckChannel
<1>6. ASSUME NEW t \in PayTxs,
             \/ \E o \in PayOrders : \/ Notify(t, o) \/ AdminRefund(t, o)
                                     \/ \E share \in BOOLEAN : AdminComplete(t, o, share)
             \/ LockPayOrder(t) \/ AbortPayTx(t)
      PROVE  UNCHANGED payOrder
  BY <1>6 DEF Notify, AdminRefund, AdminComplete, BeginPayTx, LockPayOrder, AbortPayTx
<1>7. CASE UNCHANGED paymentVars BY <1>1, <1>7 DEF paymentVars
<1> QED BY <1>1, <1>2, <1>3, <1>4, <1>5, <1>6, <1>7, CommitRefines DEF PaymentFlowNext

\* The orders of credits implement PaymentOrder, as those of subscriptions do: for
\* any number of orders and transactions a completion gives once and a refund takes
\* back once, each in the step that sets the status.
THEOREM CreditOrdersRefined == PaymentFlowSpec => ImplementsOrdersOfCredits
<1>1. PaymentFlowInit => CreditOrders!Init
  BY DEF PaymentFlowInit, CreditOrders!Init, GrantSeen
<1>2. PInv /\ [PaymentFlowNext]_paymentVars => [CreditOrders!Next]_(CreditOrders!vars)
  BY PaymentStepRefines
<1> QED
  BY <1>1, <1>2, PaymentsBegin, PaymentsContinue, PTL
     DEF PaymentFlowSpec, ImplementsOrdersOfCredits, CreditOrders!Spec
=============================================================================
