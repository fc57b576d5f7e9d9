---------------------------- MODULE Subscription ----------------------------
(***************************************************************************)
(* The subscriptions of one user: orders that are created, paid, reported  *)
(* more than once, cancelled and refunded, and images that reserve and     *)
(* give back the credits of the subscription that runs.                    *)
(*                                                                         *)
(* The statements of a transaction are its steps, unless nobody can tell   *)
(* two of them apart.  The database reads what is committed.  SELECT ...   *)
(* FOR UPDATE with an order and a limit picks from the rows it has seen,   *)
(* waits for the row, and takes the next one it has seen if the row no     *)
(* longer qualifies.                                                       *)
(*                                                                         *)
(* A day is the unit of time.  All packages run equally long.              *)
(***************************************************************************)
EXTENDS Integers, FiniteSets

CONSTANTS
  Orders, Subs, Generations, Packages,
  Txs,             \* database transactions
  Amount,          \* amount_cents of a package
  Credits,         \* its credits
  UpgradeCredits,  \* the credits an upgrade may be prorated to
  Period,          \* the days of a package
  MaxTime,         \* bound: the last day
  MaxReserved,     \* bound: credits reserved for a generation
  NoOne

ASSUME SubscriptionAssumption ==
  /\ Packages # {}
  /\ Amount \in [Packages -> Nat]
  /\ Credits \in [Packages -> Nat]
  /\ UpgradeCredits \subseteq Nat
  /\ Period \in Nat \ {0} /\ MaxTime \in Nat /\ MaxReserved \in Nat
  /\ NoOne \notin Orders \cup Subs \cup Txs \cup Generations
  /\ Orders \cap Subs = {}

VARIABLES
  now,
  order,     \* business_payment_orders
  sub,       \* business_user_subscriptions
  reserved,  \* business_credit_ledger: per generation, reserve entries,
  refunded,  \*   refund entries,
  net,       \*   and per subscription the difference of both
  source,    \* the subscription of a generation's latest reserve entry
  drawn,     \* history: all subscriptions a generation reserved from
  holder,    \* the transaction that has locked a row
  tx

ledger == <<reserved, refunded, net, source, drawn>>
vars == <<now, order, sub, ledger, holder, tx>>

-----------------------------------------------------------------------------

\* "none": not created yet.  Nothing writes "paid" or "expired".
OrderStatus == {"none", "pending", "completed", "failed", "cancelled", "refunded"}

Order == [status: OrderStatus, action: {"new", "renewal", "upgrade"},
          pkg: Packages, credits: Nat]

\* "expired" is not a status here: every query compares expires_at as well,
\* with the day on which it was written.
\* known: history; the subscriptions there were when this one's order was
\* locked.
Sub == [status: {"none", "active", "upgraded", "cancelled"},
        order: Orders \cup {NoOne}, pkg: Packages,
        starts: Nat, expires: Nat, total: Nat, used: Nat, known: SUBSET Subs]

SomePackage == CHOOSE p \in Packages : TRUE

NoOrder == [status |-> "none", action |-> "new", pkg |-> SomePackage, credits |-> 0]

NoSub == [status |-> "none", order |-> NoOne, pkg |-> SomePackage,
          starts |-> 0, expires |-> 0, total |-> 0, used |-> 0, known |-> {}]

\* sees: rows of the snapshot of the statement that waits for a row
\* base: the subscription it has locked, whose credits_used it has read
Tx == [pc: {"idle", "price", "lock", "take", "grant", "find", "spend", "refund", "pay"},
       order: Orders \cup {NoOne}, pkg: Packages, gen: Generations \cup {NoOne},
       amount: Nat, used: Nat, sees: SUBSET Subs, base: Subs \cup {NoOne},
       known: SUBSET Subs]

Idle == [pc |-> "idle", order |-> NoOne, pkg |-> SomePackage, gen |-> NoOne,
         amount |-> 0, used |-> 0, sees |-> {}, base |-> NoOne, known |-> {}]

Free(row) == holder[row] = NoOne

Existing == {s \in Subs : sub[s].status # "none"}

\* status = 'active' AND expires_at > now
Runs(s) == sub[s].status = "active" /\ sub[s].expires > now

\* ... AND starts_at <= now
Current(s) == Runs(s) /\ sub[s].starts <= now

\* ... AND credits_total > credits_used
Usable(s) == Current(s) /\ sub[s].used < sub[s].total

Least(a, b) == IF a < b THEN a ELSE b

At(t, pc) == tx[t].pc = pc

Step(t, r) == tx' = [tx EXCEPT ![t] = r]

Locks(t, row) == holder' = [holder EXCEPT ![row] = t]

Unlocked(t) == holder' = [row \in Orders \cup Subs |->
                            IF holder[row] = t THEN NoOne ELSE holder[row]]

\* COMMIT or ROLLBACK
Ends(t) == Step(t, Idle) /\ Unlocked(t)

-----------------------------------------------------------------------------
(* Orders.                                                                 *)

\* CreateOrder, up to the search for the current subscription.
BeginCreate(t, p) ==
  /\ At(t, "idle")
  /\ Step(t, [Idle EXCEPT !.pc = "price", !.pkg = p,
                          !.sees = {s \in Subs : Current(s)}])
  /\ UNCHANGED <<now, order, sub, ledger, holder>>

\* The new order, and COMMIT.
Inserted(t, action, credits) ==
  /\ \E o \in Orders :
       /\ order[o].status = "none"
       /\ order' = [order EXCEPT ![o] = [status |-> "pending", action |-> action,
                                         pkg |-> tx[t].pkg, credits |-> credits]]
  /\ Step(t, Idle)

\* subscriptionOrderPricingWithTx, without the amounts.  What is no upgrade
\* of the current package is refused: the transaction is aborted.
Price(t) ==
  LET p == tx[t].pkg
      seen == tx[t].sees
  IN  /\ At(t, "price")
      /\ \/ seen = {} /\ Inserted(t, "new", Credits[p])
         \/ \E s \in seen :
              /\ \A r \in seen : sub[r].starts <= sub[s].starts
              /\ Free(s)
              /\ \/ Current(s) /\ sub[s].pkg = p /\ Inserted(t, "renewal", Credits[p])
                 \/ /\ Current(s)
                    /\ Amount[p] > Amount[sub[s].pkg]
                    /\ \A r \in Subs : Runs(r) /\ sub[r].pkg = sub[s].pkg => Free(r)
                    /\ \E c \in UpgradeCredits : Inserted(t, "upgrade", c)
                 \/ /\ ~Current(s)
                    /\ Step(t, [tx[t] EXCEPT !.sees = @ \ {s}])
                    /\ UNCHANGED order
      /\ UNCHANGED <<now, sub, ledger, holder>>

SetStatus(o, status) == order' = [order EXCEPT ![o].status = status]

\* (Variation: the status is not looked at.)
FailAnyway(o) ==
  /\ Free(o)
  /\ order[o].status # "none"
  /\ SetStatus(o, "failed")
  /\ UNCHANGED <<now, sub, ledger, holder, tx>>

\* MarkOrderFailed: the payment could not be created, or seemed so.
Fail(o) ==
  /\ Free(o)
  /\ order[o].status = "pending"
  /\ SetStatus(o, "failed")
  /\ UNCHANGED <<now, sub, ledger, holder, tx>>

\* setTerminalStatus
CancelOrder(o) ==
  /\ Free(o)
  /\ order[o].status \in {"pending", "failed"}
  /\ SetStatus(o, "cancelled")
  /\ UNCHANGED <<now, sub, ledger, holder, tx>>

Granted(o) == {s \in Existing : sub[s].order = o}

\* cancelSubscriptionWithTx
Cancelled(s) == [sub[s] EXCEPT !.status = "cancelled"]

RefundOrder(o) ==
  /\ Free(o)
  /\ order[o].status = "completed"
  /\ \A s \in Granted(o) : Free(s)
  /\ SetStatus(o, "refunded")
  /\ sub' = [s \in Subs |-> IF s \in Granted(o) THEN Cancelled(s) ELSE sub[s]]
  /\ UNCHANGED <<now, ledger, holder, tx>>

-----------------------------------------------------------------------------
(* CompleteOrder: by the administrator, by the callback, by its repetition. *)

\* Whoever reports a payment has found the order.
Report(t, o) ==
  /\ At(t, "idle")
  /\ order[o].status # "none"
  /\ Step(t, [Idle EXCEPT !.pc = "lock", !.order = o])
  /\ UNCHANGED <<now, order, sub, ledger, holder>>

Payable(t) ==
  /\ order[tx[t].order].status = "pending"
  /\ Step(t, [tx[t] EXCEPT !.pc = "take", !.known = Existing,
                           !.sees = {s \in Subs : Runs(s)}])

\* An order that is not pending is left as it is.
NotPayable(t) == order[tx[t].order].status # "pending" /\ Step(t, Idle)

\* (Variation: the order is read without FOR UPDATE.)
LockNothing(t) ==
  /\ At(t, "lock")
  /\ Free(tx[t].order)
  /\ Payable(t) \/ NotPayable(t)
  /\ UNCHANGED <<now, order, sub, ledger, holder>>

\* orderForUpdate; then currentActiveSubscriptionWithTx begins.
LockOrder(t) ==
  /\ At(t, "lock")
  /\ Free(tx[t].order)
  /\ \/ Payable(t) /\ Locks(t, tx[t].order)
     \/ NotPayable(t) /\ UNCHANGED holder
  /\ UNCHANGED <<now, order, sub, ledger>>

\* ORDER BY expires_at ASC
SoonestOver(s, seen) == \A r \in seen : sub[s].expires <= sub[r].expires

\* ORDER BY expires_at DESC
LastOver(s, seen) == \A r \in seen : sub[r].expires <= sub[s].expires

\* currentActiveSubscriptionWithTx locks the subscription that runs longest;
\* then markActiveSubscriptionsUpgradedWithTx begins.
TakeLatest(t) ==
  LET seen == tx[t].sees
      found(s) == [tx[t] EXCEPT !.pc = "grant", !.base = s,
                     !.sees = IF order[tx[t].order].action = "upgrade"
                              THEN {r \in Subs : Runs(r)} ELSE {}]
  IN  /\ At(t, "take")
      /\ \/ seen = {} /\ Step(t, found(NoOne)) /\ UNCHANGED holder
         \/ \E s \in seen :
              /\ LastOver(s, seen)
              /\ Free(s)
              /\ \/ Runs(s) /\ Locks(t, s) /\ Step(t, found(s))
                 \/ /\ ~Runs(s)
                    /\ Step(t, [tx[t] EXCEPT !.sees = @ \ {s}])
                    /\ UNCHANGED holder
      /\ UNCHANGED <<now, order, sub, ledger>>

\* The row that an order and its dates make.
Row(t, starts, expires) ==
  LET o == order[tx[t].order]
  IN  [status |-> "active", order |-> tx[t].order, pkg |-> o.pkg, starts |-> starts,
       expires |-> expires, total |-> o.credits, used |-> 0, known |-> tx[t].known]

\* (Variation: whatever is bought begins now.)
ActivatedNow(t) == Row(t, now, now + Period)

\* activateSubscriptionWithTx: what is bought begins where the base ends; an
\* upgrade now, until the base ends.
Activated(t) ==
  LET end == sub[tx[t].base].expires
      upgrade == order[tx[t].order].action = "upgrade"
  IN  IF tx[t].base = NoOne THEN Row(t, now, now + Period)
      ELSE IF upgrade THEN Row(t, now, end)
      ELSE Row(t, end, end + Period)

\* The upgrade of the rows seen that still run, the new subscription, the
\* status of the order, and COMMIT.
Grant(t) ==
  /\ At(t, "grant")
  /\ \A s \in tx[t].sees : holder[s] \in {NoOne, t}
  /\ \E new \in Subs \ Existing :
       sub' = [s \in Subs |->
                 IF s = new THEN Activated(t)
                 ELSE IF s \in tx[t].sees /\ Runs(s)
                      THEN [sub[s] EXCEPT !.status = "upgraded"]
                 ELSE sub[s]]
  /\ SetStatus(tx[t].order, "completed")
  /\ Ends(t)
  /\ UNCHANGED <<now, ledger>>

\* ROLLBACK: an error, a cancelled context, a lost connection, a deadlock.
Abort(t) ==
  /\ ~At(t, "idle")
  /\ Ends(t)
  /\ UNCHANGED <<now, order, sub, ledger>>

-----------------------------------------------------------------------------
(* Credits of images.                                                      *)

\* ReserveSubscriptionCredits.  The reserves of a generation follow one
\* another.
BeginReserve(t, g, n) ==
  /\ At(t, "idle")
  /\ \A u \in Txs : At(u, "find") \/ At(u, "spend") => tx[u].gen # g
  /\ reserved[g] + n <= MaxReserved
  /\ Step(t, [Idle EXCEPT !.pc = "find", !.gen = g, !.amount = n,
                          !.sees = {s \in Subs : Usable(s)}])
  /\ UNCHANGED <<now, order, sub, ledger, holder>>

Found(t, s) == Step(t, [tx[t] EXCEPT !.pc = "spend", !.base = s, !.used = sub[s].used,
                                     !.sees = {}])

Missed(t, s) == Step(t, [tx[t] EXCEPT !.sees = @ \ {s}])

\* (Variation: the subscription is read without FOR UPDATE.)
FindUnlocked(t) ==
  /\ At(t, "find")
  /\ \/ tx[t].sees = {} /\ Step(t, Idle)
     \/ \E s \in tx[t].sees : SoonestOver(s, tx[t].sees) /\ Free(s) /\ Found(t, s)
  /\ UNCHANGED <<now, order, sub, ledger, holder>>

\* The usable subscription that ends first is locked and read.
Find(t) ==
  /\ At(t, "find")
  /\ \/ tx[t].sees = {} /\ Step(t, Idle) /\ UNCHANGED holder
     \/ \E s \in tx[t].sees :
          /\ SoonestOver(s, tx[t].sees)
          /\ Free(s)
          /\ \/ Usable(s) /\ Locks(t, s) /\ Found(t, s)
             \/ ~Usable(s) /\ Missed(t, s) /\ UNCHANGED holder
  /\ UNCHANGED <<now, order, sub, ledger>>

\* Its credits_used becomes what was read and as much of the amount as it
\* has left; a ledger entry, and COMMIT.
Spend(t) ==
  LET s == tx[t].base
      g == tx[t].gen
      n == Least(tx[t].amount, sub[s].total - tx[t].used)
  IN  /\ At(t, "spend")
      /\ sub' = [sub EXCEPT ![s].used = tx[t].used + n]
      /\ reserved' = [reserved EXCEPT ![g] = @ + n]
      /\ net' = [net EXCEPT ![s] = @ + n]
      /\ source' = [source EXCEPT ![g] = s]
      /\ drawn' = [drawn EXCEPT ![g] = @ \cup {s}]
      /\ Ends(t)
      /\ UNCHANGED <<now, order, refunded>>

\* RefundSubscriptionCredits, up to the search for the subscription of the
\* latest reserve.  The amount comes from totals that the callers have read
\* earlier, so that it may be more than is left by now.
BeginRefund(t, g, n) ==
  /\ At(t, "idle")
  /\ source[g] # NoOne
  /\ n <= reserved[g]
  /\ Step(t, [Idle EXCEPT !.pc = "refund", !.gen = g, !.amount = n, !.base = source[g]])
  /\ UNCHANGED <<now, order, sub, ledger, holder>>

\* subscriptionGenerationTotalsWithTx
Capped(t) == Least(tx[t].amount, reserved[tx[t].gen] - refunded[tx[t].gen])

\* (Variation: neither is locked.)
ReadRefund(t) ==
  /\ At(t, "refund")
  /\ \/ /\ Capped(t) > 0
        /\ Step(t, [tx[t] EXCEPT !.pc = "pay", !.used = sub[tx[t].base].used,
                                 !.amount = Capped(t)])
     \/ Capped(t) <= 0 /\ Step(t, Idle)
  /\ UNCHANGED <<now, order, sub, ledger, holder>>

\* The subscription is locked and read, then the totals.
LockRefund(t) ==
  LET s == tx[t].base
  IN  /\ At(t, "refund")
      /\ Free(s)
      /\ \/ /\ Capped(t) > 0
            /\ Locks(t, s)
            /\ Step(t, [tx[t] EXCEPT !.pc = "pay", !.used = sub[s].used,
                                     !.amount = Capped(t)])
         \/ Capped(t) <= 0 /\ Step(t, Idle) /\ UNCHANGED holder
      /\ UNCHANGED <<now, order, sub, ledger>>

\* (Variation: what the subscription has used does not matter.)
AllBack(t) == tx[t].amount

\* No more than the subscription has used.
Back(t) == Least(tx[t].amount, tx[t].used)

\* Its credits_used becomes what was read less that; a ledger entry, and
\* COMMIT.
Refund(t) ==
  LET s == tx[t].base
      n == Back(t)
  IN  /\ At(t, "pay")
      /\ sub' = [sub EXCEPT ![s].used = tx[t].used - n]
      /\ refunded' = [refunded EXCEPT ![tx[t].gen] = @ + n]
      /\ net' = [net EXCEPT ![s] = @ - n]
      /\ Ends(t)
      /\ UNCHANGED <<now, order, reserved, source, drawn>>

-----------------------------------------------------------------------------

\* A day passes; none does within a transaction that has read the clock and
\* compares it with rows.
Tick ==
  /\ now < MaxTime
  /\ \A t \in Txs : tx[t].pc \in {"idle", "lock", "spend", "refund", "pay"}
  /\ now' = now + 1
  /\ UNCHANGED <<order, sub, ledger, holder, tx>>

Init ==
  /\ now = 0
  /\ order = [o \in Orders |-> NoOrder]
  /\ sub = [s \in Subs |-> NoSub]
  /\ reserved = [g \in Generations |-> 0]
  /\ refunded = [g \in Generations |-> 0]
  /\ net = [s \in Subs |-> 0]
  /\ source = [g \in Generations |-> NoOne]
  /\ drawn = [g \in Generations |-> {}]
  /\ holder = [row \in Orders \cup Subs |-> NoOne]
  /\ tx = [t \in Txs |-> Idle]

\* A transaction begins.
Begin(t) ==
  \/ \E p \in Packages : BeginCreate(t, p)
  \/ \E o \in Orders : Report(t, o)
  \/ \E g \in Generations, n \in 1 .. MaxReserved :
       BeginReserve(t, g, n) \/ BeginRefund(t, g, n)

\* A transaction goes on.
Go(t) ==
  \/ Price(t)
  \/ LockOrder(t) \/ TakeLatest(t) \/ Grant(t)
  \/ Find(t) \/ Spend(t)
  \/ LockRefund(t) \/ Refund(t)

Next ==
  \/ Tick
  \/ \E o \in Orders : Fail(o) \/ CancelOrder(o) \/ RefundOrder(o)
  \/ \E t \in Txs : Begin(t) \/ Go(t) \/ Abort(t)

Spec == Init /\ [][Next]_vars

-----------------------------------------------------------------------------

\* Every variable has its type.
TypeOK ==
  /\ now \in Nat
  /\ order \in [Orders -> Order]
  /\ sub \in [Subs -> Sub]
  /\ reserved \in [Generations -> Nat]
  /\ refunded \in [Generations -> Nat]
  /\ net \in [Subs -> Int]
  /\ source \in [Generations -> Subs \cup {NoOne}]
  /\ drawn \in [Generations -> SUBSET Subs]
  /\ holder \in [Orders \cup Subs -> Txs \cup {NoOne}]
  /\ tx \in [Txs -> Tx]

\* However often a payment is reported, and whatever cancels or refunds the
\* order meanwhile, a completed order has one subscription, a refunded one
\* that subscription cancelled, and any other none (CompleteOrder,
\* RefundOrder, setTerminalStatus, MarkOrderFailed).
OrderGrantsOnce ==
  \A o \in Orders :
    /\ \A r, s \in Granted(o) : r = s
    /\ order[o].status = "completed" => Granted(o) # {}
    /\ order[o].status = "refunded" =>
         Granted(o) # {} /\ \A s \in Granted(o) : sub[s].status = "cancelled"
    /\ Granted(o) # {} => order[o].status \in {"completed", "refunded"}

\* Reserves and refunds that overlap lose no update: what a subscription has
\* used is what the ledger says, and lies between nothing and all of it
\* (ReserveSubscriptionCredits, RefundSubscriptionCredits).
UsageMatchesLedger ==
  \A s \in Subs : sub[s].used = net[s] /\ 0 <= net[s] /\ net[s] <= sub[s].total

\* A generation that reserved from one subscription gets back no more than
\* it reserved, however many refund it at the same time.  (The lock is that
\* of the subscription: with two of them the totals may be read twice.)
RefundsFitReserves ==
  \A g \in Generations :
    (\A r, s \in drawn[g] : r = s) => refunded[g] <= reserved[g]

\* A subscription whose order was completed after another one was there does
\* not run at the same time as it: it follows, or it has replaced it
\* (activateSubscriptionWithTx).
RunsQueueUp ==
  \A r, s \in Subs :
    /\ sub[r].status = "active" /\ sub[s].status = "active"
    /\ r \in sub[s].known
    => sub[r].expires <= sub[s].starts

-----------------------------------------------------------------------------
(* An order and the subscription it granted implement PaymentOrder.        *)

GrantOf(o) ==
  IF Granted(o) = {} THEN "none"
  ELSE IF \E s \in Granted(o) : sub[s].status = "active" THEN "given"
  ELSE IF \E s \in Granted(o) : sub[s].status = "upgraded" THEN "replaced"
  ELSE "taken"

PaymentOrders == INSTANCE PaymentOrder WITH
  status <- [o \in Orders |-> order[o].status],
  grant <- [o \in Orders |-> GrantOf(o)]

\* Whatever the transactions of orders, images and renewals interleave to, an
\* order goes through what PaymentOrder allows: each of its steps grants or takes
\* back as much as the status says, in one step (CompleteOrder, RefundOrder).
ImplementsPaymentOrder == PaymentOrders!Spec

=============================================================================
