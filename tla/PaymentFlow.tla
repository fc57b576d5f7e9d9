---------------------------- MODULE PaymentFlow ----------------------------
(***************************************************************************)
(* Orders of credits: the checkout at a payment channel, its callback,     *)
(* the administrator who completes, cancels and refunds, the commission of *)
(* the buyer's referrer, and the channels, which come and go.              *)
(*                                                                         *)
(* The statements of a completion or a refund run under the lock of the    *)
(* order's row; every other change of an order is one statement or one     *)
(* short transaction, which waits for that row.                            *)
(***************************************************************************)
EXTENDS Naturals

CONSTANTS
  PayOrders,
  Channels,   \* rows of business_payment_providers
  PayTxs,     \* transactions that complete or refund an order
  ByHand,     \* the manual channel, which has no row
  NoPay

ASSUME PaymentFlowAssumption ==
  /\ ByHand \notin Channels
  /\ NoPay \notin PayOrders \cup PayTxs \cup Channels \cup {ByHand}

VARIABLES
  payOrder,    \* business_payment_orders
  channel,     \* business_payment_providers
  channelEdit, \* what an administrator has checked and is about to do
  checkout,    \* requests that create an order
  gateway,     \* what the channel knows of an order
  payTx,
  payHolder,   \* the transaction that has locked an order
  entries,     \* business_credit_ledger: the entries of an order
  commission   \* business_affiliate_commissions, with its entries

channelVars == <<channel, channelEdit>>
moneyVars == <<payTx, payHolder, entries, commission>>
paymentVars == <<payOrder, channelVars, checkout, gateway, moneyVars>>

\* Nothing writes "paid" or "expired".
PayStatus == {"none", "pending", "completed", "failed", "cancelled", "refunded"}

CheckoutStep == {"none", "insert", "ask", "attach", "fail", "over"}

NoPayTx == [pc |-> "idle", order |-> NoPay, share |-> FALSE]

\* share: there is a referrer and a rate that give a commission
PaymentFlowTypeOK ==
  /\ payOrder \in [PayOrders -> [status: PayStatus, shown: BOOLEAN,
                                 channel: Channels \cup {ByHand, NoPay}]]
  /\ channel \in [Channels -> {"none", "on", "off", "gone"}]
  /\ channelEdit \in [Channels -> {"none", "off", "gone"}]
  /\ checkout \in [PayOrders -> CheckoutStep]
  /\ gateway \in [PayOrders -> {"none", "open", "paid"}]
  /\ payTx \in [PayTxs -> [pc: {"idle", "complete", "grant", "refund", "take"},
                           order: PayOrders \cup {NoPay}, share: BOOLEAN]]
  /\ payHolder \in [PayOrders -> PayTxs \cup {NoPay}]
  /\ entries \in [PayOrders -> [recharge: Nat, refund: Nat]]
  /\ commission \in [PayOrders -> [status: {"none", "settled", "reversed"},
                                   reward: Nat, reversal: Nat]]

PaymentFlowInit ==
  /\ payOrder = [o \in PayOrders |->
                   [status |-> "none", shown |-> FALSE, channel |-> NoPay]]
  /\ channel = [c \in Channels |-> "none"]
  /\ channelEdit = [c \in Channels |-> "none"]
  /\ checkout = [o \in PayOrders |-> "none"]
  /\ gateway = [o \in PayOrders |-> "none"]
  /\ payTx = [t \in PayTxs |-> NoPayTx]
  /\ payHolder = [o \in PayOrders |-> NoPay]
  /\ entries = [o \in PayOrders |-> [recharge |-> 0, refund |-> 0]]
  /\ commission = [o \in PayOrders |-> [status |-> "none", reward |-> 0, reversal |-> 0]]

\* (Variation: the order is read without FOR UPDATE.)
OrderIsRead(o) == TRUE

\* The row of an order that no transaction has locked.
OrderIsFree(o) == payHolder[o] = NoPay

PayStatusIs(o, statuses) == payOrder[o].status \in statuses

SetPayStatus(o, status) == payOrder' = [payOrder EXCEPT ![o].status = status]

-----------------------------------------------------------------------------
(* Channels.                                                               *)

CreateChannel(c) ==
  /\ channel[c] = "none"
  /\ \E state \in {"on", "off"} : channel' = [channel EXCEPT ![c] = state]
  /\ UNCHANGED <<payOrder, channelEdit, checkout, gateway, moneyVars>>

HasActiveOrders(c) == \E o \in PayOrders : payOrder[o].channel = c /\ PayStatusIs(o, {"pending"})

EnableChannel(c) ==
  /\ channel[c] = "off"
  /\ channel' = [channel EXCEPT ![c] = "on"]
  /\ UNCHANGED <<payOrder, channelEdit, checkout, gateway, moneyVars>>

\* Disabling and deletion look for pending orders first ...
CheckChannel(c, edit) ==
  /\ channel[c] \in {"on", "off"}
  /\ channelEdit[c] = "none"
  /\ edit = "off" => channel[c] = "on"
  /\ ~HasActiveOrders(c)
  /\ channelEdit' = [channelEdit EXCEPT ![c] = edit]
  /\ UNCHANGED <<payOrder, channel, checkout, gateway, moneyVars>>

\* ... and write later.
EditChannel(c) ==
  /\ channelEdit[c] # "none"
  /\ channel' = [channel EXCEPT ![c] = channelEdit[c]]
  /\ channelEdit' = [channelEdit EXCEPT ![c] = "none"]
  /\ UNCHANGED <<payOrder, checkout, gateway, moneyVars>>

-----------------------------------------------------------------------------
(* CreateOrder.                                                            *)

ChooseChannel(o) ==
  /\ checkout[o] = "none"
  /\ \E c \in {ByHand} \cup {d \in Channels : channel[d] = "on"} :
       payOrder' = [payOrder EXCEPT ![o].channel = c]
  /\ checkout' = [checkout EXCEPT ![o] = "insert"]
  /\ UNCHANGED <<channelVars, gateway, moneyVars>>

InsertPayOrder(o) ==
  /\ checkout[o] = "insert"
  /\ SetPayStatus(o, "pending")
  /\ checkout' = [checkout EXCEPT ![o] = IF payOrder[o].channel = ByHand
                                         THEN "over" ELSE "ask"]
  /\ UNCHANGED <<channelVars, gateway, moneyVars>>

\* The channel may know of an order whose creation failed for the server.
AskGateway(o) ==
  /\ checkout[o] = "ask"
  /\ \/ gateway' = [gateway EXCEPT ![o] = "open"]
        /\ \E next \in {"attach", "fail"} : checkout' = [checkout EXCEPT ![o] = next]
     \/ checkout' = [checkout EXCEPT ![o] = "fail"] /\ UNCHANGED gateway
  /\ UNCHANGED <<payOrder, channelVars, moneyVars>>

\* UpdateOrderPayment: the address is stored and shown while the order is pending.
AttachPayment(o) ==
  /\ checkout[o] = "attach"
  /\ OrderIsFree(o)
  /\ payOrder' = [payOrder EXCEPT ![o].shown = PayStatusIs(o, {"pending"})]
  /\ checkout' = [checkout EXCEPT ![o] = "over"]
  /\ UNCHANGED <<channelVars, gateway, moneyVars>>

MarkOrderFailed(o) ==
  /\ checkout[o] = "fail"
  /\ OrderIsFree(o)
  /\ SetPayStatus(o, IF PayStatusIs(o, {"pending"}) THEN "failed" ELSE payOrder[o].status)
  /\ checkout' = [checkout EXCEPT ![o] = "over"]
  /\ UNCHANGED <<channelVars, gateway, moneyVars>>

\* The instance stops, or the database refuses.
CheckoutDies(o) ==
  /\ checkout[o] \in {"insert", "ask", "attach", "fail"}
  /\ checkout' = [checkout EXCEPT ![o] = "over"]
  /\ UNCHANGED <<payOrder, channelVars, gateway, moneyVars>>

\* The buyer pays at the address he was shown, whatever became of the order.
Pay(o) ==
  /\ gateway[o] = "open"
  /\ payOrder[o].shown
  /\ gateway' = [gateway EXCEPT ![o] = "paid"]
  /\ UNCHANGED <<payOrder, channelVars, checkout, moneyVars>>

-----------------------------------------------------------------------------
(* Completion and refund.                                                  *)

BeginPayTx(t, pc, o, share) ==
  /\ payTx[t].pc = "idle"
  /\ payOrder[o].status # "none"
  /\ payTx' = [payTx EXCEPT ![t] = [pc |-> pc, order |-> o, share |-> share]]
  /\ UNCHANGED <<payOrder, channelVars, checkout, gateway, payHolder, entries, commission>>

\* HandleEasyPayNotification: the channel reports what it was paid, any number
\* of times.  Its callback can be verified while its row is there.
Notify(t, o) ==
  /\ gateway[o] = "paid"
  /\ payOrder[o].channel \in Channels
  /\ channel[payOrder[o].channel] \in {"on", "off"}
  /\ BeginPayTx(t, "complete", o, FALSE)

AdminComplete(t, o, share) == BeginPayTx(t, "complete", o, share)

AdminRefund(t, o) == BeginPayTx(t, "refund", o, FALSE)

\* SELECT ... FOR UPDATE and the look at the status.
LockPayOrder(t) ==
  LET o == payTx[t].order
      from == IF payTx[t].pc = "complete" THEN "pending" ELSE "completed"
      next == IF payTx[t].pc = "complete" THEN "grant" ELSE "take"
  IN  /\ payTx[t].pc \in {"complete", "refund"}
      /\ OrderIsFree(o)
      /\ IF PayStatusIs(o, {from})
         THEN /\ payTx' = [payTx EXCEPT ![t].pc = next]
              /\ payHolder' = [payHolder EXCEPT ![o] = t]
         ELSE /\ payTx' = [payTx EXCEPT ![t] = NoPayTx]
              /\ UNCHANGED payHolder
      /\ UNCHANGED <<payOrder, channelVars, checkout, gateway, entries, commission>>

PayTxEnds(t) ==
  /\ payTx' = [payTx EXCEPT ![t] = NoPayTx]
  /\ payHolder' = [o \in PayOrders |-> IF payHolder[o] = t THEN NoPay ELSE payHolder[o]]

\* settleAffiliateCommissionWithTx
Settled(o, share) ==
  IF share /\ commission[o].status = "none"
  THEN [commission EXCEPT ![o] = [status |-> "settled", reward |-> @.reward + 1,
                                  reversal |-> @.reversal]]
  ELSE commission

\* reverseAffiliateCommissionWithTx
Reversed(o) ==
  IF commission[o].status = "settled"
  THEN [commission EXCEPT ![o].status = "reversed", ![o].reversal = @ + 1]
  ELSE commission

CommitCompletion(t) ==
  LET o == payTx[t].order
  IN  /\ payTx[t].pc = "grant"
      /\ SetPayStatus(o, "completed")
      /\ entries' = [entries EXCEPT ![o].recharge = @ + 1]
      /\ commission' = Settled(o, payTx[t].share)
      /\ PayTxEnds(t)
      /\ UNCHANGED <<channelVars, checkout, gateway>>

\* The credits, and the commission of the referrer, are taken back only from balances that
\* cover them: otherwise the refund fails as a whole (AbortPayTx).
CommitRefund(t) ==
  LET o == payTx[t].order
  IN  /\ payTx[t].pc = "take"
      /\ SetPayStatus(o, "refunded")
      /\ entries' = [entries EXCEPT ![o].refund = @ + 1]
      /\ commission' = Reversed(o)
      /\ PayTxEnds(t)
      /\ UNCHANGED <<channelVars, checkout, gateway>>

\* ROLLBACK
AbortPayTx(t) ==
  /\ payTx[t].pc # "idle"
  /\ PayTxEnds(t)
  /\ UNCHANGED <<payOrder, channelVars, checkout, gateway, entries, commission>>

CancelPayOrder(o) ==
  /\ OrderIsFree(o)
  /\ PayStatusIs(o, {"pending", "failed"})
  /\ SetPayStatus(o, "cancelled")
  /\ UNCHANGED <<channelVars, checkout, gateway, moneyVars>>

-----------------------------------------------------------------------------

PaymentFlowNext ==
  \/ \E c \in Channels :
       \/ CreateChannel(c) \/ EnableChannel(c) \/ EditChannel(c)
       \/ \E edit \in {"off", "gone"} : CheckChannel(c, edit)
  \/ \E o \in PayOrders :
       \/ ChooseChannel(o) \/ InsertPayOrder(o) \/ AskGateway(o) \/ AttachPayment(o)
       \/ MarkOrderFailed(o) \/ CheckoutDies(o) \/ Pay(o) \/ CancelPayOrder(o)
       \/ \E t \in PayTxs :
            \/ Notify(t, o) \/ AdminRefund(t, o)
            \/ \E share \in BOOLEAN : AdminComplete(t, o, share)
  \/ \E t \in PayTxs : LockPayOrder(t) \/ CommitCompletion(t) \/ CommitRefund(t) \/ AbortPayTx(t)

PaymentFlowSpec == PaymentFlowInit /\ [][PaymentFlowNext]_paymentVars

-----------------------------------------------------------------------------

\* The entries of an order agree with its status, however often and by whom it
\* is completed, refunded and cancelled: its credits are recharged once when it
\* is completed and taken back once when it is refunded, and its commission is
\* paid at most once and taken back with them.
MoneyFollowsOrders ==
  \A o \in PayOrders :
    /\ entries[o].recharge = IF PayStatusIs(o, {"completed", "refunded"}) THEN 1 ELSE 0
    /\ entries[o].refund = IF PayStatusIs(o, {"refunded"}) THEN 1 ELSE 0
    /\ commission[o].reward <= entries[o].recharge
    /\ commission[o].reversal = IF PayStatusIs(o, {"refunded"})
                                THEN commission[o].reward ELSE 0

=============================================================================
