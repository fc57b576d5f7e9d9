---------------------------- MODULE PaymentOrder ----------------------------
(***************************************************************************)
(* What the payments promise of an order: it is granted once, when it is   *)
(* completed, and what it granted is taken back once, when it is refunded. *)
(* Subscription and PaymentFlow implement it, for orders that grant a      *)
(* subscription and orders that grant credits.                             *)
(***************************************************************************)

CONSTANT Orders

VARIABLES
  status,  \* of an order
  grant    \* what it has granted: nothing, "given", "replaced" by another grant,
           \* or "taken" back

vars == <<status, grant>>

Place(o) ==
  /\ status[o] = "none"
  /\ status' = [status EXCEPT ![o] = "pending"]
  /\ UNCHANGED grant

Close(o) ==
  /\ \/ status[o] = "pending" /\ status' = [status EXCEPT ![o] = "failed"]
     \/ status[o] \in {"pending", "failed"} /\ status' = [status EXCEPT ![o] = "cancelled"]
  /\ UNCHANGED grant

\* The grant of an order may replace those of others.
Complete(o) ==
  /\ status[o] = "pending"
  /\ status' = [status EXCEPT ![o] = "completed"]
  /\ \E replaced \in SUBSET {p \in Orders : grant[p] = "given"} :
       grant' = [p \in Orders |-> IF p = o THEN "given"
                                  ELSE IF p \in replaced THEN "replaced" ELSE grant[p]]

Refund(o) ==
  /\ status[o] = "completed"
  /\ status' = [status EXCEPT ![o] = "refunded"]
  /\ grant' = [grant EXCEPT ![o] = "taken"]

Init ==
  /\ status = [o \in Orders |-> "none"]
  /\ grant = [o \in Orders |-> "none"]

Next == \E o \in Orders : Place(o) \/ Close(o) \/ Complete(o) \/ Refund(o)

Spec == Init /\ [][Next]_vars

=============================================================================
