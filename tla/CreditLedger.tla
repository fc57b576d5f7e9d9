---------------------------- MODULE CreditLedger ----------------------------
(***************************************************************************)
(* What the credit store promises its callers: every change of a wallet    *)
(* happens at once or not at all, is written to the ledger with it, never  *)
(* overdraws the wallet and, for a generation, never returns more than was *)
(* reserved.                                                               *)
(***************************************************************************)
EXTENDS Integers

CONSTANTS
  Users,     \* owners of wallets
  Gens,      \* generations that credits are reserved for
  Owner,     \* who pays for a generation
  Referrer,  \* who invited a user, or NoUser
  NoUser     \* "nobody"

ASSUME LedgerAssumption ==
  /\ Owner \in [Gens -> Users]
  /\ Referrer \in [Users -> Users \cup {NoUser}]
  /\ NoUser \notin Users

VARIABLES
  balance,   \* business_user_credits.balance
  posted,    \* sum of business_credit_ledger.delta of a user
  reserved,  \* GenerationTotals.Reserved
  refunded   \* GenerationTotals.Refunded

ledgerVars == <<balance, posted, reserved, refunded>>

LedgerInit ==
  /\ balance = [u \in Users |-> 0]
  /\ posted = [u \in Users |-> 0]
  /\ reserved = [g \in Gens |-> 0]
  /\ refunded = [g \in Gens |-> 0]

\* A ledger entry of d for u, together with the new balance.
Post(u, d) ==
  /\ balance[u] + d >= 0
  /\ balance' = [balance EXCEPT ![u] = @ + d]
  /\ posted' = [posted EXCEPT ![u] = @ + d]

ReserveFor(g, n) ==
  /\ n > 0
  /\ Post(Owner[g], -n)
  /\ reserved' = [reserved EXCEPT ![g] = @ + n]
  /\ UNCHANGED refunded

RefundFor(g, n) ==
  /\ 0 < n /\ n <= reserved[g] - refunded[g]
  /\ Post(Owner[g], n)
  /\ refunded' = [refunded EXCEPT ![g] = @ + n]
  /\ UNCHANGED reserved

\* A recharge, a redeemed code, an adjustment or a refunded order: the wallet
\* of u and, at the same moment, the commission of whoever invited u.
Book(u) ==
  LET touched == {u, Referrer[u]} \cap Users
  IN  /\ balance' \in [Users -> Nat] /\ posted' \in [Users -> Int]
      /\ \A v \in Users : balance'[v] - balance[v] = posted'[v] - posted[v]
      /\ \A v \in Users \ touched : balance'[v] = balance[v]
      /\ UNCHANGED <<reserved, refunded>>

LedgerNext ==
  \/ \E g \in Gens : \E n \in 1 .. balance[Owner[g]] : ReserveFor(g, n)
  \/ \E g \in Gens : \E n \in 1 .. (reserved[g] - refunded[g]) : RefundFor(g, n)
  \/ \E u \in Users : Book(u)

LedgerSpec == LedgerInit /\ [][LedgerNext]_ledgerVars
=============================================================================
