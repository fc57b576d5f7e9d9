---------------------------- MODULE MCCreditStore ----------------------------
(***************************************************************************)
(* Two users, the second invited by the first, who pays for a generation. *)
(***************************************************************************)
EXTENDS CreditStore, TLC

CONSTANTS u1, u2, g1

MCOwner == (g1 :> u2)
MCReferrer == (u1 :> NoUser) @@ (u2 :> u1)
MCRank == (u1 :> 0) @@ (u2 :> 1)
=============================================================================
