--------------------------- MODULE MCSubscription ---------------------------
(* Instances of Subscription for TLC: two packages, the better one dearer. *)
EXTENDS Subscription, TLC

CONSTANTS Basic, Better

MCPackages == {Basic, Better}
MCAmount == Basic :> 1 @@ Better :> 2
MCCredits == Basic :> 1 @@ Better :> 2
MCUpgradeCredits == {2}

Symmetry == Permutations(Orders) \cup Permutations(Subs) \cup Permutations(Txs)
            \cup Permutations(Generations)
=============================================================================
