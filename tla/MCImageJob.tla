----------------------------- MODULE MCImageJob -----------------------------
(***************************************************************************)
(* Instances of ImageJob for TLC.  Instances and cancel requests are model *)
(* values that no property tells apart.                                    *)
(***************************************************************************)
EXTENDS ImageJobProperties, TLC

\* Not for runs that check liveness.
Symmetric == Permutations(Instances) \cup Permutations(Cancels)
=============================================================================
