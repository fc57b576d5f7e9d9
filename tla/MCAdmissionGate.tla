-------------------------- MODULE MCAdmissionGate ---------------------------
(***************************************************************************)
(* Instances of AdmissionGate for TLC: settings that differ in the number  *)
(* of slots and in the rest, so that half-read ones are a third key.       *)
(***************************************************************************)
EXTENDS AdmissionGate, TLC

Narrow == [max |-> 1, limit |-> 2]
Wide == [max |-> 2, limit |-> 1]
LongQueue == [max |-> 1, limit |-> 1]

BothSettings == {Narrow, Wide}

\* Only the queue changes: one image at a time all along.
OneSlot == {Narrow, LongQueue}

\* Not for runs that check liveness.
Symmetric == Permutations(Callers)
=============================================================================
