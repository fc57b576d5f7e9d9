------------------------------- MODULE Copies -------------------------------
(***************************************************************************)
(* What is copied from one place to another: accounts between this service *)
(* and a remote one (AccountSync), accounts and pictures when the storage  *)
(* is moved (RuntimeConfig).  They share no state; what both promise of a  *)
(* copy is one promise.                                                    *)
(***************************************************************************)
EXTENDS AccountSync, RuntimeConfig

\* What is copied while nobody else changes it arrives whole: the accounts of a sync with
\* the other pool (AccountSync), the data of a save that moves the storage (RuntimeConfig);
\* and such a save loses nothing when it is cut short.
QuietCopiesAreWhole == QuietSyncAgrees /\ CalmSavesKeepData /\ CutShortSavesLoseNothing

=============================================================================
