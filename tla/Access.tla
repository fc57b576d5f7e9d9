-------------------------------- MODULE Access --------------------------------
(***************************************************************************)
(* Who gets in, and how: the accounts that come to be with their codes     *)
(* (Registration), the sessions of users (Users) and the keys of the       *)
(* external interface (ApiKeys).  The three share no state; what the last  *)
(* two promise is one promise.                                             *)
(***************************************************************************)
EXTENDS Registration, Users, ApiKeys

\* Who gets in: under one key of the limiter, guesses pass the limit by fewer than the
\* requests at one time, no session that was ended is valid again and no restored user
\* is lost (Users); and a user has no more keys than the limit, those a crossing update
\* brought back aside (ApiKeys).
AccessHolds == UsersConsistent /\ SelfServeLimitHolds

=============================================================================
