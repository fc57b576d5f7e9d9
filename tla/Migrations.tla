----------------------------- MODULE Migrations -----------------------------
(***************************************************************************)
(* The migrations of the database when instances of one or of two releases *)
(* start at the same time: an advisory lock, a table of the versions that  *)
(* were applied, and one transaction per migration.  The lock belongs to   *)
(* the session of the connection that took it, which the statements of a   *)
(* start use one after the other as the only one in the pool, until it is  *)
(* too old or breaks: the next statement then goes on over another         *)
(* connection, without the lock.  A start has ten seconds for all of it,   *)
(* the wait for the lock included.                                         *)
(***************************************************************************)
EXTENDS Integers, Sequences, FiniteSetsExt

CONSTANTS
  Starters,     \* instances that start
  Shipped,      \* how many migrations the release of an instance has
  MaxRestarts,  \* bound on crashes and new starts
  Nobody

ASSUME MigrationsAssumption ==
  Shipped \in [Starters -> Nat \ {0}] /\ MaxRestarts \in Nat /\ Nobody \notin Starters

VARIABLES
  locked,    \* whose connection holds pg_advisory_lock
  versions,  \* schema_migrations
  schema,    \* what the transactions did to the tables, one after the other
  starter,   \* the instances: where they are in Migrate
  restarts,
  dropped    \* history: a start lost the connection that held the lock

migrationVars == <<locked, versions, schema, starter, restarts, dropped>>

\* at: the migration it looks at
Starter == [pc: {"down", "lock", "look", "apply", "unlock", "up", "late", "refused"},
            at: Nat]

Down == [pc |-> "down", at |-> 1]

StarterGoes(s, pc) == starter' = [starter EXCEPT ![s].pc = pc]
StarterAt(s, pc) == starter[s].pc = pc

Start(s) ==
  /\ StarterAt(s, "down")
  /\ starter' = [starter EXCEPT ![s] = [pc |-> "lock", at |-> 1]]
  /\ UNCHANGED <<locked, versions, schema, restarts, dropped>>

\* (Variation: the lock of the capacity checks, which ends with its transaction.)
LockForOneStatement(s) == UNCHANGED locked

\* lockPostgresMigrations waits for the lock.
LockMigrations(s) == locked = Nobody /\ locked' = s

Unlocked(s) == locked' = IF locked = s THEN Nobody ELSE locked

Lock(s) ==
  /\ StarterAt(s, "lock")
  /\ LockMigrations(s)
  /\ StarterGoes(s, "look")
  /\ UNCHANGED <<versions, schema, restarts, dropped>>

\* The ten seconds of openPrimaryDatabase are over, or a statement fails: the lock is
\* given back or ends with the pool.  A commit may have come through before.
TimesOut(s) ==
  /\ \E pc \in {"lock", "look", "apply"} : StarterAt(s, pc)
  /\ StarterGoes(s, "late")
  /\ Unlocked(s)
  /\ UNCHANGED <<versions, schema, restarts, dropped>>

\* The connection of the lock ends between two statements.
DropConnection(s) ==
  /\ locked = s /\ locked' = Nobody
  /\ dropped' = TRUE
  /\ UNCHANGED <<versions, schema, starter, restarts>>

\* applyMigration: a version that is there is passed over.
Look(s) ==
  LET n == starter[s].at
  IN  /\ StarterAt(s, "look")
      /\ starter' = [starter EXCEPT ![s] =
           IF n > Shipped[s] THEN [@ EXCEPT !.pc = "unlock"]
           ELSE IF n \in versions THEN [@ EXCEPT !.at = n + 1]
           ELSE [@ EXCEPT !.pc = "apply"]]
      /\ UNCHANGED <<locked, versions, schema, restarts, dropped>>

\* The transaction: the statements and the version commit together.  What another
\* start has done meanwhile makes the statements or the primary key refuse.
Apply(s) ==
  LET n == starter[s].at
  IN  /\ StarterAt(s, "apply")
      /\ IF n \in versions
         THEN StarterGoes(s, "refused") /\ Unlocked(s) /\ UNCHANGED <<versions, schema>>
         ELSE /\ versions' = versions \cup {n}
              /\ schema' = Append(schema, n)
              /\ starter' = [starter EXCEPT ![s] = [pc |-> "look", at |-> n + 1]]
              /\ UNCHANGED locked
      /\ UNCHANGED <<restarts, dropped>>

Unlock(s) ==
  /\ StarterAt(s, "unlock")
  /\ Unlocked(s)
  /\ StarterGoes(s, "up")
  /\ UNCHANGED <<versions, schema, restarts, dropped>>

\* A crash rolls an open transaction back and ends the session.  An instance whose start
\* failed is started anew the same way.
CrashStarter(s) ==
  /\ restarts < MaxRestarts
  /\ ~StarterAt(s, "down")
  /\ restarts' = restarts + 1
  /\ Unlocked(s)
  /\ starter' = [starter EXCEPT ![s] = Down]
  /\ UNCHANGED <<versions, schema, dropped>>

MigrationsInit ==
  /\ locked = Nobody
  /\ versions \in {1..n : n \in 0..Max({Shipped[s] : s \in Starters})}
  /\ schema = [i \in 1..Cardinality(versions) |-> i]
  /\ starter = [s \in Starters |-> Down]
  /\ restarts = 0
  /\ dropped = FALSE

MigrationsNext ==
  \E s \in Starters :
    \/ Start(s) \/ Lock(s) \/ Look(s) \/ Apply(s) \/ Unlock(s)
    \/ TimesOut(s) \/ DropConnection(s) \/ CrashStarter(s)

MigrationsSpec == MigrationsInit /\ [][MigrationsNext]_migrationVars

MigrationsTypeOK ==
  /\ locked \in Starters \cup {Nobody}
  /\ versions \subseteq Nat
  /\ schema \in Seq(Nat)
  /\ starter \in [Starters -> Starter]
  /\ restarts \in 0..MaxRestarts
  /\ dropped \in BOOLEAN

\* However many instances start, crash, run out of time or lose their connection, each
\* migration runs once and in order, and an instance that is up finds all of its release.
\* What another start has applied makes none fail, as long as no start has lost the
\* connection that held the lock; a start that only waits for another may still be late.
MigrationsRunOnce ==
  /\ \A i \in DOMAIN schema : schema[i] = i
  /\ \A s \in Starters : StarterAt(s, "up") => 1..Shipped[s] \subseteq versions
  /\ \A s \in Starters : StarterAt(s, "refused") => dropped
=============================================================================
