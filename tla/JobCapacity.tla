---------------------------- MODULE JobCapacity ----------------------------
(***************************************************************************)
(* The limits on jobs: how many wait in the queue, how many one user has,  *)
(* and how many run on one provider.  Requests and executions of several   *)
(* instances count the rows of others and write their own, in transactions *)
(* under one advisory lock; other saves of the same rows take no lock.     *)
(*                                                                         *)
(* A step is a statement of a transaction or a database call.  Job ids are *)
(* not used twice.                                                         *)
(***************************************************************************)
EXTENDS Integers, FiniteSets

CONSTANTS
  Jobs, JobOwners,
  Owner,              \* the user of a job
  Providers,
  Executions,         \* bound: executions that are alive at one time
  MaxUserActiveJobs, MaxQueuedJobs, MaxProviderRunningJobs,
  Nothing

\* A limit of zero switches its check off; such a limit is not modelled.
ASSUME JobCapacityAssumption ==
  /\ Owner \in [Jobs -> JobOwners]
  /\ MaxUserActiveJobs \in Nat \ {0} /\ MaxQueuedJobs \in Nat \ {0}
  /\ MaxProviderRunningJobs \in Nat \ {0}
  /\ Nothing \notin Jobs \cup Executions
  /\ Jobs \cap Executions = {}
  /\ IsFiniteSet(Jobs) /\ Jobs # {} /\ Providers # {}

VARIABLES
  row,       \* business_image_jobs
  lock,      \* who holds pg_advisory_xact_lock
  submit,    \* the request that submits a job
  execution

capacityVars == <<row, lock, submit, execution>>

-----------------------------------------------------------------------------

\* claimed: attempts > 0
\* steady: history; running since a start that was checked, on the provider of that start
CapacityRow == [status: {"none", "queued", "running", "cancel_requested", "final"},
           provider: Providers, claimed: BOOLEAN, steady: BOOLEAN]

SubmitPC == {"idle", "locked", "counted", "over"}

Execution == [pc: {"none", "claimed", "waiting", "locked", "counted", "running", "ending"},
              job: Jobs, provider: Providers]

Active(j) == row[j].status \in {"queued", "running"}

Queued == {j \in Jobs : row[j].status = "queued"}

ActiveOf(u) == {j \in Jobs : Active(j) /\ Owner[j] = u}

RunningOn(p) == {j \in Jobs : row[j].status = "running" /\ row[j].provider = p}

Executing(j) == \E e \in Executions : execution[e].pc # "none" /\ execution[e].job = j

\* A row that is cancelled or final has left its provider, whatever comes after.
RowBecomes(j, status) ==
  row' = [row EXCEPT ![j].status = status, ![j].steady = FALSE]

SubmitGoes(j, pc) == submit' = [submit EXCEPT ![j] = pc]
ExecutionGoes(e, pc) == execution' = [execution EXCEPT ![e].pc = pc]

\* (Variation: the lock is not taken.)
LockNothing(holder) == lock' = holder

LockCapacity(holder) == lock = Nothing /\ lock' = holder

UnlockCapacity == lock' = Nothing

-----------------------------------------------------------------------------
(* SaveQueuedWithCapacity.                                                 *)

BeginSubmit(j) ==
  /\ submit[j] = "idle"
  /\ LockCapacity(j)
  /\ SubmitGoes(j, "locked")
  /\ UNCHANGED <<row, execution>>

QueueIsFull(j) ==
  \/ Cardinality(ActiveOf(Owner[j])) >= MaxUserActiveJobs
  \/ Cardinality(Queued) >= MaxQueuedJobs

\* checkQueuedCapacity; a refusal rolls the transaction back.
CheckQueuedCapacity(j) ==
  /\ submit[j] = "locked"
  /\ \/ QueueIsFull(j) /\ SubmitGoes(j, "over") /\ UnlockCapacity
     \/ ~QueueIsFull(j) /\ SubmitGoes(j, "counted") /\ UNCHANGED lock
  /\ UNCHANGED <<row, execution>>

\* The insert and the commit that ends the lock.
SaveQueued(j, p) ==
  /\ submit[j] = "counted"
  /\ row' = [row EXCEPT ![j] =
       [status |-> "queued", provider |-> p, claimed |-> FALSE, steady |-> FALSE]]
  /\ SubmitGoes(j, "over")
  /\ UnlockCapacity
  /\ UNCHANGED execution

\* The request is cancelled or its process dies: the transaction is rolled back.
AbortSubmit(j) ==
  /\ submit[j] \in {"locked", "counted"}
  /\ SubmitGoes(j, "over")
  /\ UnlockCapacity
  /\ UNCHANGED <<row, execution>>

-----------------------------------------------------------------------------
(* Executions, as far as others count their row.                           *)

\* A worker claims the row: JobQueue says when it may.
ClaimRow(e, j) ==
  /\ execution[e].pc = "none"
  /\ row[j].status = "queued"
  /\ row' = [row EXCEPT ![j].claimed = TRUE]
  /\ execution' = [execution EXCEPT ![e] =
       [pc |-> "claimed", job |-> j, provider |-> row[j].provider]]
  /\ UNCHANGED <<lock, submit>>

\* saveJob: a final row is kept, anything else is overwritten.  Nothing is
\* counted, so this save may turn a cancelled row into an active one.
SaveJob(e, status, p) ==
  LET j == execution[e].job
  IN  row' = IF row[j].status = "final" THEN row
             ELSE [row EXCEPT ![j].status = status, ![j].provider = p,
                              ![j].steady = @ /\ status = row[j].status /\ p = row[j].provider]

SaveWaiting(e) ==
  /\ execution[e].pc = "claimed"
  /\ SaveJob(e, "queued", execution[e].provider)
  /\ ExecutionGoes(e, "waiting")
  /\ UNCHANGED <<lock, submit>>

\* SaveRunningWithProviderCapacity, once the execution is admitted.
BeginStart(e) ==
  /\ execution[e].pc = "waiting"
  /\ LockCapacity(e)
  /\ ExecutionGoes(e, "locked")
  /\ UNCHANGED <<row, submit>>

\* checkProviderRunningCapacity counts the other rows; refused, the job ends.
CheckProviderRunningCapacity(e) ==
  LET others == RunningOn(execution[e].provider) \ {execution[e].job}
  IN  /\ execution[e].pc = "locked"
      /\ \/ /\ Cardinality(others) >= MaxProviderRunningJobs
            /\ ExecutionGoes(e, "ending")
            /\ UnlockCapacity
         \/ /\ Cardinality(others) < MaxProviderRunningJobs
            /\ ExecutionGoes(e, "counted")
            /\ UNCHANGED lock
      /\ UNCHANGED <<row, submit>>

\* This save does not look at the row: even a final one runs again.
SaveRunning(e) ==
  /\ execution[e].pc = "counted"
  /\ row' = [row EXCEPT ![execution[e].job] =
       [@ EXCEPT !.status = "running", !.provider = execution[e].provider, !.steady = TRUE]]
  /\ ExecutionGoes(e, "running")
  /\ UnlockCapacity
  /\ UNCHANGED submit

\* The saves of a running execution: a stage, or the provider it falls back on.
SaveStage(e, p) ==
  /\ execution[e].pc = "running"
  /\ SaveJob(e, "running", p)
  /\ execution' = [execution EXCEPT ![e].provider = p]
  /\ UNCHANGED <<lock, submit>>

\* finishJob, and the end of the goroutine.
FinishJob(e) ==
  /\ execution[e].pc \in {"claimed", "waiting", "running", "ending"}
  /\ RowBecomes(execution[e].job, "final")
  /\ ExecutionGoes(e, "none")
  /\ UNCHANGED <<lock, submit>>

\* Its process dies.
ExecutionDies(e) ==
  /\ execution[e].pc # "none"
  /\ ExecutionGoes(e, "none")
  /\ lock' = IF lock = e THEN Nothing ELSE lock
  /\ UNCHANGED <<row, submit>>

-----------------------------------------------------------------------------
(* What else happens to a row.                                             *)

RequestCancel(j) ==
  /\ Active(j)
  /\ RowBecomes(j, "cancel_requested")
  /\ UNCHANGED <<lock, submit, execution>>

\* Heartbeats keep the lease of a running execution.
ReconcileStale(j) ==
  /\ \/ row[j].status \in {"queued", "cancel_requested"}
     \/ row[j].status = "running" /\ ~Executing(j)
  /\ RowBecomes(j, "final")
  /\ UNCHANGED <<lock, submit, execution>>

-----------------------------------------------------------------------------

SomeProvider == CHOOSE p \in Providers : TRUE
SomeJob == CHOOSE j \in Jobs : TRUE

CapacityInit ==
  /\ row = [j \in Jobs |-> [status |-> "none", provider |-> SomeProvider,
                            claimed |-> FALSE, steady |-> FALSE]]
  /\ lock = Nothing
  /\ submit = [j \in Jobs |-> "idle"]
  /\ execution = [e \in Executions |->
                    [pc |-> "none", job |-> SomeJob, provider |-> SomeProvider]]

CapacityNext ==
  \/ \E j \in Jobs : \/ BeginSubmit(j) \/ CheckQueuedCapacity(j) \/ AbortSubmit(j)
                     \/ RequestCancel(j) \/ ReconcileStale(j)
  \/ \E j \in Jobs, p \in Providers : SaveQueued(j, p)
  \/ \E e \in Executions, j \in Jobs : ClaimRow(e, j)
  \/ \E e \in Executions : \/ SaveWaiting(e) \/ BeginStart(e)
                           \/ CheckProviderRunningCapacity(e) \/ SaveRunning(e)
                           \/ FinishJob(e) \/ ExecutionDies(e)
  \/ \E e \in Executions, p \in Providers : SaveStage(e, p)

CapacitySpec == CapacityInit /\ [][CapacityNext]_capacityVars

-----------------------------------------------------------------------------

CapacityTypeOK ==
  /\ row \in [Jobs -> CapacityRow]
  /\ lock \in Jobs \cup Executions \cup {Nothing}
  /\ submit \in [Jobs -> SubmitPC]
  /\ execution \in [Executions -> Execution]

Unclaimed == {j \in Queued : ~row[j].claimed}

\* Submissions on several instances at the same time never bring more jobs
\* into the queue than its limit, nor more of one user than the user's limit:
\* each counts and then inserts, and nothing but the lock keeps another one
\* from inserting in between.  (A claimed job may be queued again without a
\* check, so it does not count here.)
SubmissionsWithinLimits ==
  /\ Cardinality(Unclaimed) <= MaxQueuedJobs
  /\ \A u \in JobOwners : Cardinality({j \in Unclaimed : Owner[j] = u}) <= MaxUserActiveJobs

SteadyOn(p) == {j \in RunningOn(p) : row[j].steady}

\* No more rows of a provider are running than its limit allows, of those that are since
\* their checked start, through all the stages they save: a row that was cancelled and
\* revived by a later save, or whose execution fell back on the provider, is not checked.
StartsWithinProviderLimit ==
  \A p \in Providers : Cardinality(SteadyOn(p)) <= MaxProviderRunningJobs

WithinCapacity == SubmissionsWithinLimits /\ StartsWithinProviderLimit

=============================================================================
