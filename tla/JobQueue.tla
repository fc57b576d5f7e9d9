------------------------------ MODULE JobQueue ------------------------------
(***************************************************************************)
(* The way of a submitted job to the worker loop that claims it: the       *)
(* notification, which a full channel, Redis or a crash may lose, and the  *)
(* drains that make up for it.  What the claimed execution does is the     *)
(* subject of ImageJob and JobCapacity; here it may save its row as queued *)
(* again while it waits for admission, and it ends.                        *)
(*                                                                         *)
(* Job ids are not used twice: the web client and the v1 interface make a  *)
(* new one for every submission.                                           *)
(***************************************************************************)
EXTENDS Integers, FiniteSets, Sequences, SequencesExt

CONSTANTS
  Jobs,
  Instances,    \* processes of the service
  ChannelSize,  \* 128 notifications
  BatchSize,    \* businessImageJobWorkerBatchSize
  MaxCrashes,   \* bound
  Drain         \* the notification without a job id

ASSUME JobQueueAssumption ==
  /\ ChannelSize \in Nat \ {0} /\ BatchSize \in Nat \ {0} /\ MaxCrashes \in Nat
  /\ Drain \notin Jobs

VARIABLES
  backend,    \* job_queue.backend, "local" or "redis", the same everywhere
  job,        \* business_image_jobs
  created,    \* the rows in the order of created_at
  notifying,  \* jobs that are saved and whose request has not notified yet
  redis,      \* the Redis list of job ids
  channel,    \* the notifications of an instance
  worker,     \* businessImageJobWorkerLoop
  crashes

vars == <<backend, job, created, notifying, redis, channel, worker, crashes>>

-----------------------------------------------------------------------------

\* leased: a lease that has not run out protects the row against claims
\* claimed: attempts > 0
\* executing: history; some execution of the job is alive
Row == [status: {"none", "queued", "left"},
        leased: BOOLEAN, claimed: BOOLEAN, executing: BOOLEAN]

NoRow == [status |-> "none", leased |-> FALSE, claimed |-> FALSE, executing |-> FALSE]

\* A row that is no longer queued is not followed any further.
LeftRow == [NoRow EXCEPT !.status = "left"]

Worker == [pc: {"idle", "list", "claim"}, batch: Seq(Jobs), recovered: Nat]

IdleWorker == [pc |-> "idle", batch |-> <<>>, recovered |-> 0]

\* What ListQueued finds, and what the update of a claim requires.
Claimable(j) == job[j].status = "queued" /\ ~job[j].leased

-----------------------------------------------------------------------------
(* Notifications.                                                          *)

\* A full channel drops what it is sent.
NotifyLocal(i, n) ==
  /\ channel' = IF Len(channel[i]) < ChannelSize
                THEN [channel EXCEPT ![i] = Append(@, n)]
                ELSE channel
  /\ UNCHANGED redis

\* RPUSH; when it fails the instance asks itself to drain.
NotifyRedis(i, j) == \/ redis' = Append(redis, j) /\ UNCHANGED channel
                     \/ NotifyLocal(i, Drain)

\* (Variation: the request notifies before it saves.)
SaveLater(j) ==
  /\ job[j].status = "none"
  /\ notifying' = notifying \cup {j}
  /\ IF j \in notifying
     THEN job' = [job EXCEPT ![j].status = "queued"] /\ created' = Append(created, j)
     ELSE UNCHANGED <<job, created>>
  /\ UNCHANGED <<backend, redis, channel, worker, crashes>>

\* SaveQueuedWithCapacity, once it accepts the job.
SaveQueued(j) ==
  /\ job[j].status = "none"
  /\ job' = [job EXCEPT ![j].status = "queued"]
  /\ created' = Append(created, j)
  /\ notifying' = notifying \cup {j}
  /\ UNCHANGED <<backend, redis, channel, worker, crashes>>

\* A job that risk control refuses is saved as failed, and notified all the same.
SaveRefused(j) ==
  /\ job[j].status = "none"
  /\ job' = [job EXCEPT ![j] = LeftRow]
  /\ created' = Append(created, j)
  /\ notifying' = notifying \cup {j}
  /\ UNCHANGED <<backend, redis, channel, worker, crashes>>

NotifyJob(j, i) ==
  /\ j \in notifying
  /\ notifying' = notifying \ {j}
  /\ \/ backend = "local" /\ NotifyLocal(i, j)
     \/ backend = "redis" /\ NotifyRedis(i, j)
  /\ UNCHANGED <<backend, job, created, worker, crashes>>

\* (Variation: a tick of the local dispatcher does nothing.)
WakeWithRedis(i) ==
  /\ \/ backend = "redis" /\ NotifyLocal(i, Drain)
     \/ backend = "local" /\ UNCHANGED <<channel, redis>>
  /\ UNCHANGED <<backend, job, created, notifying, worker, crashes>>

\* The maintenance tick, and a BLPOP that fails.
Wake(i) ==
  /\ NotifyLocal(i, Drain)
  /\ UNCHANGED <<backend, job, created, notifying, worker, crashes>>

\* BLPOP by the dispatcher of one of the instances.
Pop(i) ==
  /\ redis # <<>>
  /\ redis' = Tail(redis)
  /\ channel' = IF Len(channel[i]) < ChannelSize
                THEN [channel EXCEPT ![i] = Append(@, Head(redis))]
                ELSE channel
  /\ UNCHANGED <<backend, job, created, notifying, worker, crashes>>

-----------------------------------------------------------------------------
(* The worker loop of an instance.                                         *)

\* The update of a claim, which starts an execution.
Claim(j) ==
  job' = [job EXCEPT ![j].leased = TRUE, ![j].claimed = TRUE, ![j].executing = TRUE]

\* A notification with an id is one claim, one without an id a drain.
Receive(i) ==
  /\ worker[i].pc = "idle"
  /\ channel[i] # <<>>
  /\ channel' = [channel EXCEPT ![i] = Tail(@)]
  /\ LET n == Head(channel[i])
     IN  \/ /\ n = Drain
            /\ worker' = [worker EXCEPT ![i].pc = "list"]
            /\ UNCHANGED job
         \/ n # Drain /\ Claimable(n) /\ Claim(n) /\ UNCHANGED worker
         \/ n # Drain /\ ~Claimable(n) /\ UNCHANGED <<worker, job>>
  /\ UNCHANGED <<backend, created, notifying, redis, crashes>>

ListQueued(i) ==
  /\ worker[i].pc = "list"
  /\ LET found == {k \in DOMAIN created : Claimable(created[k])}
         oldest == {k \in found : Cardinality({l \in found : l < k}) < BatchSize}
     IN  \E row \in SetToSeqs(oldest) :
           /\ \A a, b \in DOMAIN row : a < b => row[a] < row[b]
           /\ worker' = [worker EXCEPT ![i] =
                IF oldest = {} THEN IdleWorker
                ELSE [pc |-> "claim", batch |-> [r \in DOMAIN row |-> created[row[r]]],
                      recovered |-> 0]]
  /\ UNCHANGED <<backend, job, created, notifying, redis, channel, crashes>>

\* The worker after the claim of its next row: a full batch, all claimed, is
\* followed by another one.
AfterClaim(w, claimed) ==
  IF Len(w.batch) > 1
  THEN [w EXCEPT !.batch = Tail(@), !.recovered = @ + claimed]
  ELSE [IdleWorker EXCEPT !.pc = IF w.recovered + claimed < BatchSize THEN "idle" ELSE "list"]

\* A row another worker has claimed in the meantime is skipped.
ClaimNext(i) ==
  /\ worker[i].pc = "claim"
  /\ LET j == Head(worker[i].batch)
     IN  \/ /\ Claimable(j)
            /\ Claim(j)
            /\ worker' = [worker EXCEPT ![i] = AfterClaim(@, 1)]
         \/ /\ ~Claimable(j)
            /\ worker' = [worker EXCEPT ![i] = AfterClaim(@, 0)]
            /\ UNCHANGED job
  /\ UNCHANGED <<backend, created, notifying, redis, channel, crashes>>

\* The context of a drain ends after ten seconds: what is left of it fails.
DrainTimesOut(i) ==
  /\ worker[i].pc # "idle"
  /\ worker' = [worker EXCEPT ![i] = IdleWorker]
  /\ UNCHANGED <<backend, job, created, notifying, redis, channel, crashes>>

-----------------------------------------------------------------------------
(* What else happens to a row, and to a process.                           *)

\* An execution that waits for admission saves the row as queued, without a
\* lease: the next drain claims it again.
SaveWaiting(j) ==
  /\ job[j].executing
  /\ job[j].status = "queued"
  /\ job' = [job EXCEPT ![j].leased = FALSE]
  /\ UNCHANGED <<backend, created, notifying, redis, channel, worker, crashes>>

\* The execution is admitted and the job runs, or it is refused and fails.
EndWaiting(j) ==
  /\ job[j].executing
  /\ job[j].status = "queued"
  /\ job' = [job EXCEPT ![j] = LeftRow]
  /\ UNCHANGED <<backend, created, notifying, redis, channel, worker, crashes>>

\* The job is cancelled, or it gets too old in the queue.
Leave(j) ==
  /\ job[j].status = "queued"
  /\ job' = [job EXCEPT ![j] = LeftRow]
  /\ UNCHANGED <<backend, created, notifying, redis, channel, worker, crashes>>

LeaseRunsOut(j) ==
  /\ job[j].leased
  /\ job' = [job EXCEPT ![j].leased = FALSE]
  /\ UNCHANGED <<backend, created, notifying, redis, channel, worker, crashes>>

\* A process dies and starts again: its memory is lost, with it the requests
\* and the executions it ran (which ones is not recorded), and the first thing
\* it does is to wake its worker.
Crash(i) ==
  /\ crashes < MaxCrashes
  /\ crashes' = crashes + 1
  /\ channel' = [channel EXCEPT ![i] = <<Drain>>]
  /\ worker' = [worker EXCEPT ![i] = IdleWorker]
  /\ \E dead \in SUBSET Jobs :
       /\ notifying' = notifying \ dead
       /\ job' = [j \in Jobs |-> IF j \in dead THEN [job[j] EXCEPT !.executing = FALSE]
                                               ELSE job[j]]
  /\ UNCHANGED <<backend, created, redis>>

-----------------------------------------------------------------------------

Init ==
  /\ backend \in {"local", "redis"}
  /\ job = [j \in Jobs |-> NoRow]
  /\ created = <<>>
  /\ notifying = {}
  /\ redis = <<>>
  /\ channel = [i \in Instances |-> <<>>]
  /\ worker = [i \in Instances |-> IdleWorker]
  /\ crashes = 0

Next ==
  \/ \E j \in Jobs : \/ SaveQueued(j) \/ SaveRefused(j) \/ SaveWaiting(j) \/ EndWaiting(j)
                     \/ Leave(j) \/ LeaseRunsOut(j)
  \/ \E j \in Jobs, i \in Instances : NotifyJob(j, i)
  \/ \E i \in Instances : \/ Wake(i) \/ Pop(i) \/ Receive(i) \/ ListQueued(i)
                          \/ ClaimNext(i) \/ DrainTimesOut(i) \/ Crash(i)

\* The ticks of the maintenance come again and again and each worker loop goes
\* on; not every drain runs into its time limit; admission answers or times out.
Fairness ==
  /\ \A i \in Instances : /\ WF_vars(Wake(i)) /\ WF_vars(Receive(i))
                          /\ SF_vars(ListQueued(i)) /\ SF_vars(ClaimNext(i))
  /\ \A j \in Jobs : WF_vars(EndWaiting(j))

Spec == Init /\ [][Next]_vars /\ Fairness

-----------------------------------------------------------------------------

TypeOK ==
  /\ backend \in {"local", "redis"}
  /\ job \in [Jobs -> Row]
  /\ created \in Seq(Jobs)
  /\ notifying \subseteq Jobs
  /\ redis \in Seq(Jobs)
  /\ channel \in [Instances -> Seq(Jobs \cup {Drain})]
  /\ worker \in [Instances -> Worker]
  /\ crashes \in 0..MaxCrashes

Waiting == {j \in Jobs : job[j].status = "queued" /\ ~job[j].claimed}

Rows == {j \in Jobs : job[j].status # "none"}

Known(s) == ToSet(s) \ {Drain} \subseteq Rows

\* The queue stays whole, whatever is dropped, comes late or dies: whoever
\* hears of a job finds its row (handleProviderImageGenerateSubmit saves
\* before it notifies), every row is there once for the drains to find, a drain has each
\* row once and claims no more than a batch before it looks again, and only
\* claims give a lease or start an execution.
QueueIsWhole ==
  /\ IsInjective(created) /\ ToSet(created) = Rows
  /\ notifying \subseteq Rows /\ Known(redis)
  /\ \A i \in Instances :
       /\ Known(channel[i]) /\ Len(channel[i]) <= ChannelSize
       /\ Known(worker[i].batch) /\ IsInjective(worker[i].batch)
       /\ Len(worker[i].batch) + worker[i].recovered <= BatchSize
  /\ \A j \in Jobs : job[j].leased \/ job[j].executing => job[j].claimed

\* However many notifications a full channel, Redis or a crash loses, and
\* whatever other rows the drains find first, every job in the queue is
\* claimed, unless it leaves the queue before.
EveryJobIsClaimed == \A j \in Jobs : j \in Waiting ~> j \notin Waiting

=============================================================================
