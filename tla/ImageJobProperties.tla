------------------------- MODULE ImageJobProperties -------------------------
(***************************************************************************)
(* What the life of an image job promises to the user who pays for it, to  *)
(* the conversation that shows it and to the operator who restarts the     *)
(* backend in the middle of it.                                            *)
(***************************************************************************)
EXTENDS ImageJob

\* Nobody works on the job any more and its status says so.
Settled == Quiet /\ row.job.status \in Final

Called == \E e \in Execs : ex[e].started

\* Some committed reserve was reported to its execution as an error.
Unheard == \E e \in Execs : ex[e].unheard

NobodyCancelled == \A c \in Cancels : cx[c].pc = "idle"

\* A cancel request found the job before its upstream call and went on to
\* refund it, however far the execution had come by then.
CancelledEarly ==
  \E c \in Cancels : cx[c].early /\ cx[c].item.status \in CancelStatus

-----------------------------------------------------------------------------
(* Credits.                                                                *)

\* An execution that failed over has saved the lease it remembered from the
\* start; by the clock it may be over, and the job reconciled under it.
Outlived == Clock /\ \E e \in Execs : ex[e].failover

\* With refunds on failure switched on, a job that ends as failed has cost
\* nothing, whether its execution, the reconciler after a crash, or both
\* refunded it.  Two exceptions: a reserve that was committed but reported
\* as failed because the user cancelled in between, and an execution that
\* reserves for extra images after the reconciler failed its job.
FailureIsFree ==
  Settled /\ row.job.status = "failed" /\ RefundOnFailure
          /\ ~Unheard /\ ~Outlived
    => Outstanding = 0

\* A job cancelled before any execution called the provider has cost
\* nothing: whoever comes last, the handler or the execution, refunds it.
\* Not promised after a crash, nor for a reserve reported as failed.
CancelBeforeUpstreamIsFree ==
  Settled /\ row.job.status = "cancelled" /\ ~Called /\ ~Unheard
          /\ crashes = 0
    => Outstanding = 0

\* What n delivered images cost.
Bill(n) == IF (RefundPartial /\ RefundOnFailure) \/ n > Requested
           THEN n ELSE Requested

\* A delivered job never costs more than its bill, at no time, whoever
\* crashes, cancels or reconciles it on the way: an image too many is reserved
\* for once, and a missing one is not charged for.
DeliveryCostsItsBill ==
  \A e \in Execs :
    "succeeded" \in {row.job.status, gen} => Outstanding <= Bill(ex[e].images)

\* What was not delivered costs nothing in the end, neither after a failure
\* (executeProviderImageGenerate, the reconciler) nor after a cancellation
\* before the provider was called (handleCancelBusinessImageJob) nor beside
\* what was delivered.
EndingsAreFree ==
  FailureIsFree /\ CancelBeforeUpstreamIsFree /\ DeliveryCostsItsBill

\* Delivered images are paid for, each one once: after part of the price
\* went back for missing images or more was reserved for extra ones, the
\* ledger holds exactly the bill.  An early cancel whose refund comes after
\* the answer is the only way to keep images without paying.
PicturesArePaid ==
  \A e \in Execs :
    Settled /\ ~CancelledEarly /\ "succeeded" \in {row.job.status, gen}
      => Outstanding = Bill(ex[e].images)

\* The mark "sent upstream", which denies refunds from then on, is set on
\* the row only when an execution really went to the provider, however the
\* copies of the row travelled through handlers and executions.
SentMeansCalled == HasUpstreamSent(row.job) => Called

-----------------------------------------------------------------------------
(* What the conversation shows.                                            *)

\* Without a cancellation a finished job and its generation agree, except
\* that a job refused before it was queued again leaves its generation
\* queued, and that a job failed under an execution that failed over may
\* never have been listed, nor its generation marked.
RowAndGenerationAgree ==
  Settled /\ NobodyCancelled /\ crashes = 0
    => \/ gen = row.job.status
       \/ (gen = "queued" \/ Outlived) /\ row.job.status = "failed"

\* A generation that shows no result although its job is over has never been
\* charged for.  Not promised when an instance crashes under a cancel request:
\* the request may have finished the row and never marked the generation; nor
\* of an execution that failed over: ReconcileStale also fails the row it
\* saved after ListStale, neither refunded nor marked.
UnfinishedIsUncharged ==
  Settled /\ (crashes = 0 \/ NobodyCancelled) /\ gen \notin Final
    => /\ row.job.status = "failed"
       /\ Outlived \/ held["sub"] + held["bal"] = 0

\* The conversation shows what became of the job and what it cost: the two
\* promises above, of generations that finished and of those that did not.
ConversationIsRight == RowAndGenerationAgree /\ UnfinishedIsUncharged

-----------------------------------------------------------------------------
(* Crashes, leases and the reconciler.                                     *)

\* The reconciler never fails a running job whose execution is alive and
\* heartbeating, unless that execution failed over to the API access and so
\* saved the lease it remembered from the start.
SparesTheLiving ==
  (\E i \in Instances : ReconcileUpdate(i))
      /\ row.job.status = "running" /\ row' # row
    => \A e \in Execs :
         InFlight(e) /\ ex[e].beat /\ ex[e].live => ex[e].failover

\* ... whatever step the system takes.
ReconcilerSparesTheLiving == [][SparesTheLiving]_vars

\* Whatever crashes, hangs or is cancelled, the job ends for good.
JobSettles == <>[](row.job.status \in Final)

-----------------------------------------------------------------------------
(* What the documentation says and the code does not do.                   *)

\* Interface.md: the lease of a claim prevents a queued job from being
\* executed twice when the worker is woken up again.
OneExecution ==
  \A d, e \in Execs : InFlight(d) /\ InFlight(e) => d = e

\* Interface.md: a stale cancel_requested job is cancelled and refunded.
StaleCancelRefunds ==
  [][ (\E i \in Instances : ReconcileUpdate(i))
        /\ row.job.status = "cancel_requested" /\ row' # row
      => Called \/ Outstanding = 0 ]_vars

\* Interface.md: a cancellation before the upstream call refunds.
CancelBeforeUpstreamRefunds ==
  Settled /\ row.job.status = "cancelled" /\ ~Called => Outstanding = 0

\* Interface.md: failures of the background runner are written to the job
\* and to the generation.
FailuresReachTheGeneration ==
  Settled /\ row.job.status = "failed" => gen = "failed"
=============================================================================
