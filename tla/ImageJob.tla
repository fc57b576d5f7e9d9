------------------------------ MODULE ImageJob ------------------------------
(***************************************************************************)
(* One image job of Poom Studio from the moment it is queued to the moment *)
(* nobody works on it any more: its row in business_image_jobs, the        *)
(* generation record shown in the conversation, the credits reserved and   *)
(* refunded for it, and everybody who writes them concurrently:            *)
(*   - executions (executeProviderImageGenerate run by a worker goroutine  *)
(*     after a claim), on one of several backend instances;                *)
(*   - cancel requests (handleCancelBusinessImageJob);                     *)
(*   - the stale-job reconciler (reconcileStaleBusinessImageJobs);         *)
(*   - the passing of time (leases, ages) and crashes of an instance.      *)
(*                                                                         *)
(* A step is what runs between two calls on the shared database.  Two      *)
(* calls are one step only where nobody can come between them to any       *)
(* effect: the totals of a generation and the refund they lead to, which   *)
(* its own transaction caps again (CreditStore), the balance and the       *)
(* subscription part of an execution's refund (whoever refunds in between  *)
(* goes on to refund all there is), and the two saves of the payload that  *)
(* follow one another.  A database that fails is left out.                 *)
(***************************************************************************)
EXTENDS Integers, FiniteSets

CONSTANTS
  Instances,        \* backend processes
  Execs,            \* executions; each one runs at most once
  Cancels,          \* cancel requests of the user
  Requested,        \* images asked for; an image costs one credit
  RefundOnFailure,  \* systemSettings.Billing.RefundOnFailure
  RefundPartial,    \* systemSettings.Billing.RefundPartialCount
  PoolFallback,     \* TRUE: a pool member failed over to the API access
  Clock,            \* TRUE: leases and row ages run out
  MaxCrashes,       \* bound on crashes of an instance
  NoOne             \* "no execution"

ASSUME ImageJobAssumption ==
  /\ Requested \in Nat \ {0}
  /\ MaxCrashes \in Nat
  /\ {RefundOnFailure, RefundPartial, PoolFallback, Clock} \subseteq BOOLEAN
  /\ NoOne \notin Execs

VARIABLES
  row,      \* the row of business_image_jobs
  gen,      \* business_image_generations.status
  held,     \* ledger: credits reserved for the generation, by wallet
  back,     \* ledger: credits refunded for the generation, by wallet
  ex,       \* the executions
  active,   \* Server.activeBusinessJobs[jobID] of each instance
  cx,       \* the cancel requests
  rc,       \* the pass of the reconciler on each instance
  crashes   \* crashes so far

vars == <<row, gen, held, back, ex, active, cx, rc, crashes>>
ledger == <<held, back>>

-----------------------------------------------------------------------------
(* The job row.                                                            *)

Status == {"queued", "running", "cancel_requested",
           "cancelled", "succeeded", "failed"}
Final == {"cancelled", "succeeded", "failed"}
CancelStatus == {"cancelled", "cancel_requested"}

\* Every stage after which nothing is sent any more is "ended".
Stage == {"queued", "claimed", "running", "dispatching", "upstream",
          "cancel_requested", "ended"}

\* A job as the code carries it; lease_until is unset, ahead or behind now.
Job == [status: Status, stage: Stage, sent: BOOLEAN,
        lease: {"none", "ahead", "behind"}]

\* due: the row meets the stale condition of its status.
Row == [job: Job, due: {"no", "due"}]

\* businessjobs.HasUpstreamSent
HasUpstreamSent(j) == j.sent \/ j.stage = "upstream" \/ j.status = "succeeded"

\* businessImageJobBeforeUpstream
BeforeUpstream(j) ==
  /\ ~HasUpstreamSent(j)
  /\ j.stage \in {"queued", "claimed", "running", "dispatching"}

\* prepareSaveJob: a lease survives only on a claimed or a running row.
Prepared(j) ==
  LET leased == \/ j.status = "queued" /\ j.stage = "claimed"
                \/ j.status = "running"
  IN  [j EXCEPT !.sent = HasUpstreamSent(j),
                !.lease = IF leased THEN j.lease ELSE "none"]

\* execSave: the last writer wins, whatever the status of the row is; only
\* upstream_sent is sticky.  The write is recent, so the row is not stale
\* unless it is running under a lease that is already over.
Saved(j) ==
  LET p == Prepared(j)
  IN  [job |-> [p EXCEPT !.sent = p.sent \/ row.job.sent],
       due |-> IF p.status = "running" /\ p.lease = "behind"
               THEN "due" ELSE "no"]

\* shouldPreserveCurrentBusinessImageJob
Preserve(current, next) == current.status \in Final /\ next.status \notin Final

-----------------------------------------------------------------------------
(* The ledger of the generation: subscription and balance credits.         *)

Wallets == {"sub", "bal"}

Least(a, b) == IF a <= b THEN a ELSE b

Refundable(w) == held[w] - back[w]
Outstanding == Refundable("sub") + Refundable("bal")

\* Refund / RefundSubscriptionCredits of at most n: capped per wallet.
RefundWallet(w, n) ==
  back' = [back EXCEPT ![w] = @ + Least(n, Refundable(w))]

\* (Variation: a refund that trusts its caller.)
RefundUncapped(n) == back' = [back EXCEPT !["bal"] = @ + n]

\* refundReservedCredits: the balance first, then the subscription.
RefundUpTo(n) ==
  LET b == Least(n, Refundable("bal"))
      s == Least(n - b, Refundable("sub"))
  IN  back' = [back EXCEPT !["bal"] = @ + b, !["sub"] = @ + s]

\* The cancel handler and the reconciler refund all that a wallet holds: the
\* balance in one transaction, the subscription in the next.
RefundAllOf(w) == back' = [back EXCEPT ![w] = held[w]]

-----------------------------------------------------------------------------
(* Executions.                                                             *)

\* A job nobody has read yet.
NoJob == [status |-> "queued", stage |-> "queued", sent |-> FALSE,
          lease |-> "none"]

Idle == [pc |-> "idle", host |-> NoOne, mem |-> NoJob, ret |-> "exit",
         live |-> TRUE, beat |-> FALSE, started |-> FALSE, failover |-> FALSE,
         sub |-> 0, images |-> 0, note |-> "skip", bound |-> FALSE,
         unheard |-> FALSE]

\* What is left of an execution that is over: whether it called upstream,
\* how many images it got and what it never heard of.
Over(r, pc) == [r EXCEPT !.pc = pc, !.mem = NoJob, !.ret = "exit",
                         !.beat = FALSE, !.sub = 0, !.note = "skip",
                         !.bound = FALSE]

InFlight(e) == ex[e].pc \notin {"idle", "done", "dead"}

\* The execution moves on; r is its new record.
Step(e, r) == ex' = [ex EXCEPT ![e] = r]

At(e, pc) == ex[e].pc = pc

\* saveJob(j), then go on at ret: the Get of saveJob is the next step.
SaveThen(e, j, ret) ==
  Step(e, [ex[e] EXCEPT !.mem = j, !.pc = "get", !.ret = ret])

\* The end of every path: write the generation (n, or "skip"), then
\* finishJob(status), then return.  bound: the generation is written under
\* the job context and is not written once that context is cancelled.
Ending(r, status, n, bound) ==
  [r EXCEPT !.pc = "record", !.note = n, !.bound = bound,
            !.mem.status = status, !.mem.stage = "ended",
            !.mem.lease = "none"]

\* cancelGeneration
Cancelled(r) == Ending(r, "cancelled", "cancelled", FALSE)

\* ClaimQueuedBy / ClaimQueuedByJobID: a queued row without a current lease.
Claimable == row.job.status = "queued" /\ row.job.lease # "ahead"

Claim(e, i) ==
  /\ At(e, "idle")
  /\ Claimable
  /\ row' = [job |-> [row.job EXCEPT !.stage = "claimed", !.lease = "ahead"],
             due |-> "no"]
  /\ Step(e, [ex[e] EXCEPT
       !.pc = "start", !.host = i, !.mem = NoJob])
  /\ UNCHANGED <<gen, ledger, active, cx, rc, crashes>>

\* registerActiveBusinessImageJob, then the provider configuration, the
\* prompt, the image count, the payload and the risk control.  Each can end
\* the job; some of them write the generation, some do not.
Start(e) ==
  /\ At(e, "start")
  /\ active' = [active EXCEPT ![ex[e].host] = e]
  /\ \/ Step(e, [ex[e] EXCEPT !.pc = "precheck"])
     \/ \E n \in {"skip", "failed"} :
          Step(e, Ending(ex[e], "failed", n, FALSE))
  /\ UNCHANGED <<row, gen, ledger, cx, rc, crashes>>

\* A cancelled context, or a cancelled row, ends the job before it queues.
\* Otherwise the job is saved as queued: stage "queued" drops the lease.
Precheck(e) ==
  /\ At(e, "precheck")
  /\ \/ /\ ~ex[e].live
        /\ Step(e, Cancelled(ex[e]))
     \/ /\ ex[e].live
        /\ row.job.status \in CancelStatus
        /\ Step(e, Cancelled([ex[e] EXCEPT !.mem = row.job]))
     \/ /\ ex[e].live
        /\ row.job.status \notin CancelStatus
        /\ SaveThen(e, [ex[e].mem EXCEPT !.status = "queued",
                                         !.stage = "queued"], "placeQueued")
  /\ UNCHANGED <<row, gen, ledger, active, cx, rc, crashes>>

PlaceQueued(e) ==
  /\ At(e, "placeQueued")
  /\ gen' = "queued"
  /\ Step(e, [ex[e] EXCEPT !.pc = "admission"])
  /\ UNCHANGED <<row, ledger, active, cx, rc, crashes>>

\* acquireImageAdmission: a slot (which select may pick although the context
\* is cancelled too), a full queue or a timeout, or the cancelled context.
Admission(e) ==
  /\ At(e, "admission")
  /\ \/ Step(e, [ex[e] EXCEPT !.pc = "saveRunning"])
     \/ ex[e].live /\ Step(e, Ending(ex[e], "failed", "failed", FALSE))
     \/ ~ex[e].live /\ Step(e, Cancelled(ex[e]))
  /\ UNCHANGED <<row, gen, ledger, active, cx, rc, crashes>>

\* SaveRunningWithProviderCapacity: saved without looking at the row, or
\* refused because the provider is full.  Then the heartbeat starts.
SaveRunning(e) ==
  LET j == [ex[e].mem EXCEPT !.status = "running", !.stage = "running",
                             !.lease = "ahead"]
  IN  /\ At(e, "saveRunning")
      /\ \/ /\ row' = Saved(j)
            /\ Step(e, [ex[e] EXCEPT !.mem = Prepared(j), !.beat = TRUE,
                                     !.pc = "checkRunning"])
         \/ /\ Step(e, Ending([ex[e] EXCEPT !.mem = j],
                              "failed", "failed", TRUE))
            /\ UNCHANGED row
      /\ UNCHANGED <<gen, ledger, active, cx, rc, crashes>>

CheckRunning(e) ==
  /\ At(e, "checkRunning")
  /\ \/ /\ row.job.status \in CancelStatus
        /\ Step(e, Cancelled([ex[e] EXCEPT !.mem = row.job]))
     \/ /\ row.job.status \notin CancelStatus
        /\ Step(e, [ex[e] EXCEPT !.pc = "placeRunning"])
  /\ UNCHANGED <<row, gen, ledger, active, cx, rc, crashes>>

PlaceRunning(e) ==
  /\ At(e, "placeRunning")
  /\ gen' = IF ex[e].live THEN "running" ELSE gen
  /\ Step(e, [ex[e] EXCEPT !.pc = "reserveSub"])
  /\ UNCHANGED <<row, ledger, active, cx, rc, crashes>>

\* ReserveSubscriptionCredits under the job context: as much of the price as
\* the subscription has left; the rest comes from the balance.
ReserveSub(e) ==
  /\ At(e, "reserveSub")
  /\ \/ /\ ~ex[e].live
        /\ Step(e, Ending(ex[e], "failed", "failed", TRUE))
        /\ UNCHANGED held
     \/ /\ ex[e].live
        /\ \E s \in {0, 1, Requested} :
             /\ held' = [held EXCEPT !["sub"] = @ + s]
             /\ IF s = Requested
                THEN Step(e, [ex[e] EXCEPT !.sub = s, !.pc = "get",
                                           !.ret = "checkReserved"])
                ELSE Step(e, [ex[e] EXCEPT !.sub = s, !.pc = "reserveBal"])
  /\ UNCHANGED <<row, gen, back, active, cx, rc, crashes>>

\* businesscredits.Reserve: refused under a cancelled context or without
\* enough balance; otherwise its transaction commits.
ReserveBal(e) ==
  /\ At(e, "reserveBal")
  /\ \/ /\ ex[e].live
        /\ held' = [held EXCEPT !["bal"] = @ + (Requested - ex[e].sub)]
        /\ Step(e, [ex[e] EXCEPT !.pc = "reserveReply"])
     \/ /\ Step(e, [ex[e] EXCEPT !.pc = "undoSub"])
        /\ UNCHANGED held
  /\ UNCHANGED <<row, gen, back, active, cx, rc, crashes>>

\* After the commit Reserve still reads the summary under the same context:
\* a cancellation that lands here turns a committed reserve into an error.
ReserveReply(e) ==
  /\ At(e, "reserveReply")
  /\ \/ /\ ex[e].live
        /\ Step(e, [ex[e] EXCEPT !.pc = "get", !.ret = "checkReserved"])
     \/ /\ ~ex[e].live
        /\ Step(e, [ex[e] EXCEPT !.pc = "undoSub", !.unheard = TRUE])
  /\ UNCHANGED <<row, gen, ledger, active, cx, rc, crashes>>

\* (Variation: the failure is not written to the generation.)
UndoSilently(e) ==
  /\ At(e, "undoSub")
  /\ RefundWallet("sub", ex[e].sub)
  /\ Step(e, Ending(ex[e], "failed", "skip", TRUE))
  /\ UNCHANGED <<row, gen, held, active, cx, rc, crashes>>

\* The balance reserve failed: give the subscription part back and fail.
UndoSub(e) ==
  /\ At(e, "undoSub")
  /\ RefundWallet("sub", ex[e].sub)
  /\ Step(e, Ending(ex[e], "failed", "failed", TRUE))
  /\ UNCHANGED <<row, gen, held, active, cx, rc, crashes>>

\* (Variation: the job counts as sent as soon as it is dispatched.)
DispatchingSent(j) == [j EXCEPT !.stage = "dispatching", !.sent = TRUE]

\* The job about to be sent.
Dispatching(j) == [j EXCEPT !.stage = "dispatching"]

\* Two looks at the row for a cancellation, before and after the dispatching
\* stage is saved; a cancelled row gives everything back.
CheckReserved(e) ==
  /\ At(e, "checkReserved")
  /\ \/ /\ row.job.status \in CancelStatus
        /\ Step(e, [ex[e] EXCEPT !.mem = row.job, !.pc = "refundCancel"])
     \/ /\ row.job.status \notin CancelStatus
        /\ SaveThen(e, Dispatching(ex[e].mem), "checkDispatch")
  /\ UNCHANGED <<row, gen, ledger, active, cx, rc, crashes>>

CheckDispatch(e) ==
  /\ At(e, "checkDispatch")
  /\ \/ /\ row.job.status \in CancelStatus
        /\ Step(e, [ex[e] EXCEPT !.mem = row.job, !.pc = "refundCancel"])
     \/ /\ row.job.status \notin CancelStatus
        /\ Step(e, [ex[e] EXCEPT !.pc = "upstream"])
  /\ UNCHANGED <<row, gen, ledger, active, cx, rc, crashes>>

\* (Variation: the execution leaves the refund to the handler.)
RefundByHandler(e) ==
  /\ At(e, "refundCancel")
  /\ Step(e, Cancelled(ex[e]))
  /\ UNCHANGED <<row, gen, ledger, active, cx, rc, crashes>>

RefundCancel(e) ==
  /\ At(e, "refundCancel")
  /\ RefundUpTo(Requested)
  /\ Step(e, Cancelled(ex[e]))
  /\ UNCHANGED <<row, gen, held, active, cx, rc, crashes>>

\* BeforeUpstreamAttempt: the first attempt marks the job as sent.  A later
\* attempt finds the mark; a request that cannot be built never gets to it.
Upstream(e) ==
  /\ At(e, "upstream")
  /\ \/ /\ ~ex[e].started
        /\ Step(e, [ex[e] EXCEPT
             !.started = TRUE, !.mem.sent = TRUE, !.mem.stage = "upstream",
             !.pc = "get", !.ret = "call"])
     \/ Step(e, [ex[e] EXCEPT !.pc = "call"])
  /\ UNCHANGED <<row, gen, ledger, active, cx, rc, crashes>>

\* The provider answers with some number of images (0: an error or an empty
\* answer, retried or not).  After a pool failure under a live context the
\* API access is tried once more, and the job is saved with the lease the
\* execution remembers.
Call(e) ==
  /\ At(e, "call")
  /\ \/ /\ ex[e].live /\ ex[e].started
        /\ \E n \in 1 .. Requested + 1 :
             Step(e, [ex[e] EXCEPT !.images = n, !.pc = "after"])
     \/ Step(e, [ex[e] EXCEPT !.images = 0, !.pc = "after"])
     \/ /\ ex[e].live /\ PoolFallback /\ ~ex[e].failover
        /\ Step(e, [ex[e] EXCEPT !.failover = TRUE, !.pc = "get",
                                 !.ret = "upstream"])
  /\ UNCHANGED <<row, gen, ledger, active, cx, rc, crashes>>

\* The row after the answer decides: cancelled, finished by somebody else,
\* or still ours.  Under a cancelled context an error is a cancellation, an
\* answer without images is a failure all the same.
After(e) ==
  LET x == ex[e]
      cancel(r) == IF x.started THEN Cancelled(r)
                   ELSE [r EXCEPT !.pc = "refundCancel"]
      ours == row.job.status \notin CancelStatus \cup Final
  IN  /\ At(e, "after")
      /\ \/ /\ row.job.status \in CancelStatus
            /\ Step(e, cancel([x EXCEPT !.mem = row.job]))
         \/ /\ row.job.status \in Final \ CancelStatus
            /\ Step(e, [x EXCEPT !.mem = row.job, !.pc = "exit"])
         \/ /\ ours /\ x.images = 0 /\ ~x.live
            /\ Step(e, cancel(x))
         \/ /\ ours /\ x.images = 0 /\ (x.live \/ x.started)
            /\ Step(e, [x EXCEPT !.pc = "refundFailed"])
         \/ /\ ours /\ x.images > 0
            /\ Step(e, [x EXCEPT !.pc = "settle"])
      /\ UNCHANGED <<row, gen, ledger, active, cx, rc, crashes>>

RefundFailed(e) ==
  /\ At(e, "refundFailed")
  /\ IF RefundOnFailure THEN RefundUpTo(Requested) ELSE UNCHANGED back
  /\ Step(e, Ending(ex[e], "failed", "failed", TRUE))
  /\ UNCHANGED <<row, gen, held, active, cx, rc, crashes>>

\* (Variation: the price of one image too many goes back.)
MissingOneMore(n) == Requested - n + 1

\* The images the provider owes: their price goes back.
Missing(n) == Requested - n

\* Fewer images: part of the price goes back.  More images: each one is
\* reserved for, or cut off when the credits are not there.
Settle(e) ==
  LET x == ex[e]
  IN  /\ At(e, "settle")
      /\ \/ /\ x.images < Requested
            /\ IF RefundPartial /\ RefundOnFailure
               THEN RefundUpTo(Missing(x.images)) ELSE UNCHANGED back
            /\ Step(e, [x EXCEPT !.pc = "checkSettled"])
            /\ UNCHANGED held
         \/ /\ x.images = Requested
            /\ Step(e, [x EXCEPT !.pc = "checkSettled"])
            /\ UNCHANGED ledger
         \/ /\ x.images > Requested
            /\ \E w \in Wallets :
                 held' = [held EXCEPT ![w] = @ + (x.images - Requested)]
            /\ Step(e, [x EXCEPT !.pc = "checkSettled"])
            /\ UNCHANGED back
         \/ /\ x.images > Requested
            /\ Step(e, [x EXCEPT !.images = Requested, !.pc = "checkSettled"])
            /\ UNCHANGED ledger
      /\ UNCHANGED <<row, gen, active, cx, rc, crashes>>

CheckSettled(e) ==
  /\ At(e, "checkSettled")
  /\ \/ /\ row.job.status \in CancelStatus
        /\ Step(e, Cancelled(ex[e]))
     \/ /\ row.job.status \notin CancelStatus
        /\ Step(e, Ending(ex[e], "succeeded", "succeeded", TRUE))
  /\ UNCHANGED <<row, gen, ledger, active, cx, rc, crashes>>

\* recordProviderImageGeneration or its placeholder: an upsert that looks
\* at nothing, lost when it runs under a cancelled context.
Record(e) ==
  LET x == ex[e]
  IN  /\ At(e, "record")
      /\ gen' = IF x.note = "skip" \/ (x.bound /\ ~x.live)
                THEN gen ELSE x.note
      /\ Step(e, [x EXCEPT !.pc = "get", !.ret = "exit"])
      /\ UNCHANGED <<row, ledger, active, cx, rc, crashes>>

\* saveJob, first half: read the row; a final row is kept (and taken over)
\* unless the job to save is final as well.
SaveGet(e) ==
  LET x == ex[e]
  IN  /\ At(e, "get")
      /\ \/ /\ Preserve(row.job, x.mem)
            /\ Step(e, [x EXCEPT !.mem = row.job, !.pc = x.ret])
         \/ /\ ~Preserve(row.job, x.mem)
            /\ Step(e, [x EXCEPT !.pc = "put"])
      /\ UNCHANGED <<row, gen, ledger, active, cx, rc, crashes>>

\* saveJob, second half: write, whatever happened to the row since.
SavePut(e) ==
  /\ At(e, "put")
  /\ row' = Saved(ex[e].mem)
  /\ Step(e, [ex[e] EXCEPT !.mem = Prepared(ex[e].mem), !.pc = ex[e].ret])
  /\ UNCHANGED <<gen, ledger, active, cx, rc, crashes>>

\* The deferred calls: the heartbeat stops, the job leaves the active map
\* (whoever registered it last).
Exit(e) ==
  /\ At(e, "exit")
  /\ active' = [active EXCEPT ![ex[e].host] = NoOne]
  /\ Step(e, Over(ex[e], "done"))
  /\ UNCHANGED <<row, gen, ledger, cx, rc, crashes>>

\* (Variation: the heartbeat stops when the request is sent.)
BeatingUntilSent ==
  \E e \in Execs : InFlight(e) /\ ex[e].beat /\ ex[e].live /\ ~ex[e].started

\* Some execution ticks: its heartbeat has been started and neither its end
\* nor the cancellation of its context has stopped it.
Beating == \E e \in Execs : InFlight(e) /\ ex[e].beat /\ ex[e].live

\* RenewRunningLease: whoever beats renews the lease of a running row.
Heartbeat ==
  /\ Beating
  /\ row.job.status = "running"
  /\ row.job.lease = "behind" \/ row.due # "no"
  /\ row' = [job |-> [row.job EXCEPT !.lease = "ahead"], due |-> "no"]
  /\ UNCHANGED <<gen, ledger, ex, active, cx, rc, crashes>>

ExecStep(e) ==
  \/ Start(e) \/ Precheck(e) \/ PlaceQueued(e) \/ Admission(e)
  \/ SaveRunning(e) \/ CheckRunning(e) \/ PlaceRunning(e)
  \/ ReserveSub(e) \/ ReserveBal(e) \/ ReserveReply(e) \/ UndoSub(e)
  \/ CheckReserved(e) \/ CheckDispatch(e) \/ RefundCancel(e)
  \/ Upstream(e) \/ Call(e) \/ After(e) \/ RefundFailed(e)
  \/ Settle(e) \/ CheckSettled(e) \/ Record(e)
  \/ SaveGet(e) \/ SavePut(e) \/ Exit(e)

-----------------------------------------------------------------------------
(* Cancel requests: handleCancelBusinessImageJob.                          *)

\* early: the first look found the job before its upstream call.
NewCancel == [pc |-> "idle", host |-> NoOne, early |-> FALSE, item |-> NoJob]

\* What is left of a request that is over.
Answered(r) == [r EXCEPT !.pc = "done", !.item.lease = "none"]

CancelMove(c, r) == cx' = [cx EXCEPT ![c] = r]

\* The first Get: the snapshot that decides whether to refund.
CancelBefore(c, i) ==
  /\ cx[c].pc = "idle"
  /\ CancelMove(c, [cx[c] EXCEPT !.pc = "get", !.host = i,
                                 !.early = BeforeUpstream(row.job)])
  /\ UNCHANGED <<row, gen, ledger, ex, active, rc, crashes>>

\* RequestCancel reads the row again and derives the next status from it.
CancelGet(c) ==
  LET j == row.job
      next == IF j.status = "queued"
              THEN [j EXCEPT !.status = "cancelled", !.stage = "ended"]
              ELSE [j EXCEPT !.status = "cancel_requested",
                             !.stage = "cancel_requested"]
  IN  /\ cx[c].pc = "get"
      /\ \/ /\ j.status \in Final
            /\ CancelMove(c, [cx[c] EXCEPT !.item = j, !.pc = "refund"])
         \/ /\ j.status \notin Final
            /\ CancelMove(c, [cx[c] EXCEPT !.item = next, !.pc = "put"])
      /\ UNCHANGED <<row, gen, ledger, ex, active, rc, crashes>>

\* ... and saves it, whatever happened to the row since.
CancelPut(c) ==
  /\ cx[c].pc = "put"
  /\ row' = Saved(cx[c].item)
  /\ CancelMove(c, [cx[c] EXCEPT !.item = Prepared(@), !.pc = "refund"])
  /\ UNCHANGED <<gen, ledger, ex, active, rc, crashes>>

\* refundCancelledPreUpstreamBusinessImageJob, its refunds (a job of no
\* price is left alone there: an image costs one credit here)
CancelRefund(c) ==
  LET refunds == cx[c].early /\ cx[c].item.status \in CancelStatus
  IN  /\ cx[c].pc = "refund"
      /\ \/ /\ refunds
            /\ RefundAllOf("bal")
            /\ CancelMove(c, [cx[c] EXCEPT !.pc = "refundSub"])
         \/ /\ ~refunds
            /\ CancelMove(c, [cx[c] EXCEPT !.pc = "signal"])
            /\ UNCHANGED back
      /\ UNCHANGED <<row, gen, held, ex, active, rc, crashes>>

CancelRefundSub(c) ==
  /\ cx[c].pc = "refundSub"
  /\ RefundAllOf("sub")
  /\ CancelMove(c, [cx[c] EXCEPT !.pc = "snapshot"])
  /\ UNCHANGED <<row, gen, held, ex, active, rc, crashes>>

\* ... and the whole-row save that follows them
CancelSnapshot(c) ==
  /\ cx[c].pc = "snapshot"
  /\ row' = Saved(cx[c].item)
  /\ CancelMove(c, [cx[c] EXCEPT !.pc = "signal"])
  /\ UNCHANGED <<gen, ledger, ex, active, rc, crashes>>

\* cancelActiveBusinessImageJob: only the execution registered last on this
\* instance is told.
CancelSignal(c) ==
  LET target == active[cx[c].host]
      hit == cx[c].item.status \in CancelStatus /\ target # NoOne
  IN  /\ cx[c].pc = "signal"
      /\ ex' = IF hit THEN [ex EXCEPT ![target].live = FALSE] ELSE ex
      /\ \/ /\ hit /\ cx[c].item.status = "cancel_requested"
            /\ CancelMove(c, [cx[c] EXCEPT !.item.status = "cancelled",
                                           !.item.stage = "ended",
                                           !.pc = "final"])
         \/ /\ ~(hit /\ cx[c].item.status = "cancel_requested")
            /\ CancelMove(c, [cx[c] EXCEPT !.pc = "mark"])
      /\ UNCHANGED <<row, gen, ledger, active, rc, crashes>>

CancelFinal(c) ==
  /\ cx[c].pc = "final"
  /\ row' = Saved(cx[c].item)
  /\ CancelMove(c, [cx[c] EXCEPT !.pc = "mark"])
  /\ UNCHANGED <<gen, ledger, ex, active, rc, crashes>>

\* (Variation: a running generation is forgotten.)
MarkQueued(s) == gen' = IF gen = "queued" THEN s ELSE gen

\* MarkGenerationFinished changes unfinished generations only.
MarkGeneration(s) ==
  gen' = IF gen \in {"queued", "running", "cancel_requested"} THEN s ELSE gen

CancelMark(c) ==
  /\ cx[c].pc = "mark"
  /\ MarkGeneration("cancelled")
  /\ CancelMove(c, Answered(cx[c]))
  /\ UNCHANGED <<row, ledger, ex, active, rc, crashes>>

CancelStep(c) ==
  \/ CancelGet(c) \/ CancelPut(c) \/ CancelRefund(c) \/ CancelRefundSub(c)
  \/ CancelSnapshot(c) \/ CancelSignal(c) \/ CancelFinal(c) \/ CancelMark(c)

-----------------------------------------------------------------------------
(* The reconciler: one pass at a time on an instance, under its            *)
(* businessJobReconcileMu; the passes of two instances may overlap.        *)

Reconciler == [pc |-> "idle", refunds |-> FALSE, final |-> "failed"]

\* The pass of i moves on; r is its new record.
PassMove(i, r) == rc' = [rc EXCEPT ![i] = r]

\* (Variation: like a cancellation, a failure refunds only what was not sent.)
RefundsUnsent(j) == BeforeUpstream(j)

\* shouldRefundStaleBusinessImageJob
RefundsStale(j) == j.status = "cancel_requested" => BeforeUpstream(j)

\* staleJobFinalStatus
StaleFinal(j) == IF j.status = "cancel_requested" THEN "cancelled" ELSE "failed"

\* (Variation: requested cancellations are left to their execution.)
StaleUnlessCancelled == row.due # "no" /\ row.job.status # "cancel_requested"

\* The stale conditions of ListStale and of ReconcileStale, under the cut-off
\* times of the pass: no lease runs out and no row ages while it lasts.
Stale == row.due # "no"

\* ListStale, and what the listed job is going to get.  A pass that lists
\* nothing goes on to the update.  (Without the clock no pass does anything.)
ReconcileList(i) ==
  /\ Clock
  /\ rc[i].pc = "idle"
  /\ \/ /\ Stale
        /\ PassMove(i, [pc |-> "refund", refunds |-> RefundsStale(row.job),
                        final |-> StaleFinal(row.job)])
     \/ /\ ~Stale
        /\ PassMove(i, [Reconciler EXCEPT !.pc = "update"])
  /\ UNCHANGED <<row, gen, ledger, ex, active, cx, crashes>>

ReconcileRefund(i) ==
  /\ rc[i].pc = "refund"
  /\ IF rc[i].refunds THEN RefundAllOf("bal") ELSE UNCHANGED back
  /\ PassMove(i, [rc[i] EXCEPT !.pc = "refundSub"])
  /\ UNCHANGED <<row, gen, held, ex, active, cx, crashes>>

ReconcileRefundSub(i) ==
  /\ rc[i].pc = "refundSub"
  /\ IF rc[i].refunds THEN RefundAllOf("sub") ELSE UNCHANGED back
  /\ PassMove(i, [rc[i] EXCEPT !.pc = "mark"])
  /\ UNCHANGED <<row, gen, held, ex, active, cx, crashes>>

ReconcileMark(i) ==
  /\ rc[i].pc = "mark"
  /\ MarkGeneration(rc[i].final)
  /\ PassMove(i, [rc[i] EXCEPT !.pc = "update"])
  /\ UNCHANGED <<row, ledger, ex, active, cx, crashes>>

\* ReconcileStale: whatever is stale now, listed or not.
ReconcileUpdate(i) ==
  /\ rc[i].pc = "update"
  /\ row' = IF Stale
            THEN [job |-> [row.job EXCEPT !.status = StaleFinal(row.job),
                                          !.stage = "ended", !.lease = "none"],
                  due |-> "no"]
            ELSE row
  /\ PassMove(i, Reconciler)
  /\ UNCHANGED <<gen, ledger, ex, active, cx, crashes>>

ReconcileStep(i) ==
  \/ ReconcileRefund(i) \/ ReconcileRefundSub(i) \/ ReconcileMark(i)
  \/ ReconcileUpdate(i)

-----------------------------------------------------------------------------
(* Time and crashes.                                                       *)

CancelOpen(c) == cx[c].pc \notin {"idle", "done"}

\* A lease lasts 30 seconds.  An execution is away that long only while it
\* waits for a slot, for the provider or for its images to be stored; a call
\* on the database is not that slow.
LongWaits == {"admission", "call", "record"}

TimePasses ==
  /\ Clock
  /\ \A e \in Execs : InFlight(e) => ex[e].pc \in LongWaits
  /\ \A c \in Cancels : ~CancelOpen(c)
  /\ \A i \in Instances : rc[i].pc = "idle"

Behind(l) == IF l = "ahead" THEN "behind" ELSE l

Forgotten == [e \in Execs |-> [ex[e] EXCEPT !.mem.lease = Behind(@)]]

\* Half a minute: every lease written before is over, except that of a
\* running row whose execution renews it every ten seconds.
LeaseOver ==
  /\ TimePasses
  /\ row.job.status \notin Final
  /\ \/ row.job.lease = "ahead"
     \/ \E e \in Execs : InFlight(e) /\ ex[e].mem.lease = "ahead"
  /\ ex' = Forgotten
  /\ row' = IF row.job.status = "running" /\ Beating
            THEN [job |-> [row.job EXCEPT !.lease = "ahead"], due |-> "no"]
            ELSE [job |-> [row.job EXCEPT !.lease = Behind(@)],
                  due |-> IF row.job.status = "running" /\ row.due = "no"
                          THEN "due" ELSE row.due]
  /\ UNCHANGED <<gen, ledger, active, cx, rc, crashes>>

\* The grace of a queued row (request timeout + 2 min) or of a requested
\* cancellation (5 s) is over.
RowAges ==
  /\ TimePasses
  /\ row.due = "no"
  /\ row.job.status \in {"queued", "cancel_requested"}
  /\ row' = [job |-> [row.job EXCEPT !.lease = Behind(@)], due |-> "due"]
  /\ ex' = IF row.job.status = "queued" THEN Forgotten ELSE ex
  /\ UNCHANGED <<gen, ledger, active, cx, rc, crashes>>

\* An instance stops and comes back empty: its executions, its requests and
\* its pass of the reconciler are gone, its map of active jobs is new.
Crash(i) ==
  /\ crashes < MaxCrashes
  /\ crashes' = crashes + 1
  /\ ex' = [e \in Execs |->
       IF InFlight(e) /\ ex[e].host = i
       THEN Over(ex[e], "dead") ELSE ex[e]]
  /\ cx' = [c \in Cancels |->
       IF CancelOpen(c) /\ cx[c].host = i
       THEN Answered(cx[c]) ELSE cx[c]]
  /\ active' = [active EXCEPT ![i] = NoOne]
  /\ PassMove(i, Reconciler)
  /\ UNCHANGED <<row, gen, ledger>>

-----------------------------------------------------------------------------

Quiet ==
  /\ \A e \in Execs : ~InFlight(e)
  /\ \A c \in Cancels : ~CancelOpen(c)
  /\ \A i \in Instances : rc[i].pc = "idle"

\* Nothing left to do: the job may rest here for ever.
Rest == Quiet /\ UNCHANGED vars

\* createQueuedProviderImageJob: the row and the placeholder generation.
Init ==
  /\ row = [job |-> NoJob, due |-> "no"]
  /\ gen = "queued"
  /\ held = [w \in Wallets |-> 0]
  /\ back = [w \in Wallets |-> 0]
  /\ ex = [e \in Execs |-> Idle]
  /\ active = [i \in Instances |-> NoOne]
  /\ cx = [c \in Cancels |-> NewCancel]
  /\ rc = [i \in Instances |-> Reconciler]
  /\ crashes = 0

Claims == \E e \in Execs, i \in Instances : Claim(e, i)
CancelArrives == \E c \in Cancels, i \in Instances : CancelBefore(c, i)

Next ==
  \/ Claims
  \/ \E e \in Execs : ExecStep(e)
  \/ CancelArrives
  \/ \E c \in Cancels : CancelStep(c)
  \/ \E i \in Instances : ReconcileList(i) \/ ReconcileStep(i)
  \/ Heartbeat \/ LeaseOver \/ RowAges
  \/ \E i \in Instances : Crash(i)
  \/ Rest

Spec == Init /\ [][Next]_vars

\* Every goroutine and handler goes on, the 15-second maintenance tick keeps
\* draining and reconciling, heartbeats tick and time passes: strongly fair,
\* since it passes between two passes of the reconciler, however often it
\* looks.  No fairness for cancel requests (the user need not cancel) nor for
\* crashes.
Fairness ==
  /\ WF_vars(Claims)
  /\ \A e \in Execs : WF_vars(ExecStep(e))
  /\ \A c \in Cancels : WF_vars(CancelStep(c))
  /\ \A i \in Instances :
       WF_vars(ReconcileList(i)) /\ WF_vars(ReconcileStep(i))
  /\ WF_vars(Heartbeat) /\ SF_vars(LeaseOver) /\ SF_vars(RowAges)

FairSpec == Spec /\ Fairness

-----------------------------------------------------------------------------
(* Types.                                                                  *)

ExecPc == {"idle", "start", "precheck", "placeQueued", "admission",
           "saveRunning", "checkRunning", "placeRunning", "reserveSub",
           "reserveBal", "reserveReply", "undoSub", "checkReserved",
           "checkDispatch", "refundCancel", "upstream", "call", "after",
           "refundFailed", "settle", "checkSettled", "record", "get", "put",
           "exit", "done", "dead"}

ExecRet == {"placeQueued", "checkReserved", "checkDispatch", "upstream",
            "call", "exit"}

GenStatus == {"queued", "running", "cancelled", "succeeded", "failed"}

Execution ==
  [pc: ExecPc, host: Instances \cup {NoOne}, mem: Job, ret: ExecRet,
   live: BOOLEAN, beat: BOOLEAN, started: BOOLEAN, failover: BOOLEAN,
   sub: Nat, images: Nat, note: GenStatus \cup {"skip"}, bound: BOOLEAN,
   unheard: BOOLEAN]

Cancellation ==
  [pc: {"idle", "get", "put", "refund", "refundSub", "snapshot", "signal",
        "final", "mark", "done"},
   host: Instances \cup {NoOne}, early: BOOLEAN, item: Job]

Reconciliation ==
  [pc: {"idle", "refund", "refundSub", "mark", "update"}, refunds: BOOLEAN,
   final: {"failed", "cancelled"}]

\* The type invariant.
TypeOK ==
  /\ row \in Row
  /\ gen \in GenStatus
  /\ held \in [Wallets -> Nat] /\ back \in [Wallets -> Nat]
  /\ \A w \in Wallets : back[w] <= held[w]
  /\ ex \in [Execs -> Execution]
  /\ active \in [Instances -> Execs \cup {NoOne}]
  /\ cx \in [Cancels -> Cancellation]
  /\ rc \in [Instances -> Reconciliation]
  /\ crashes \in 0 .. MaxCrashes
=============================================================================
