---------------------------- MODULE ProviderCall ----------------------------
(***************************************************************************)
(* What an execution does between the reserve and the record of its result: *)
(* requests to the provider, one for all pictures or one for each, their    *)
(* repetition, the change from a member of the pool to the API provider,    *)
(* the report on the member, and the charge for the pictures that came.     *)
(* ImageJob has all of it as its step Call and those that settle.           *)
(*                                                                         *)
(* A picture costs one; the refunds on failure are on.                     *)
(***************************************************************************)
EXTENDS Naturals, Sequences, FiniteSets, SequencesExt

CONSTANTS
  MaxAttempts,   \* maxProviderImageGenerationAttempts
  MaxRequested,  \* bound: n of the payload
  MaxReturned,   \* generation.maxCount of the settings
  MaxItems       \* bound: items of one answer

ASSUME ProviderCallAssumption ==
  /\ MaxAttempts \in Nat \ {0}
  /\ MaxRequested \in Nat \ {0} /\ MaxReturned \in Nat \ {0} /\ MaxRequested <= MaxReturned
  /\ MaxItems \in Nat

VARIABLES
  call,
  billed,         \* pictures that are paid: reserved and not refunded
  refundPartial,  \* billing.refundPartialCount
  requests,       \* history: requests to each source
  arrived,        \* history: the answers of the provider
  reports         \* reports on the member of the pool

callVars == <<call, billed, refundPartial, requests, arrived, reports>>

Sources == {"pool", "api"}

\* An item of an answer may carry neither a link nor data.
Item == {"picture", "blank"}

\* What a request may fail with: it gets no answer, one that is no picture, a
\* refusal, or an answer that says to come back.
Retryable == {"provider_request_failed", "provider_response_failed", "busy"}
CallError == Retryable \cup {"refused"}

CallPC == {"idle", "send", "wait", "backoff", "failed", "judge", "charge", "over"}

CallTypeOK ==
  /\ call \in [pc: CallPC, source: Sources, adapter: {"gemini", "openai"},
               requested: 1 .. MaxRequested, attempt: 1 .. MaxAttempts, index: 1 .. MaxRequested,
               items: Seq(Item), error: CallError \cup {"", "no_fallback"},
               stop: {"no", "asked", "cancelled"}, poolReported: BOOLEAN,
               charged: Nat, outcome: {"", "delivered", "failed", "cancelled"}]
  /\ billed \in Nat
  /\ refundPartial \in BOOLEAN
  /\ requests \in [Sources -> Nat]
  /\ arrived \in Seq(Seq(Item))
  /\ reports \in Seq({"success", "failure"})

PicturesOf(items) == Cardinality({i \in DOMAIN items : items[i] = "picture"})

\* limitProviderImageResponseItems counts what countProviderImageItems does not.
Limited(items, n) == IF Len(items) > n THEN SubSeq(items, 1, n) ELSE items

Report(source, what) == reports' = IF source = "pool" THEN Append(reports, what) ELSE reports

CallBecomes(r) == call' = r

Ends(r, outcome) == CallBecomes([r EXCEPT !.pc = "over", !.outcome = outcome])

-----------------------------------------------------------------------------

\* The credits are reserved and the job is saved as dispatching.
BeginCall ==
  /\ call.pc = "idle"
  /\ \E n \in 1 .. MaxRequested, source \in Sources, adapter \in {"gemini", "openai"} :
       /\ CallBecomes([call EXCEPT !.pc = "send", !.requested = n, !.source = source,
                                   !.adapter = adapter])
       /\ billed' = n
  /\ UNCHANGED <<refundPartial, requests, arrived, reports>>

\* The row is cancelled, and later, unless the job runs elsewhere, its context.
CancelCall ==
  /\ call.pc \notin {"idle", "over"}
  /\ \/ call.stop = "no" /\ CallBecomes([call EXCEPT !.stop = "asked"])
     \/ call.stop = "asked" /\ CallBecomes([call EXCEPT !.stop = "cancelled"])
  /\ UNCHANGED <<billed, refundPartial, requests, arrived, reports>>

SendRequest ==
  /\ call.pc = "send"
  /\ CallBecomes([call EXCEPT !.pc = "wait"])
  /\ requests' = [requests EXCEPT ![call.source] = @ + 1]
  /\ UNCHANGED <<billed, refundPartial, arrived, reports>>

\* executeProviderImageGenerationWithRetry, after an attempt that failed
Retried(r, e) ==
  IF e \in Retryable /\ r.stop # "cancelled" /\ r.attempt < MaxAttempts
  THEN [r EXCEPT !.pc = "backoff"]
  ELSE [r EXCEPT !.pc = "failed", !.error = e]

\* (Variation: the pictures that a series of requests brought before one of
\* them failed are dropped.)
FailedAndDropped(r, e) == Retried([r EXCEPT !.items = <<>>], e)

\* With pictures that came before, a request that fails only ends the series.
FailedRequest(r, e) ==
  IF r.adapter = "gemini" /\ r.items # <<>> THEN [r EXCEPT !.pc = "judge"] ELSE Retried(r, e)

\* A cancelled context fails the request.
RequestFails ==
  /\ call.pc = "wait"
  /\ \E e \in CallError :
       /\ call.stop = "cancelled" => e = "provider_request_failed"
       /\ CallBecomes(FailedRequest(call, e))
  /\ UNCHANGED <<billed, refundPartial, requests, arrived, reports>>

\* An answer to all of it, or, from Gemini, to one of a series; there an answer
\* without pictures is an error.
Answered(items) ==
  LET got == call.items \o items
  IN  /\ call.pc = "wait" /\ call.stop # "cancelled"
      /\ call.adapter = "gemini" => items # <<>> /\ "blank" \notin ToSet(items)
      /\ arrived' = Append(arrived, items)
      /\ CallBecomes(
           IF call.adapter = "gemini" /\ Len(got) < call.requested /\ call.index < call.requested
           THEN [call EXCEPT !.pc = "send", !.items = got, !.index = @ + 1]
           ELSE [call EXCEPT !.pc = "judge", !.items = got])
      /\ UNCHANGED <<billed, refundPartial, requests, reports>>

\* The pause is over, or cut short.
EndBackoff ==
  /\ call.pc = "backoff"
  /\ CallBecomes(IF call.stop = "cancelled"
                 THEN [call EXCEPT !.pc = "failed", !.error = "provider_request_failed"]
                 ELSE [call EXCEPT !.pc = "send", !.attempt = @ + 1])
  /\ UNCHANGED <<billed, refundPartial, requests, arrived, reports>>

\* A member of the pool has failed: the API provider is asked, if there is one.
FallBack ==
  /\ call.pc = "failed"
  /\ \/ /\ call.source = "pool" /\ call.stop # "cancelled"
        /\ Report("pool", "failure")
        /\ \/ \E adapter \in {"gemini", "openai"} :
                CallBecomes([call EXCEPT !.pc = "send", !.source = "api", !.adapter = adapter,
                                         !.attempt = 1, !.index = 1, !.error = "",
                                         !.poolReported = TRUE])
           \/ CallBecomes([call EXCEPT !.pc = "judge", !.error = "no_fallback",
                                       !.poolReported = TRUE])
     \/ /\ call.source = "api" \/ call.stop = "cancelled"
        /\ CallBecomes([call EXCEPT !.pc = "judge"])
        /\ UNCHANGED reports
  /\ UNCHANGED <<billed, refundPartial, requests, arrived>>

\* A cancelled row ends the job without a report or a refund, and so does a
\* failure under a cancelled context.
JudgeCancelled ==
  /\ call.pc = "judge" /\ call.stop # "no"
  /\ Ends(call, "cancelled")
  /\ UNCHANGED <<billed, refundPartial, requests, arrived, reports>>

Fails(r) == Ends(r, "failed") /\ billed' = 0

JudgeFailure ==
  /\ call.pc = "judge" /\ call.stop = "no" /\ call.error # ""
  /\ IF call.poolReported THEN UNCHANGED reports ELSE Report(call.source, "failure")
  /\ Fails(call)
  /\ UNCHANGED <<refundPartial, requests, arrived>>

\* The items, limited; what is missing is refunded, what is too much charged.
JudgeAnswer ==
  LET items == IF PicturesOf(call.items) > MaxReturned THEN Limited(call.items, MaxReturned)
                                                     ELSE call.items
      n == PicturesOf(items)
  IN  /\ call.pc = "judge" /\ call.stop = "no" /\ call.error = ""
      /\ \/ /\ n = 0
            /\ Report(call.source, "failure")
            /\ Fails([call EXCEPT !.items = items])
         \/ /\ n > 0
            /\ billed' = IF n < call.requested /\ refundPartial THEN n ELSE billed
            /\ CallBecomes([call EXCEPT !.pc = "charge", !.items = items,
                                        !.charged = call.requested])
            /\ UNCHANGED reports
      /\ UNCHANGED <<refundPartial, requests, arrived>>

\* Each picture more than requested is reserved for; the first one that the
\* balance does not cover ends it, and another error fails the job.
ChargeExtra ==
  /\ call.pc = "charge" /\ call.charged < PicturesOf(call.items)
  /\ \/ /\ billed' = billed + 1
        /\ CallBecomes([call EXCEPT !.charged = @ + 1])
     \/ /\ CallBecomes([call EXCEPT !.items = Limited(@, call.charged)])
        /\ UNCHANGED billed
     \/ Fails(call)
  /\ UNCHANGED <<refundPartial, requests, arrived, reports>>

Deliver ==
  /\ call.pc = "charge" /\ call.charged >= PicturesOf(call.items)
  /\ \/ call.stop # "no" /\ Ends(call, "cancelled") /\ UNCHANGED reports
     \/ call.stop = "no" /\ Ends(call, "delivered") /\ Report(call.source, "success")
  /\ UNCHANGED <<billed, refundPartial, requests, arrived>>

-----------------------------------------------------------------------------

CallInit ==
  /\ call = [pc |-> "idle", source |-> "api", adapter |-> "openai", requested |-> 1,
             attempt |-> 1, index |-> 1, items |-> <<>>, error |-> "", stop |-> "no",
             poolReported |-> FALSE, charged |-> 0, outcome |-> ""]
  /\ billed = 0
  /\ refundPartial \in BOOLEAN
  /\ requests = [s \in Sources |-> 0]
  /\ arrived = <<>>
  /\ reports = <<>>

CallNext ==
  \/ BeginCall \/ CancelCall \/ SendRequest \/ RequestFails
  \/ \E items \in BoundedSeq(Item, MaxItems) : Answered(items)
  \/ EndBackoff \/ FallBack \/ JudgeCancelled \/ JudgeFailure \/ JudgeAnswer
  \/ ChargeExtra \/ Deliver

CallSpec == CallInit /\ [][CallNext]_callVars

-----------------------------------------------------------------------------

Over(outcome) == call.pc = "over" /\ call.outcome = outcome

AllArrived == FlattenSeq(arrived)

NoBlanks == "blank" \notin ToSet(AllArrived)

\* However often a request fails, is repeated or goes to another provider, what
\* arrived is delivered: a picture is only missing because the limit of the
\* settings or the balance ends before it.
PicturesAreDelivered ==
  NoBlanks =>
    /\ Over("failed") => AllArrived = <<>> \/ call.charged > 0
    /\ Over("delivered") => \/ call.items = AllArrived
                            \/ Len(call.items) \in {MaxReturned, call.charged}

\* What is delivered is paid, no more and no less; only an item without a
\* picture that the limit counts may cost the user one.
DeliveriesArePaid ==
  /\ Over("failed") => billed = 0
  /\ Over("delivered") =>
       /\ PicturesOf(call.items) <= billed
       /\ NoBlanks /\ refundPartial => PicturesOf(call.items) = billed

\* A member of the pool is reported on at most once, as successful only if its
\* own pictures are delivered, and a source is not asked more often than the
\* attempts and the pictures allow.
MembersAreJudgedOnce ==
  /\ Len(reports) <= 1
  /\ reports = <<"success">> => Over("delivered") /\ requests["api"] = 0
  /\ Over("delivered") /\ requests["pool"] > 0 /\ requests["api"] > 0 => reports = <<"failure">>
  /\ \A s \in Sources : requests[s] <= MaxAttempts - 1 + call.requested

CallsAreSettled == PicturesAreDelivered /\ DeliveriesArePaid /\ MembersAreJudgedOnce

=============================================================================
