---------------------------- MODULE JobSubmission ----------------------------
(***************************************************************************)
(* The submission of an image job and what its run takes over from it: the *)
(* model and its price (ModelCatalogue), the dispatch tags of the user,    *)
(* the row of the job and the generation shown in the conversation.  The   *)
(* client names the job, so a request that is repeated (a lost answer, a   *)
(* second click) is about the same job.                                    *)
(*                                                                         *)
(* One job.  Its runs come one after another here: what executions of one  *)
(* job do to each other, and credits, are ImageJob's; the limits that can  *)
(* refuse a job are JobCapacity's, the choice of a member ProviderPool's.  *)
(***************************************************************************)
EXTENDS ModelCatalogue

CONSTANTS
  Requests,    \* bound: submissions of the job
  AskedModel,  \* the model they ask for
  Tiers,       \* dispatch tags that the role, the subscription and the wallet give
  MaxTierMoves \* bound: changes of the user's tags

ASSUME JobSubmissionAssumption == AskedModel \in Models /\ MaxTierMoves \in Nat

VARIABLES
  request,     \* the submissions
  tier,        \* the user's tags now
  tierMoves,
  jobRow,      \* the row of business_image_jobs
  shown,       \* business_image_generations.status
  run,         \* the execution of the job
  offered,     \* history: prices the model had since the run began
  crossed      \* history: a submission or a run began while another went on

jobVars == <<request, tier, tierMoves, jobRow, shown, run>>
submissionVars == <<jobVars, offered, crossed>>

\* price, tier: what the payload holds; saved: the row was written.
Request == [pc: {"new", "resolve", "tags", "select", "check", "save", "place",
                 "saveFailed", "recordFailed", "over"},
            price: Nat, tier: Tiers, saved: BOOLEAN,
            answer: {"none", "accepted", "refused", "refusedJob", "gone"}]

NewRequest == [pc |-> "new", price |-> 0, tier |-> CHOOSE t \in Tiers : TRUE,
               saved |-> FALSE, answer |-> "none"]

JobRow == [status: {"none", "queued", "failed", "succeeded"}, claimed: BOOLEAN,
           price: Nat, tier: Tiers]

Run == [pc: {"idle", "resolve", "select", "reserve", "generate", "finish"},
        price: Nat, tier: Tiers, charged: BOOLEAN, skips: BOOLEAN,
        outcome: {"failed", "succeeded"}]

NoRun == [pc |-> "idle", price |-> 0, tier |-> NewRequest.tier, charged |-> FALSE,
          skips |-> FALSE, outcome |-> "failed"]

RequestGoes(q, r) == request' = [request EXCEPT ![q] = r]
AtRequest(q, pc) == request[q].pc = pc
Answers(q, a) == [request[q] EXCEPT !.pc = "over", !.answer = a]

-----------------------------------------------------------------------------
(* handleProviderImageGenerateSubmit, createQueuedProviderImageJob.        *)

\* Maintenance mode and a body that is no JSON leave no trace but the tracker's.
Submit(q) ==
  /\ AtRequest(q, "new")
  /\ RequestGoes(q, Answers(q, "refused"))
       \/ RequestGoes(q, [request[q] EXCEPT !.pc = "resolve"])
  /\ UNCHANGED <<tier, tierMoves, jobRow, shown, run>>

\* prepareProviderImageModelPayload: the payload takes the price of the model.
ResolveModel(q) ==
  /\ AtRequest(q, "resolve")
  /\ \E p \in ResolvedPrices(AskedModel, request[q].price) :
       RequestGoes(q, [request[q] EXCEPT !.pc = "tags", !.price = p])
  /\ UNCHANGED <<tier, tierMoves, jobRow, shown, run>>

\* enrichProviderImageDispatchTags: tags that the client sends for itself are
\* dropped, those of the user now go into the payload.
EnrichTags(q) ==
  /\ AtRequest(q, "tags")
  /\ RequestGoes(q, [request[q] EXCEPT !.pc = "select", !.tier = tier])
  /\ UNCHANGED <<tier, tierMoves, jobRow, shown, run>>

\* imageProviderProxyConfig: no provider is an error that becomes a failed job.
SelectProvider(q) ==
  /\ AtRequest(q, "select")
  /\ \E pc \in {"check", "saveFailed"} : RequestGoes(q, [request[q] EXCEPT !.pc = pc])
  /\ UNCHANGED <<tier, tierMoves, jobRow, shown, run>>

\* The prompt, the count and the images are refused without a job, a rejection of
\* the risk control with a failed one; the member selected is released.
CheckPayload(q) ==
  /\ AtRequest(q, "check")
  /\ \E pc \in {"recordFailed", "saveFailed", "save"} :
       RequestGoes(q, [request[q] EXCEPT !.pc = pc])
  /\ UNCHANGED <<tier, tierMoves, jobRow, shown, run>>

\* SaveQueuedWithCapacity: refused without a job, or an upsert that looks at
\* nothing that is there (a claim is dropped with its lease).
SaveQueuedJob(q) ==
  /\ AtRequest(q, "save")
  /\ \/ /\ RequestGoes(q, [request[q] EXCEPT !.pc = "recordFailed"])
        /\ UNCHANGED jobRow
     \/ /\ RequestGoes(q, [request[q] EXCEPT !.pc = "place", !.saved = TRUE])
        /\ jobRow' = [status |-> "queued", claimed |-> FALSE,
                      price |-> request[q].price, tier |-> request[q].tier]
  /\ UNCHANGED <<tier, tierMoves, shown, run>>

\* recordProviderImageGenerationPlaceholder, then the answer.
PlaceQueued(q) ==
  /\ AtRequest(q, "place")
  /\ shown' = "queued"
  /\ RequestGoes(q, Answers(q, "accepted"))
  /\ UNCHANGED <<tier, tierMoves, jobRow, run>>

\* saveFailedProviderImageSubmitJob: a plain Save, over whatever the row is.
SaveFailedJob(q) ==
  /\ AtRequest(q, "saveFailed")
  /\ RequestGoes(q, [request[q] EXCEPT !.pc = "recordFailed", !.saved = TRUE])
  /\ jobRow' = [jobRow EXCEPT !.status = "failed", !.claimed = FALSE]
  /\ UNCHANGED <<tier, tierMoves, shown, run>>

\* recordFailedProviderImageSubmit: shown unless the prompt is empty.
RecordFailed(q) ==
  LET a == IF request[q].saved THEN "refusedJob" ELSE "refused"
  IN  /\ AtRequest(q, "recordFailed")
      /\ shown' = "failed" \/ (~request[q].saved /\ UNCHANGED shown)
      /\ RequestGoes(q, Answers(q, a))
      /\ UNCHANGED <<tier, tierMoves, jobRow, run>>

\* The client is gone: its context ends every call on the database that follows.
LeaveRequest(q) ==
  /\ request[q].pc \in {"save", "place", "saveFailed", "recordFailed"}
  /\ RequestGoes(q, Answers(q, "gone"))
  /\ UNCHANGED <<tier, tierMoves, jobRow, shown, run>>

-----------------------------------------------------------------------------
(* The run, as far as the submission reaches: executeProviderImageGenerate *)
(* with the payload of the row, trusted.                                   *)

RunGoes(r) == run' = r

ClaimJob ==
  /\ run.pc = "idle"
  /\ jobRow.status = "queued" /\ ~jobRow.claimed
  /\ jobRow' = [jobRow EXCEPT !.claimed = TRUE]
  /\ RunGoes([NoRun EXCEPT !.pc = "resolve", !.price = jobRow.price,
                           !.tier = jobRow.tier])
  /\ UNCHANGED <<request, tier, tierMoves, shown>>

\* (Variation: a run trusts the price of its payload.)
PayloadPrices == {run.price}

\* The prices a run may take: the model is resolved again.
RunPrices == ResolvedPrices(AskedModel, run.price)

ResolveAgain ==
  /\ run.pc = "resolve"
  /\ \E p \in RunPrices : RunGoes([run EXCEPT !.pc = "select", !.price = p])
  /\ UNCHANGED <<request, tier, tierMoves, jobRow, shown>>

\* (Variation: a run asks for the tags of the user again.)
TierNow == tier

\* The tags of the user are those of the payload, which is never without.
RunTier == run.tier

\* No provider: the row fails and the generation is not told.  A payload that is
\* refused now fails both.
SelectAgain ==
  /\ run.pc = "select"
  /\ \/ RunGoes([run EXCEPT !.pc = "reserve", !.tier = RunTier])
     \/ RunGoes([run EXCEPT !.pc = "finish", !.skips = TRUE])
     \/ RunGoes([run EXCEPT !.pc = "generate", !.outcome = "failed"])
  /\ UNCHANGED <<request, tier, tierMoves, jobRow, shown>>

ReserveCredits ==
  /\ run.pc = "reserve"
  /\ \E o \in {"failed", "succeeded"} :
       RunGoes([run EXCEPT !.pc = "generate", !.charged = TRUE, !.outcome = o])
  /\ UNCHANGED <<request, tier, tierMoves, jobRow, shown>>

\* recordProviderImageGeneration comes before the row is finished.
RecordGeneration ==
  /\ run.pc = "generate"
  /\ shown' = run.outcome
  /\ RunGoes([run EXCEPT !.pc = "finish"])
  /\ UNCHANGED <<request, tier, tierMoves, jobRow>>

\* saveJob: a final row takes the next final status, and so does the queued row of
\* a submission that was repeated meanwhile: it is never run.
FinishRun ==
  /\ run.pc = "finish"
  /\ jobRow' = [jobRow EXCEPT !.status = run.outcome, !.claimed = FALSE]
  /\ RunGoes([run EXCEPT !.pc = "idle"])
  /\ UNCHANGED <<request, tier, tierMoves, shown>>

\* An order, an administrator or a date changes what tags the user has.
TierMoves(t) ==
  /\ tierMoves < MaxTierMoves /\ t # tier
  /\ tier' = t
  /\ tierMoves' = tierMoves + 1
  /\ UNCHANGED <<request, jobRow, shown, run>>

-----------------------------------------------------------------------------

SubmissionInit ==
  /\ CatalogueInit
  /\ request = [q \in Requests |-> NewRequest]
  /\ tier \in Tiers
  /\ tierMoves = 0
  /\ jobRow = [status |-> "none", claimed |-> FALSE, price |-> 0, tier |-> NewRequest.tier]
  /\ shown = "none"
  /\ run = NoRun
  /\ offered = {}
  /\ crossed = FALSE

SubmissionStep ==
  /\ \/ \E q \in Requests :
          \/ Submit(q) \/ ResolveModel(q) \/ EnrichTags(q) \/ SelectProvider(q)
          \/ CheckPayload(q) \/ SaveQueuedJob(q) \/ PlaceQueued(q)
          \/ SaveFailedJob(q) \/ RecordFailed(q) \/ LeaveRequest(q)
     \/ ClaimJob \/ ResolveAgain \/ SelectAgain \/ ReserveCredits
     \/ RecordGeneration \/ FinishRun
     \/ \E t \in Tiers : TierMoves(t)
  /\ UNCHANGED catalogueVars

\* What the model may cost a run that goes on, before and after a step.
OfferedNext ==
  offered' = IF run'.pc = "idle" THEN {}
             ELSE (IF run.pc = "idle" THEN {} ELSE offered)
                    \cup ResolvedPrices(AskedModel, run.price)'

GoesOn(q) == request[q].pc \notin {"new", "over"}
Others(q) == run.pc # "idle" \/ \E x \in Requests \ {q} : GoesOn(x)
CrossedNext ==
  crossed' = (crossed \/ \E q \in Requests : GoesOn(q) /\ Others(q))

SubmissionNext ==
  /\ SubmissionStep \/ (CatalogueNext /\ UNCHANGED jobVars)
  /\ OfferedNext
  /\ CrossedNext

SubmissionSpec ==
  SubmissionInit /\ [][SubmissionNext]_<<catalogueVars, submissionVars>>

SubmissionTypeOK ==
  /\ CatalogueTypeOK
  /\ request \in [Requests -> Request]
  /\ tier \in Tiers /\ tierMoves \in 0..MaxTierMoves
  /\ jobRow \in JobRow
  /\ shown \in {"none", "queued", "failed", "succeeded"}
  /\ run \in Run
  /\ offered \subseteq Nat
  /\ crossed \in BOOLEAN

\* A run charges a price its model had since the run began, whatever the price was
\* when the job was submitted (image_provider_proxy.go:900, :1095).
ChargesAreCurrent == run.charged /\ run.pc # "idle" => run.price \in offered

\* A run is dispatched with the tags the user had at one of the submissions that
\* wrote the row, whatever the user has now (business_dispatch_tags.go:31).
TagsAreSubmitted ==
  run.pc # "idle" => \E q \in Requests : request[q].saved /\ run.tier = request[q].tier

\* Submissions and runs of a job that do not cross leave a row and a generation that
\* say the same, unless a client left, a repeated submission was refused without
\* touching the row, or a run found no provider (image_provider_proxy.go:747, :1009).
JobsAgree ==
  LET heard == \A q \in Requests :
                 ~GoesOn(q) /\ request[q].answer \notin {"gone", "refused"}
  IN  heard /\ run.pc = "idle" /\ ~run.skips /\ ~crossed => shown = jobRow.status

SubmissionsAreKept ==
  ChargesAreCurrent /\ TagsAreSubmitted /\ JobsAgree /\ DefaultIsKept
=============================================================================
