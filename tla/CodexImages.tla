----------------------------- MODULE CodexImages -----------------------------
(***************************************************************************)
(* A request for pictures by the responses route: the CPA client, which may *)
(* try the images API first and falls back, behind the admission gate; and  *)
(* the client of the accounts, which reads drafts and pictures of a stream. *)
(***************************************************************************)
EXTENDS Naturals, Sequences, FiniteSets, SequencesExt

CONSTANTS
  Drawings,  \* pictures the upstream may draw for the request
  MaxDrafts  \* bound: drafts of a picture in the stream

ASSUME CodexImagesAssumption == IsFiniteSet(Drawings) /\ MaxDrafts \in Nat

VARIABLES
  codex,  \* the request
  drawn,  \* the pictures drawn on each route
  logged  \* entries of the request log

codexVars == <<codex, drawn, logged>>

CodexRoute == {"images_api", "codex_responses"}

\* The base64 text of a picture, or of one of its drafts.
Shown == [picture: Drawings, draft: 0 .. MaxDrafts]
Final(p) == [picture |-> p, draft |-> 0]

CodexPC == {"idle", "gate", "images_api", "codex_responses", "stream", "log", "over"}

CodexTypeOK ==
  /\ codex \in [pc: CodexPC, client: {"cpa", "account"}, operation: {"generate", "edit"},
                strategy: CodexRoute \cup {"auto"}, inside: BOOLEAN, lastRoute: CodexRoute \cup {""},
                finals: Seq(Shown), partial: [Drawings -> 0 .. MaxDrafts],
                outcome: {"", "success", "failed"}]
  /\ drawn \in [CodexRoute -> Seq(Drawings)]
  /\ logged \in Seq([success: BOOLEAN, route: CodexRoute \cup {"", "auto"}])

Distinct == {s \in SeqOf(Drawings, Cardinality(Drawings)) : IsInjective(s)}

\* emitImage: a text that was emitted before is not emitted again.
\* (Variation: it is.)
EmitAgain(finals, image) == Append(finals, image)

Emit(finals, image) == IF image \in ToSet(finals) THEN finals ELSE Append(finals, image)

EmitAll(finals, images) == FoldLeft(LAMBDA f, i : Emit(f, i), finals, images)

Finals(pictures) == [i \in DOMAIN pictures |-> Final(pictures[i])]

\* The end of the run: a CPA request goes on to its log entry, the account's
\* client returns.
Ended(state, outcome) ==
  [state EXCEPT !.pc = IF @ = "idle" \/ state.client = "account" THEN "over" ELSE "log",
                !.outcome = outcome]

-----------------------------------------------------------------------------
\* The account's client posts to the responses route.  It refuses selection
\* edits, edits of more than one picture, and accounts without token or id.
BeginAccountCall ==
  /\ codex.pc = "idle"
  /\ \E operation \in {"generate", "edit"} :
       codex' \in {[codex EXCEPT !.client = "account", !.operation = operation, !.pc = "codex_responses"],
                   Ended([codex EXCEPT !.client = "account", !.operation = operation], "failed")}
  /\ UNCHANGED <<drawn, logged>>

\* A CPA request waits at the gate.  Without CPA settings it is refused before,
\* with an entry that names the strategy,
BeginCPARequest ==
  /\ codex.pc = "idle"
  /\ \E operation \in {"generate", "edit"}, strategy \in CodexRoute \cup {"auto"} :
       \/ /\ codex' = [codex EXCEPT !.operation = operation, !.strategy = strategy, !.pc = "gate"]
          /\ UNCHANGED logged
       \/ /\ codex' = [codex EXCEPT !.operation = operation, !.strategy = strategy, !.pc = "over", !.outcome = "failed"]
          /\ logged' = Append(logged, [success |-> FALSE, route |-> strategy])
  /\ UNCHANGED drawn

\* as it is when the gate (acquireImageAdmission) has no slot.
PassGate ==
  /\ codex.pc = "gate"
  /\ \/ /\ codex' = [codex EXCEPT !.inside = TRUE, !.pc = IF codex.strategy = "auto" THEN "images_api" ELSE codex.strategy,
                                  !.lastRoute = IF codex.operation = "generate" /\ codex.strategy # "codex_responses"
                                                THEN "images_api" ELSE @]
        /\ UNCHANGED logged
     \/ /\ codex' = [codex EXCEPT !.pc = "over", !.outcome = "failed"]
        /\ logged' = Append(logged, [success |-> FALSE, route |-> codex.strategy])
  /\ UNCHANGED drawn

-----------------------------------------------------------------------------
\* An edit knows its route when it has an answer, a generation from the start.
CodexAnswered == [codex EXCEPT !.lastRoute = "images_api"]

ImagesAnswered ==
  /\ codex.pc = "images_api"
  /\ \E pictures \in Distinct :
       /\ drawn' = [drawn EXCEPT !["images_api"] = pictures]
       /\ codex' = IF pictures = <<>> THEN Ended(CodexAnswered, "failed")
                   ELSE Ended([CodexAnswered EXCEPT !.finals = Finals(pictures)], "success")
  /\ UNCHANGED logged

\* shouldFallbackToResponses: under "auto", answers that say the upstream was
\* interrupted, and some codes, send the request by the other route.
ImagesFallBack ==
  /\ codex.pc = "images_api" /\ codex.strategy = "auto"
  /\ codex' = [CodexAnswered EXCEPT !.pc = "codex_responses"]
  /\ UNCHANGED <<drawn, logged>>

\* Any other code, and a request without an answer, is final; the pictures may
\* have been drawn.
ImagesFail ==
  /\ codex.pc = "images_api"
  /\ \E failed \in {codex, CodexAnswered} : codex' = Ended(failed, "failed")
  /\ \E pictures \in Distinct : drawn' = [drawn EXCEPT !["images_api"] = pictures]
  /\ UNCHANGED logged

\* executeResponsesRequest: the route changes with an answer of the 2xx range.
ResponsesAnswer ==
  /\ codex.pc = "codex_responses"
  /\ codex' = [codex EXCEPT !.pc = "stream",
                            !.lastRoute = IF codex.client = "cpa" THEN "codex_responses" ELSE @]
  /\ UNCHANGED <<drawn, logged>>

ResponsesFail ==
  /\ codex.pc = "codex_responses"
  /\ codex' = Ended(codex, "failed")
  /\ UNCHANGED <<drawn, logged>>

-----------------------------------------------------------------------------
\* Events of the stream.  The account's client keeps the last draft of each
\* picture and every picture that is done; the CPA client waits for the end.
HearDraft(p) ==
  /\ codex.pc = "stream" /\ codex.partial[p] < MaxDrafts
  /\ codex' = IF codex.client = "account" THEN [codex EXCEPT !.partial[p] = @ + 1] ELSE codex
  /\ UNCHANGED <<drawn, logged>>

HearDone(p) ==
  /\ codex.pc = "stream"
  /\ drawn' = [drawn EXCEPT !["codex_responses"] = IF p \in ToSet(@) THEN @ ELSE Append(@, p)]
  /\ codex' = IF codex.client = "account" THEN [codex EXCEPT !.finals = Emit(@, Final(p))] ELSE codex
  /\ UNCHANGED logged

\* response.completed lists all pictures; it ends the reading of the CPA client.
HearCompleted ==
  /\ codex.pc = "stream"
  /\ LET pictures == Finals(drawn["codex_responses"])
     IN codex' = IF codex.client = "account" THEN [codex EXCEPT !.finals = EmitAll(@, pictures)]
                 ELSE IF pictures = <<>> THEN Ended(codex, "failed")
                 ELSE Ended([codex EXCEPT !.finals = pictures], "success")
  /\ UNCHANGED <<drawn, logged>>

\* Without a picture the account's client returns the drafts, in any order.
EndOfStream ==
  /\ codex.pc = "stream"
  /\ LET drafts == {[picture |-> p, draft |-> codex.partial[p]] : p \in {q \in Drawings : codex.partial[q] > 0}}
     IN IF codex.client = "cpa" \/ (codex.finals = <<>> /\ drafts = {})
          THEN codex' = Ended(codex, "failed")
        ELSE IF codex.finals # <<>> THEN codex' = Ended(codex, "success")
        ELSE \E images \in SetToSeqs(drafts) : codex' = Ended([codex EXCEPT !.finals = images], "success")
  /\ UNCHANGED <<drawn, logged>>

\* An error event, or a broken connection, loses all pictures of the stream.
StreamFails ==
  /\ codex.pc = "stream"
  /\ codex' = Ended([codex EXCEPT !.finals = <<>>], "failed")
  /\ UNCHANGED <<drawn, logged>>

\* The entry tells the route of the client; the slot is returned.
LogCPARequest ==
  /\ codex.pc = "log"
  /\ logged' = Append(logged, [success |-> codex.outcome = "success", route |-> codex.lastRoute])
  /\ codex' = [codex EXCEPT !.pc = "over", !.inside = FALSE]
  /\ UNCHANGED drawn

CodexInit ==
  /\ codex = [pc |-> "idle", client |-> "cpa", operation |-> "generate", strategy |-> "auto",
              inside |-> FALSE, lastRoute |-> "", finals |-> <<>>, partial |-> [p \in Drawings |-> 0],
              outcome |-> ""]
  /\ drawn = [r \in CodexRoute |-> <<>>]
  /\ logged = <<>>

CodexNext ==
  \/ BeginAccountCall \/ BeginCPARequest \/ PassGate
  \/ ImagesAnswered \/ ImagesFallBack \/ ImagesFail \/ ResponsesAnswer \/ ResponsesFail
  \/ \E p \in Drawings : HearDraft(p) \/ HearDone(p)
  \/ HearCompleted \/ EndOfStream \/ StreamFails \/ LogCPARequest

CodexSpec == CodexInit /\ [][CodexNext]_codexVars

-----------------------------------------------------------------------------
\* A request that succeeded returns each picture once and in the order it was
\* drawn, on the one route its log entry names; drafts only when no picture
\* came, the last of each (parseResponsesSSE of both clients, GenerateImage and
\* EditImageByUpload).  Every CPA request is logged once, with its outcome, and
\* holds no slot when it is over (runPureCPAImageRequest).
CodexTellsTheTruth ==
  /\ codex.outcome = "success" =>
       LET finals == codex.finals
       IN /\ finals # <<>> /\ IsInjective(finals)
          /\ codex.client = "cpa" => finals = Finals(drawn[codex.lastRoute])
          /\ codex.client = "account" =>
               \/ finals = Finals(drawn["codex_responses"])
               \/ /\ drawn["codex_responses"] = <<>>
                  /\ \A i \in DOMAIN finals : finals[i].draft = codex.partial[finals[i].picture]
  /\ codex.pc = "over" =>
       /\ ~codex.inside
       /\ Len(logged) = IF codex.client = "cpa" THEN 1 ELSE 0
       /\ \A i \in DOMAIN logged : logged[i].success = (codex.outcome = "success")
=============================================================================
