-------------------------- MODULE WebConversation --------------------------
(***************************************************************************)
(* The web client of the upstream: a picture is asked for with a message    *)
(* in a conversation.  The answer streams back at once or is written later, *)
(* and the client polls the conversation, a tree of messages, for it.       *)
(*                                                                         *)
(* A message is named by the call it belongs to, the route it was posted    *)
(* on, and its place below the posted message (0).  Inpainting calls post   *)
(* into the conversation of the picture they change, so several of them may *)
(* share one tree; every other post opens a conversation of its own.        *)
(***************************************************************************)
EXTENDS Naturals, Sequences, FiniteSets, SequencesExt

CONSTANTS
  Calls,       \* calls of the client
  MaxFiles,    \* bound: pictures uploaded by an edit, its mask included
  MaxAnswers,  \* bound: messages below a posted one
  MaxShown     \* bound: pictures in a message

ASSUME WebConversationAssumption ==
  IsFiniteSet(Calls) /\ MaxFiles \in Nat \ {0} /\ MaxAnswers \in Nat \ {0} /\ MaxShown \in Nat \ {0}

VARIABLES
  web,     \* the calls
  message  \* the messages of the upstream

webVars == <<web, message>>

Route == {"f-conversation", "conversation"}

Message == [call: Calls, route: Route, place: 0 .. MaxAnswers]

\* The message below which inpainting calls post; it holds the picture to change.
Origin == [place |-> "origin"]

MessageState == {"absent", "writing", "finished"}

\* A picture is known by its message and its index there.
PictureOf == [message: Message \cup {Origin}, index: 1 .. MaxShown]

WebPC == {"idle", "upload", "tokens", "post", "stream", "poll", "done", "failed"}

WebConversationTypeOK ==
  /\ web \in [Calls -> [pc: WebPC, kind: {"generate", "edit", "inpaint"}, route: Route,
                        lastRoute: Route \cup {""}, files: 0 .. MaxFiles,
                        stage: {"announce", "put", "confirm"}, heard: SUBSET Message,
                        async: BOOLEAN, found: Seq(PictureOf)]]
  /\ message \in [Message -> [state: MessageState, shown: 0 .. MaxShown]]

Posted(c, r) == [call |-> c, route |-> r, place |-> 0]

\* A message of the user, and one that is still being written, hold no
\* pictures for the client; the posted message of an edit shows the uploads.
PicturesIn(m) ==
  IF m = Origin THEN {[message |-> Origin, index |-> 1]}
  ELSE IF m.place = 0 \/ message[m].state # "finished" THEN {}
  ELSE {[message |-> m, index |-> i] : i \in 1 .. message[m].shown}

\* The pictures of a message in their order, but those whose link is refused.
Extracts(m) ==
  {s \in SeqOf(PicturesIn(m), MaxShown) : \A i, j \in DOMAIN s : i < j => s[i].index < s[j].index}

\* The posted message and those below it, in the order of the visit.  The
\* answers form a chain.
Chain(c) == [i \in 1 .. MaxAnswers + 1 |-> [Posted(c, web[c].route) EXCEPT !.place = i - 1]]

\* (Variation: the visit starts at the root of the conversation.)
VisitedFromRoot(c) == (IF web[c].kind = "inpaint" THEN <<Origin>> ELSE <<>>) \o Chain(c)

Visited(c) == Chain(c)

\* One fetch finds some of the pictures of every visited message.
Fetched(c) ==
  {FlattenSeq(f) : f \in {g \in [DOMAIN Visited(c) -> UNION {Extracts(Visited(c)[i]) : i \in DOMAIN Visited(c)}] :
                          \A i \in DOMAIN g : g[i] \in Extracts(Visited(c)[i])}}

Goes(c, pc) == web' = [web EXCEPT ![c].pc = pc]

-----------------------------------------------------------------------------
\* A generation is posted at once, first by the route of the web page.
BeginGenerate(c) ==
  /\ web[c].pc = "idle"
  /\ Goes(c, "tokens")
  /\ UNCHANGED message

\* An edit uploads its pictures and its mask first, and needs a picture;
BeginUpload(c, kind, files) ==
  /\ web[c].pc = "idle"
  /\ web' = [web EXCEPT ![c].kind = kind, ![c].files = files, ![c].route = "conversation",
                        ![c].pc = IF files = 0 THEN "failed" ELSE "upload"]
  /\ UNCHANGED message

BeginEdit(c) == \E files \in 0 .. MaxFiles : BeginUpload(c, "edit", files)

\* inpainting uploads its mask.
BeginInpaint(c) == \E mask \in 0 .. 1 : BeginUpload(c, "inpaint", mask)

\* A file is announced and put where the answer says,
UploadPicture(c) ==
  /\ web[c].pc = "upload" /\ web[c].stage # "confirm"
  /\ web' = [web EXCEPT ![c].stage = IF @ = "announce" THEN "put" ELSE "confirm"]
  /\ UNCHANGED message

\* and confirmed.
ConfirmUpload(c) ==
  /\ web[c].pc = "upload" /\ web[c].stage = "confirm"
  /\ web' = [web EXCEPT ![c].stage = "announce", ![c].files = @ - 1,
                        ![c].pc = IF web[c].files = 1 THEN "tokens" ELSE "upload"]
  /\ UNCHANGED message

\* The tokens are asked for before each post.  A failure to get them, or to
\* upload a file, is final.
GetTokens(c) == web[c].pc = "tokens" /\ Goes(c, "post") /\ UNCHANGED message

Unprepared(c) == web[c].pc \in {"upload", "tokens"} /\ Goes(c, "failed") /\ UNCHANGED message

Arrives(c) == message' = [message EXCEPT ![Posted(c, web[c].route)].state = "finished"]

Post(c) == web[c].pc = "post" /\ Arrives(c) /\ Goes(c, "stream")

\* A request that was lost, maybe on its way back, and an answer of the 5xx
\* range send a picture by the other route; any other refusal is final.
PostFails(c) ==
  /\ web[c].pc = "post"
  /\ \E answer \in {"lost", "unavailable", "refused"} :
       /\ IF web[c].route = "f-conversation" /\ answer # "refused"
            THEN web' = [web EXCEPT ![c].route = "conversation", ![c].pc = "tokens"]
            ELSE Goes(c, "failed")
       /\ (answer = "lost" /\ Arrives(c)) \/ UNCHANGED message

-----------------------------------------------------------------------------
\* The upstream writes its answers one after the other, with a first version
\* of a picture while it writes.
Write(m) ==
  /\ m.place > 0
  /\ message[m].state = "absent"
  /\ message[[m EXCEPT !.place = @ - 1]].state = "finished"
  /\ \E shown \in 0 .. 1 : message' = [message EXCEPT ![m] = [state |-> "writing", shown |-> shown]]
  /\ UNCHANGED web

Finish(m) ==
  /\ message[m].state = "writing"
  /\ \E shown \in 0 .. MaxShown : message' = [message EXCEPT ![m] = [state |-> "finished", shown |-> shown]]
  /\ UNCHANGED web

\* parseSSE: an event shows an answer as it is, the answers in their order.  A
\* finished one is sent once; the parent of the post, if sent, is skipped.
Hear(c) ==
  /\ web[c].pc = "stream"
  /\ \E m \in Message :
       /\ m.call = c /\ m.route = web[c].route /\ m.place > 0
       /\ message[m].state # "absent"
       /\ web[c].heard = {n \in Message : n.call = c /\ n.route = m.route /\ n.place \in 1 .. m.place - 1}
       /\ \E pictures \in Extracts(m) :
            web' = [web EXCEPT ![c].found = @ \o pictures,
                               ![c].heard = IF message[m].state = "finished" THEN @ \cup {m} ELSE @]
  /\ UNCHANGED message

HearAsync(c) ==
  /\ web[c].pc = "stream" /\ ~web[c].async
  /\ web' = [web EXCEPT ![c].async = TRUE]
  /\ UNCHANGED message

Returns(c, pictures) ==
  web' = [web EXCEPT ![c].pc = "done", ![c].found = pictures,
                     ![c].lastRoute = IF web[c].kind = "generate" THEN web[c].route ELSE @]

\* Pictures of the stream are the result; without any, the client polls if the
\* answer comes later in a conversation it knows.
EndStream(c) ==
  /\ web[c].pc = "stream"
  /\ IF web[c].found # <<>> THEN Returns(c, web[c].found)
     ELSE \/ web[c].async /\ Goes(c, "poll")
          \/ (~web[c].async \/ web[c].kind # "inpaint") /\ Goes(c, "failed")
  /\ UNCHANGED message

\* An error of the stream loses the pictures it brought.
StreamBreaks(c) == web[c].pc = "stream" /\ Goes(c, "failed") /\ UNCHANGED message

\* A fetch that fails, or finds nothing, is repeated.
Poll(c) ==
  /\ web[c].pc = "poll"
  /\ \E pictures \in Fetched(c) \ {<<>>} : Returns(c, pictures)
  /\ UNCHANGED message

\* pollMaxWait is over or the request cancelled.
PollEnds(c) == web[c].pc = "poll" /\ Goes(c, "failed") /\ UNCHANGED message

WebConversationInit ==
  /\ web = [c \in Calls |-> [pc |-> "idle", kind |-> "generate", route |-> "f-conversation",
                             lastRoute |-> "", files |-> 0, stage |-> "announce", heard |-> {},
                             async |-> FALSE, found |-> <<>>]]
  /\ message = [m \in Message |-> [state |-> "absent", shown |-> 0]]

WebConversationNext ==
  \/ \E c \in Calls :
       \/ BeginGenerate(c) \/ BeginEdit(c) \/ BeginInpaint(c) \/ UploadPicture(c) \/ ConfirmUpload(c)
       \/ GetTokens(c) \/ Unprepared(c) \/ Post(c) \/ PostFails(c)
       \/ Hear(c) \/ HearAsync(c) \/ EndStream(c) \/ StreamBreaks(c) \/ Poll(c) \/ PollEnds(c)
  \/ \E m \in Message : Write(m) \/ Finish(m)

WebConversationSpec == WebConversationInit /\ [][WebConversationNext]_webVars

-----------------------------------------------------------------------------
\* What a call returns was drawn for the message it posted last, on the route
\* it reports, is finished, and is returned once, in the order it was drawn:
\* never a picture that was in the conversation before, an upload of its own,
\* an unfinished version, or the picture of another call (doConversationRequest
\* and what it calls).
AnswersAreOurs ==
  \A c \in Calls : web[c].pc = "done" =>
    LET found == web[c].found
    IN /\ found # <<>>
       /\ web[c].kind = "generate" => web[c].lastRoute = web[c].route
       /\ \A i \in DOMAIN found :
            /\ found[i].message # Origin
            /\ found[i].message.call = c /\ found[i].message.route = web[c].route
            /\ found[i].message.place > 0
            /\ message[found[i].message].state = "finished"
            /\ found[i].index \in 1 .. message[found[i].message].shown
       /\ \A i, j \in DOMAIN found : i < j =>
            \/ found[i].message.place < found[j].message.place
            \/ found[i].message = found[j].message /\ found[i].index < found[j].index
=============================================================================
