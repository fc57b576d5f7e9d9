--------------------------- MODULE Conversations ---------------------------
(***************************************************************************)
(* The conversations of one user, their generations and the pictures on    *)
(* disk, while generations run and conversations are deleted.              *)
(*                                                                         *)
(* A generation has one picture, whose file bears its name.  Each          *)
(* statement and each file operation is a step.  "bare" is the row of a    *)
(* generation whose response names no file.                                *)
(***************************************************************************)
EXTENDS Naturals

CONSTANTS
  Pictures,  \* generations, with their pictures
  Chats,     \* conversations
  ChatOf,    \* the conversation of a generation
  Outside,   \* generations asked for by API key: they keep no conversation
  Cleaners,  \* requests that delete
  NoPicture

ASSUME ConversationsAssumption ==
  /\ ChatOf \in [Pictures -> Chats]
  /\ Outside \subseteq Pictures
  /\ NoPicture \notin Pictures

VARIABLES
  chats,      \* business_image_conversations
  generated,  \* business_image_generations
  asset,      \* business_image_assets
  disk,       \* files of the image directory
  recording,  \* executions that record a generation
  cleaner,
  backfill,   \* the references and files that a backfill has read
  lost        \* history: pictures found without reference while their
              \* generation was being recorded

conversationVars == <<chats, generated, asset, disk, recording, cleaner, backfill, lost>>

RunSteps == {"none", "placed", "written", "kept", "named", "over"}

IdleCleaner == [pc |-> "idle", scope |-> {}, names |-> {}, file |-> NoPicture, purge |-> FALSE]

ConversationsTypeOK ==
  /\ chats \subseteq Chats
  /\ generated \in [Pictures -> {"none", "bare", "saved"}]
  /\ asset \subseteq Pictures /\ disk \subseteq Pictures /\ lost \subseteq Pictures
  /\ recording \in [Pictures -> RunSteps]
  /\ cleaner \in [Cleaners -> [pc: {"idle", "assets", "rows", "files", "remove", "forget"},
                               scope: SUBSET Chats, names: SUBSET Pictures,
                               file: Pictures \cup {NoPicture}, purge: BOOLEAN]]
  /\ backfill \subseteq Pictures

ConversationsInit ==
  /\ chats = {}
  /\ generated = [p \in Pictures |-> "none"]
  /\ asset = {} /\ disk = {} /\ lost = {} /\ backfill = {}
  /\ recording = [p \in Pictures |-> "none"]
  /\ cleaner = [k \in Cleaners |-> IdleCleaner]

RecordingGoes(p, step) == recording' = [recording EXCEPT ![p] = step]

\* UpsertConversation
NamedFiles(p) == IF p \in Outside THEN chats ELSE chats \cup {ChatOf[p]}

Recording(p) == recording[p] \in {"written", "kept", "named"}

-----------------------------------------------------------------------------
(* A generation is recorded.                                               *)

\* recordProviderImageGenerationPlaceholder: queued, and running, and failed.
Place(p) ==
  /\ recording[p] \in {"none", "placed"}
  /\ chats' = NamedFiles(p)
  /\ generated' = [generated EXCEPT ![p] = "bare"]
  /\ \E step \in {"placed", "over"} : RecordingGoes(p, step)
  /\ UNCHANGED <<asset, disk, cleaner, backfill, lost>>

\* saveBusinessImageBytes: the file ...
WritePicture(p) ==
  /\ recording[p] = "placed"
  /\ disk' = disk \cup {p}
  /\ RecordingGoes(p, "written")
  /\ UNCHANGED <<chats, generated, asset, cleaner, backfill, lost>>

\* ... and its asset, whose failure nobody looks at.
KeepAsset(p) ==
  /\ recording[p] = "written"
  /\ asset' \in {asset, asset \cup {p}}
  /\ RecordingGoes(p, "kept")
  /\ UNCHANGED <<chats, generated, disk, cleaner, backfill, lost>>

NameChat(p) ==
  /\ recording[p] = "kept"
  /\ chats' = NamedFiles(p)
  /\ RecordingGoes(p, "named")
  /\ UNCHANGED <<generated, asset, disk, cleaner, backfill, lost>>

SaveGeneration(p) ==
  /\ recording[p] = "named"
  /\ generated' = [generated EXCEPT ![p] = "saved"]
  /\ RecordingGoes(p, "over")
  /\ UNCHANGED <<chats, asset, disk, cleaner, backfill, lost>>

RunStops(p) ==
  /\ recording[p] \notin {"none", "over"}
  /\ RecordingGoes(p, "over")
  /\ UNCHANGED <<chats, generated, asset, disk, cleaner, backfill, lost>>

-----------------------------------------------------------------------------
(* Conversations are deleted.                                              *)

CleanerGoes(k, pc) == cleaner' = [cleaner EXCEPT ![k].pc = pc]

\* The names of the files are read first: of one conversation, or of the user.
BeginCleaning(k, scope, purge) ==
  /\ cleaner[k].pc = "idle"
  /\ cleaner' = [cleaner EXCEPT ![k] =
       [pc |-> IF purge THEN "assets" ELSE "rows", scope |-> scope, purge |-> purge,
        names |-> {p \in Pictures : /\ ChatOf[p] \in scope
                                    /\ p \in asset \/ generated[p] = "saved"},
        file |-> NoPicture]]
  /\ UNCHANGED <<chats, generated, asset, disk, recording, backfill, lost>>

\* clearBusinessUserData deletes the assets, too.
DropAssets(k) ==
  /\ cleaner[k].pc = "assets"
  /\ asset' = {}
  /\ CleanerGoes(k, "rows")
  /\ UNCHANGED <<chats, generated, disk, recording, backfill, lost>>

\* DeleteConversation and ClearConversations.  A conversation that has no row
\* is not found, although its generations are deleted: the files stay.
DeleteRows(k) ==
  /\ cleaner[k].pc = "rows"
  /\ generated' = [p \in Pictures |-> IF ChatOf[p] \in cleaner[k].scope
                                      THEN "none" ELSE generated[p]]
  /\ chats' = chats \ cleaner[k].scope
  /\ IF cleaner[k].scope = Chats \/ cleaner[k].scope \cap chats # {}
     THEN CleanerGoes(k, "files")
     ELSE cleaner' = [cleaner EXCEPT ![k] = IdleCleaner]
  /\ UNCHANGED <<asset, disk, recording, backfill, lost>>

\* (Variation: nobody looks whether a generation refers to the file.)
NotAsked(p) == FALSE

\* ImageFileNameReferenced
Referenced(p) ==
  \/ p \in asset /\ generated[p] # "none"
  \/ generated[p] = "saved"

LookAtFile(k, p) ==
  /\ cleaner[k].pc = "files"
  /\ p \in cleaner[k].names
  /\ cleaner' = [cleaner EXCEPT
       ![k].names = @ \ {p},
       ![k].file = IF Referenced(p) THEN NoPicture ELSE p,
       ![k].pc = IF Referenced(p) THEN "files" ELSE "remove"]
  /\ lost' = IF generated[p] = "none" /\ Recording(p) THEN lost \cup {p} ELSE lost
  /\ UNCHANGED <<chats, generated, asset, disk, recording, backfill>>

RemoveFile(k) ==
  /\ cleaner[k].pc = "remove"
  /\ disk' = disk \ {cleaner[k].file}
  /\ CleanerGoes(k, "forget")
  /\ UNCHANGED <<chats, generated, asset, recording, backfill, lost>>

\* DeleteAssetsByFileName
ForgetAsset(k) ==
  /\ cleaner[k].pc = "forget"
  /\ asset' = asset \ {cleaner[k].file}
  /\ cleaner' = [cleaner EXCEPT ![k].pc = "files", ![k].file = NoPicture]
  /\ UNCHANGED <<chats, generated, disk, recording, backfill, lost>>

\* All files are gone through, or an error or a crash ends the request.
CleanerEnds(k) ==
  /\ cleaner[k].pc # "idle"
  /\ cleaner' = [cleaner EXCEPT ![k] = IdleCleaner]
  /\ UNCHANGED <<chats, generated, asset, disk, recording, backfill, lost>>

\* BackfillLegacyAssets: the directory, then the references, are read, ...
ReadLegacy ==
  /\ backfill = {}
  /\ backfill' = {p \in disk \ asset : generated[p] = "saved"}
  /\ UNCHANGED <<chats, generated, asset, disk, recording, cleaner, lost>>

\* ... and the assets are inserted one by one.
BackfillAsset(p) ==
  /\ p \in backfill
  /\ backfill' = backfill \ {p}
  /\ asset' = asset \cup {p}
  /\ UNCHANGED <<chats, generated, disk, recording, cleaner, lost>>

-----------------------------------------------------------------------------

ConversationsNext ==
  \/ \E p \in Pictures :
       \/ Place(p) \/ WritePicture(p) \/ KeepAsset(p) \/ NameChat(p) \/ SaveGeneration(p)
       \/ RunStops(p) \/ BackfillAsset(p)
       \/ \E k \in Cleaners : LookAtFile(k, p)
  \/ \E k \in Cleaners :
       \/ \E c \in Chats : BeginCleaning(k, {c}, FALSE)
       \/ \E purge \in BOOLEAN : BeginCleaning(k, Chats, purge)
       \/ DropAssets(k) \/ DeleteRows(k) \/ RemoveFile(k) \/ ForgetAsset(k) \/ CleanerEnds(k)
  \/ ReadLegacy

ConversationsSpec == ConversationsInit /\ [][ConversationsNext]_conversationVars

-----------------------------------------------------------------------------

\* Whatever is deleted meanwhile, the picture of a recorded generation is on
\* disk, unless a deletion found it without reference between the writing of
\* the file and the recording of the generation.
SavedPicturesStay ==
  \A p \in Pictures : generated[p] = "saved" => p \in disk \/ p \in lost

=============================================================================
