----------------------------- MODULE AccountSync -----------------------------
(***************************************************************************)
(* The synchronisation of the accounts here with those of a remote         *)
(* service: CPA, whose files go by name, or Sub2API and NewAPI, whose      *)
(* accounts go by the identity in them and by how new they are.  One run   *)
(* and the changes that others make here and there while it goes on.       *)
(*                                                                         *)
(* A name stands for an identity too.  What Sub2API keeps outside of the   *)
(* chosen group is left out, and so are NewAPI's channels that agree with  *)
(* an account in name only.                                                *)
(***************************************************************************)
EXTENDS Integers, FiniteSets

CONSTANTS
  AccountNames,
  MaxVersion,     \* bound: how new credentials are
  MaxSyncChanges  \* bound: changes while a run goes on

ASSUME AccountSyncAssumption == MaxVersion \in Nat \ {0} /\ MaxSyncChanges \in Nat

VARIABLES
  source,      \* "cpa", "sub2api" or "newapi"
  here,        \* the auth files
  there,       \* what the remote service has
  synced,      \* accounts whose sync state has a LastSyncedAt
  syncRun,     \* RunSync, runSub2APISync or runNewAPISync
  syncChanges

accountSyncVars == <<source, here, there, synced, syncRun, syncChanges>>

\* "token": added as a bare token, which is not synchronised.  "bare": a channel
\* of NewAPI without the credentials.
Copies(kinds) == [kind: kinds, disabled: BOOLEAN, version: 1..MaxVersion]

NoCopy == [kind |-> "none", disabled |-> FALSE, version |-> 1]

HereCopies == {NoCopy} \cup {c \in Copies({"file", "token"}) :
                               IF source = "cpa" THEN c.version = 1 ELSE ~c.disabled}

ThereCopies == {NoCopy} \cup {c \in Copies(IF source = "newapi" THEN {"file", "bare"} ELSE {"file"}) :
                                IF source = "cpa" THEN c.version = 1 ELSE ~c.disabled}

\* What a run has yet to do, with the copy it read.
SyncTask == [op: {"upload", "download", "align", "export", "import"}, name: AccountNames,
             copy: Copies({"file", "token"})]

\* seen: loadAuths at the start; quiet: history, nobody else changed anything
SyncRun == [pc: {"read", "list", "work", "over"}, direction: {"push", "pull"},
            seen: [AccountNames -> Copies({"none", "file", "token"})], todo: SUBSET SyncTask,
            ok: BOOLEAN, failed: BOOLEAN, quiet: BOOLEAN]

-----------------------------------------------------------------------------
(* What there is to do.                                                    *)

Syncable(n) == syncRun.seen[n].kind = "file"

Tasks(op, names, copy(_)) == {[op |-> op, name |-> n, copy |-> copy(n)] : n \in names}

\* (Variation: a file that was deleted there is not pushed again.)
MissingAndNew == {n \in AccountNames : Syncable(n) /\ there[n].kind = "none" /\ n \notin synced}

\* "pending_upload" and "remote_deleted"
MissingThere == {n \in AccountNames : Syncable(n) /\ there[n].kind = "none"}

Seen(n) == syncRun.seen[n]
SeenThere(n) == there[n]

\* buildSyncSummary and the lists RunSync makes of it.
CPATasks ==
  LET mismatch == {n \in AccountNames :
                    /\ Syncable(n) /\ there[n].kind # "none"
                    /\ syncRun.seen[n].disabled # there[n].disabled}
  IN  IF syncRun.direction = "push"
      THEN Tasks("upload", MissingThere, Seen) \cup Tasks("align", mismatch, Seen)
      ELSE Tasks("download", {n \in AccountNames : ~Syncable(n) /\ there[n].kind # "none"}, SeenThere)
           \cup Tasks("align", mismatch, SeenThere)

\* Channels without credentials are not pulled, and not pushed once more.
OtherTasks ==
  IF syncRun.direction = "push"
  THEN Tasks("export", MissingThere, Seen)
  ELSE Tasks("import", {n \in AccountNames : there[n].kind = "file"}, SeenThere)

-----------------------------------------------------------------------------
(* A run.                                                                  *)

ReadHere ==
  /\ syncRun.pc = "read"
  /\ syncRun' = [syncRun EXCEPT !.pc = "list", !.seen = here]
  /\ UNCHANGED <<source, here, there, synced, syncChanges>>

\* ListAuthFiles, ExportOpenAIOAuthAccounts or ListCodexChannels.
ListThere ==
  /\ syncRun.pc = "list"
  /\ \/ syncRun' = [syncRun EXCEPT !.pc = "work",
                      !.todo = IF source = "cpa" THEN CPATasks ELSE OtherTasks]
     \/ syncRun' = [syncRun EXCEPT !.pc = "over", !.ok = FALSE]
  /\ UNCHANGED <<source, here, there, synced, syncChanges>>

TaskDone(t) == syncRun' = [syncRun EXCEPT !.todo = @ \ {t}]
TaskFailed(t) == syncRun' = [syncRun EXCEPT !.todo = @ \ {t}, !.ok = FALSE]

\* The file as it is now is sent, and one that is there already is kept (409) or
\* replaced; an answer may be lost.
Upload(t) ==
  LET n == t.name
  IN  /\ t.op = "upload"
      /\ \/ /\ here[n].kind # "none"
            /\ \E replaced \in BOOLEAN :
                 there' = IF there[n].kind # "none" /\ ~replaced THEN there
                          ELSE [there EXCEPT ![n] = [here[n] EXCEPT !.kind = "file"]]
            /\ \/ TaskDone(t) /\ synced' = synced \cup {n}
               \/ TaskFailed(t) /\ UNCHANGED synced
         \/ TaskFailed(t) /\ UNCHANGED <<there, synced>>
      /\ UNCHANGED here

\* The file is written whatever is here by now.
Download(t) ==
  LET n == t.name
  IN  /\ t.op = "download"
      /\ \/ /\ there[n].kind # "none"
            /\ here' = [here EXCEPT ![n] = there[n]]
            /\ synced' = synced \cup {n}
            /\ TaskDone(t)
         \/ TaskFailed(t) /\ UNCHANGED <<here, synced>>
      /\ UNCHANGED there

\* PatchAuthFileStatus or alignLocalAuthDisabled, with the flag that was read.
Align(t) ==
  LET n == t.name
      push == syncRun.direction = "push"
      Aligned(copies) == [copies EXCEPT ![n].disabled = t.copy.disabled]
  IN  /\ t.op = "align"
      /\ \/ /\ (IF push THEN there[n].kind ELSE here[n].kind) # "none"
            /\ there' = IF push THEN Aligned(there) ELSE there
            /\ here' = IF push THEN here ELSE Aligned(here)
            /\ \/ TaskDone(t) /\ synced' = synced \cup {n}
               \/ push /\ TaskFailed(t) /\ UNCHANGED synced
         \/ TaskFailed(t) /\ UNCHANGED <<here, there, synced>>

\* What was read here is sent, whatever is there by now.  A refused account is
\* counted, an answer that does not come ends a run with Sub2API.
Export(t) ==
  LET n == t.name
      sent == there' = [there EXCEPT ![n] = IF @.kind = "none" THEN t.copy ELSE @]
  IN  /\ t.op = "export"
      /\ \/ sent /\ TaskDone(t)
         \/ /\ sent \/ UNCHANGED there
            /\ syncRun' = [syncRun EXCEPT !.todo = @ \ {t}, !.failed = TRUE]
         \/ /\ source = "sub2api"
            /\ sent \/ UNCHANGED there
            /\ syncRun' = [syncRun EXCEPT !.todo = {}, !.ok = FALSE]
      /\ UNCHANGED <<here, synced>>

\* ImportAuthFiles of one file: credentials that are not newer are skipped.
Import(t) ==
  LET n == t.name
  IN  /\ t.op = "import"
      /\ \/ /\ here[n].kind # "none" /\ t.copy.version <= here[n].version
            /\ TaskDone(t)
            /\ UNCHANGED <<here, synced>>
         \/ /\ here[n].kind = "none" \/ t.copy.version > here[n].version
            /\ here' = [here EXCEPT ![n] = t.copy]
            /\ synced' = synced \ {n}
            /\ TaskDone(t)
         \/ /\ syncRun' = [syncRun EXCEPT !.todo = @ \ {t}, !.failed = TRUE]
            /\ UNCHANGED <<here, synced>>
      /\ UNCHANGED there

DoTask ==
  /\ syncRun.pc = "work"
  /\ \E t \in syncRun.todo : Upload(t) \/ Download(t) \/ Align(t) \/ Export(t) \/ Import(t)
  /\ UNCHANGED <<source, syncChanges>>

EndRun ==
  /\ syncRun.pc = "work" /\ syncRun.todo = {}
  /\ syncRun' = [syncRun EXCEPT !.pc = "over"]
  /\ UNCHANGED <<source, here, there, synced, syncChanges>>

-----------------------------------------------------------------------------
(* What others do while the run goes on; what they did before is in the    *)
(* initial states.                                                         *)

OthersChange ==
  /\ syncRun.pc \in {"list", "work"}
  /\ syncChanges < MaxSyncChanges
  /\ syncChanges' = syncChanges + 1
  /\ syncRun' = [syncRun EXCEPT !.quiet = FALSE]
  /\ UNCHANGED source

\* An account is added or imported (markLocalNew), deleted (deleteSyncState), or
\* disabled or enabled.
ChangeHere(n, copy) ==
  /\ copy # here[n]
  /\ here[n].kind \in {"none", copy.kind} \/ copy.kind = "none"
  /\ here' = [here EXCEPT ![n] = copy]
  /\ synced' = IF here[n].kind = copy.kind THEN synced ELSE synced \ {n}
  /\ OthersChange
  /\ UNCHANGED there

ChangeThere(n, copy) ==
  /\ copy # there[n]
  /\ there' = [there EXCEPT ![n] = copy]
  /\ OthersChange
  /\ UNCHANGED <<here, synced>>

-----------------------------------------------------------------------------

AccountSyncInit ==
  /\ source \in {"cpa", "sub2api", "newapi"}
  /\ here \in [AccountNames -> HereCopies]
  /\ there \in [AccountNames -> ThereCopies]
  /\ synced \in SUBSET {n \in AccountNames : here[n].kind = "file" /\ source = "cpa"}
  /\ syncRun \in [pc: {"read"}, direction: {"push", "pull"}, seen: {[n \in AccountNames |-> NoCopy]},
                  todo: {{}}, ok: {TRUE}, failed: {FALSE}, quiet: {TRUE}]
  /\ syncChanges = 0

AccountSyncNext ==
  \/ ReadHere \/ ListThere \/ DoTask \/ EndRun
  \/ \E n \in AccountNames : \/ \E copy \in HereCopies : ChangeHere(n, copy)
                             \/ \E copy \in ThereCopies : ChangeThere(n, copy)

AccountSyncSpec == AccountSyncInit /\ [][AccountSyncNext]_accountSyncVars

-----------------------------------------------------------------------------

AccountSyncTypeOK ==
  /\ source \in {"cpa", "sub2api", "newapi"}
  /\ here \in [AccountNames -> HereCopies]
  /\ there \in [AccountNames -> ThereCopies]
  /\ synced \subseteq AccountNames
  /\ syncRun \in SyncRun
  /\ syncChanges \in 0..MaxSyncChanges

\* A run that reports no failure, and that nobody interfered with, leaves the
\* side it writes to with all that the other side has, and as CPA's flags go
\* with the same ones enabled; and no account that was here at its start is lost
\* or older.
QuietSyncAgrees ==
  LET SameFlag(n) == source = "cpa" => here[n].disabled = there[n].disabled
  IN  syncRun.pc = "over" /\ syncRun.ok /\ ~syncRun.failed /\ syncRun.quiet =>
        \A n \in AccountNames :
          /\ syncRun.direction = "push" /\ here[n].kind = "file" =>
               there[n].kind # "none" /\ SameFlag(n)
          /\ syncRun.direction = "pull" /\ there[n].kind = "file" =>
               here[n].kind # "none" /\ SameFlag(n) /\ here[n].version >= there[n].version
          /\ Syncable(n) => here[n].kind = "file" /\ here[n].version >= syncRun.seen[n].version

=============================================================================
