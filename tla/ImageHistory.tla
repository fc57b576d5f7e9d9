---------------------------- MODULE ImageHistory ----------------------------
(***************************************************************************)
(* The image history kept on the server: conversations in files or in a    *)
(* redis hash, and the pictures they refer to in the image directory, each *)
(* under the hash of its content, so that conversations share them.  Every *)
(* request opens a store of its own and nothing locks: a step is one call  *)
(* on the file system or on redis.                                         *)
(***************************************************************************)
EXTENDS Integers

CONSTANTS
  HistoryIds,        \* ids of conversations
  Contents,          \* contents
  Keepers,           \* bound: requests that go on at one time
  MaxHistoryChanges  \* bound: requests

ASSUME ImageHistoryAssumption == HistoryIds # {} /\ MaxHistoryChanges \in Nat

VARIABLES
  chat,            \* the conversations: the pictures of each, or NoChat
  file,            \* the pictures in the image directory
  keeper,          \* the requests
  historyChanges,
  crossedFiles     \* history: pictures that were saved and cleaned up at one time

historyVars == <<chat, file, keeper, historyChanges, crossedFiles>>

\* A conversation is there or not, whatever pictures it has.
Chat == [there: BOOLEAN, pics: SUBSET Contents]
NoChat == [there |-> FALSE, pics |-> {}]

\* id: what is saved or deleted; left: pictures still to write or to remove;
\* pics: those the saved conversation has, or the candidates of a cleanup;
\* then: what an import still has to save.
Keeper == [pc: {"idle", "write", "save", "delete", "clear", "list", "remove"},
           id: HistoryIds, pics: SUBSET Contents, left: SUBSET Contents,
           then: SUBSET HistoryIds]

IdleKeeper == [pc |-> "idle", id |-> CHOOSE c \in HistoryIds : TRUE, pics |-> {},
               left |-> {}, then |-> {}]

KeeperGoes(k, r) == keeper' = [keeper EXCEPT ![k] = r]
IsAt(k, pc) == keeper[k].pc = pc

\* collectConversationImageFiles of all conversations
ReferencedFiles == UNION {chat[c].pics : c \in HistoryIds}

Begin(k) ==
  /\ IsAt(k, "idle") /\ historyChanges < MaxHistoryChanges
  /\ historyChanges' = historyChanges + 1
  /\ UNCHANGED <<chat, file>>

-----------------------------------------------------------------------------

\* handleSaveImageConversation: pictures come as data (new) or as the URL of a file
\* that is there.
BeginSaveChat(k, c, new, old) ==
  /\ Begin(k)
  /\ old \subseteq file
  /\ KeeperGoes(k, [IdleKeeper EXCEPT !.pc = "write", !.id = c, !.left = new,
                                      !.pics = new \cup old])

\* saveAsset: written under a temporary name and renamed, unless it is there; two
\* saves of one picture share that name, and the second to rename fails.
WriteAsset(k, p) ==
  /\ IsAt(k, "write") /\ p \in keeper[k].left
  /\ \/ /\ file' = file \cup {p}
        /\ KeeperGoes(k, [keeper[k] EXCEPT !.left = @ \ {p}])
     \/ /\ \E l \in Keepers \ {k} : IsAt(l, "write") /\ p \in keeper[l].pics
        /\ file' = file \cup {p}
        /\ KeeperGoes(k, IdleKeeper)
  /\ UNCHANGED <<chat, historyChanges>>

\* backend.Save; an import goes on with its next conversation, which has the same
\* pictures here.
SaveChat(k) ==
  LET r == keeper[k]
  IN  /\ IsAt(k, "write") /\ r.left = {}
      /\ chat' = [chat EXCEPT ![r.id] = [there |-> TRUE, pics |-> r.pics]]
      /\ IF r.then = {} THEN KeeperGoes(k, IdleKeeper)
         ELSE \E c \in r.then :
                KeeperGoes(k, [r EXCEPT !.id = c, !.left = r.pics, !.then = @ \ {c}])
      /\ UNCHANGED <<file, historyChanges>>

\* Delete reads the conversation for its candidates.
BeginDelete(k, c) ==
  /\ Begin(k)
  /\ KeeperGoes(k, IF chat[c].there
                   THEN [IdleKeeper EXCEPT !.pc = "delete", !.id = c,
                                           !.pics = chat[c].pics]
                   ELSE IdleKeeper)

DeleteChat(k) ==
  /\ IsAt(k, "delete")
  /\ chat' = [chat EXCEPT ![keeper[k].id] = NoChat]
  /\ KeeperGoes(k, [keeper[k] EXCEPT !.pc = "list"])
  /\ UNCHANGED <<file, historyChanges>>

\* Clear, and the import that begins with it and then saves its conversations.
BeginClear(k, then, pics) ==
  /\ Begin(k)
  /\ KeeperGoes(k, [IdleKeeper EXCEPT !.pc = "clear", !.pics = ReferencedFiles,
                                      !.then = then, !.left = pics])

\* The file backend removes one conversation after the other, redis all at once.
ClearOne(k, c) ==
  /\ IsAt(k, "clear")
  /\ chat[c].there
  /\ chat' = [chat EXCEPT ![c] = NoChat]
  /\ UNCHANGED <<file, keeper, historyChanges>>

ClearRest(k) ==
  /\ IsAt(k, "clear")
  /\ chat' = [c \in HistoryIds |-> NoChat]
  /\ KeeperGoes(k, [keeper[k] EXCEPT !.pc = "list"])
  /\ UNCHANGED <<file, historyChanges>>

\* (Variation: the candidates go without a look at the other conversations.)
AllCandidates(k) == keeper[k].pics

\* cleanupCandidateFiles: what no conversation that is left refers to.
Unreferenced(k) == keeper[k].pics \ ReferencedFiles

\* The files to remove are in pics from here on.
ListRemaining(k) ==
  /\ IsAt(k, "list")
  /\ KeeperGoes(k, [keeper[k] EXCEPT !.pc = "remove", !.pics = Unreferenced(k)])
  /\ UNCHANGED <<chat, file, historyChanges>>

RemoveHistoryFile(k, p) ==
  /\ IsAt(k, "remove") /\ p \in keeper[k].pics
  /\ file' = file \ {p}
  /\ KeeperGoes(k, [keeper[k] EXCEPT !.pics = @ \ {p}])
  /\ UNCHANGED <<chat, historyChanges>>

EndCleanup(k) ==
  LET r == keeper[k]
  IN  /\ IsAt(k, "remove") /\ r.pics = {}
      /\ IF r.then = {} THEN KeeperGoes(k, IdleKeeper)
         ELSE \E c \in r.then :
                KeeperGoes(k, [r EXCEPT !.pc = "write", !.id = c, !.pics = r.left,
                                        !.then = @ \ {c}])
      /\ UNCHANGED <<chat, file, historyChanges>>

-----------------------------------------------------------------------------

HistoryInit ==
  /\ chat = [c \in HistoryIds |-> NoChat]
  /\ file = {}
  /\ keeper = [k \in Keepers |-> IdleKeeper]
  /\ historyChanges = 0
  /\ crossedFiles = {}

HistoryStep ==
  \E k \in Keepers :
    \/ \E c \in HistoryIds, new, old \in SUBSET Contents :
         new \cap old = {} /\ BeginSaveChat(k, c, new, old)
    \/ \E p \in Contents : WriteAsset(k, p) \/ RemoveHistoryFile(k, p)
    \/ SaveChat(k)
    \/ \E c \in HistoryIds : BeginDelete(k, c) \/ ClearOne(k, c)
    \/ DeleteChat(k)
    \/ BeginClear(k, {}, {})
    \/ \E then \in SUBSET HistoryIds, pics \in SUBSET Contents :
         then # {} /\ BeginClear(k, then, pics)
    \/ ClearRest(k) \/ ListRemaining(k) \/ EndCleanup(k)

Saving(r, p) == r.pc = "write" /\ p \in r.pics
CleaningUp(r, p) == r.pc \in {"delete", "clear", "list", "remove"} /\ p \in r.pics

HistoryNext ==
  /\ HistoryStep
  /\ crossedFiles' = crossedFiles \cup
       {p \in Contents : \E k, l \in Keepers :
          Saving(keeper'[k], p) /\ CleaningUp(keeper'[l], p)}

HistorySpec == HistoryInit /\ [][HistoryNext]_historyVars

HistoryTypeOK ==
  /\ chat \in [HistoryIds -> Chat]
  /\ file \subseteq Contents /\ crossedFiles \subseteq Contents
  /\ keeper \in [Keepers -> Keeper]
  /\ historyChanges \in 0..MaxHistoryChanges

\* A conversation of the history finds its pictures, whatever is saved, deleted,
\* cleared and imported at one time, unless the picture itself was saved while a
\* request that removes a conversation had it as a candidate: nothing tells the
\* cleanup of a conversation that is about to be saved (imagehistory/store.go:394).
HistoryKeepsPictures ==
  \A c \in HistoryIds : chat[c].pics \subseteq file \cup crossedFiles
=============================================================================
