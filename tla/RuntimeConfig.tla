---------------------------- MODULE RuntimeConfig ----------------------------
(***************************************************************************)
(* The settings of the process, saved in a file or in redis, and what a     *)
(* save makes of them at once: the store of the accounts is reopened with   *)
(* its data copied, and the pictures move to their new directory.  The      *)
(* process may end between two steps and starts from what was saved.        *)
(*                                                                         *)
(* One administrator saves at a time.  A request takes the store, or the    *)
(* image directory, that is in use when it begins, and writes there later.  *)
(***************************************************************************)
EXTENDS Naturals, FiniteSets

CONSTANTS
  StoredAccounts,  \* accounts of the store, by file name
  Files,           \* picture files
  Dirs,            \* image directories
  MaxSaves         \* bound: saves of the settings

ASSUME RuntimeConfigAssumption ==
  IsFiniteSet(StoredAccounts) /\ IsFiniteSet(Files) /\ IsFiniteSet(Dirs) /\ Dirs # {} /\ MaxSaves \in Nat

ConfiguredPlace == {"file", "redis"}

\* storage.backend, storage.config_backend, storage.image_dir, and a setting
\* that validate refuses (a proxy that is enabled without a URL).
Config == [backend: ConfiguredPlace, configBackend: ConfiguredPlace, dir: Dirs, valid: BOOLEAN]

NoConfig == [valid |-> FALSE]

VARIABLES
  up,        \* the process runs
  override,  \* the override file
  remote,    \* the overrides in redis
  cfg,       \* the settings in use
  open,      \* the backend of the store in use
  stored,    \* the accounts of each backend
  images,    \* the files of each directory
  save,      \* the save in progress
  saves,     \* saves so far
  known,     \* history: accounts added and not deleted
  pictures,  \* history: files written
  holding,   \* requests: the account each is about, and the store it has taken
  writing,   \* requests: the file each writes, and the directory it has taken
  calmSaves, \* history: no save was cut short or refused, no account changed
             \* while they were copied, no store revived accounts, and nothing
             \* was written where a save has since moved away from
  astray     \* history: accounts were copied when saves were no longer calm, or
             \* added to a store that was not in use

calmVars == <<calmSaves, astray>>
heldVars == <<holding, writing>>
dataVars == <<stored, images, known, pictures>>
runtimeVars == <<up, override, remote, cfg, open, save, saves, calmVars, heldVars, dataVars>>

SavePC == {"idle", "write", "bootstrap", "apply", "reload", "snapshot", "replace", "images", "move"}

\* snapshot and surplus: the accounts still to be written and to be deleted; files: those
\* still to be moved
SaveInProgress == [pc: SavePC, previous: Config, next: Config, snapshot: SUBSET StoredAccounts,
                   surplus: SUBSET StoredAccounts, files: SUBSET Files]

RuntimeConfigTypeOK ==
  /\ up \in BOOLEAN /\ calmSaves \in BOOLEAN /\ astray \in BOOLEAN
  /\ override \in Config /\ remote \in Config \cup {NoConfig} /\ cfg \in Config
  /\ open \in ConfiguredPlace
  /\ stored \in [ConfiguredPlace -> SUBSET StoredAccounts] /\ known \subseteq StoredAccounts
  /\ images \in [Dirs -> SUBSET Files] /\ pictures \subseteq Files
  /\ holding \subseteq StoredAccounts \X ConfiguredPlace /\ writing \subseteq Files \X Dirs
  /\ save \in SaveInProgress
  /\ saves \in 0 .. MaxSaves

Other(place) == CHOOSE p \in ConfiguredPlace : p # place

\* What the backends hold when the store of one is opened:
\* migrateIntoEmptyBackendIfNeeded fills an empty one from the other.
Opened(place) == IF stored[place] = {} THEN [stored EXCEPT ![place] = stored[Other(place)]] ELSE stored

\* With no account left, that brings back those of an older backend.
Revives(place) == known = {} /\ Opened(place) # stored

\* The settings a start would load; the file must be valid, even when it only
\* says that the rest is in redis.
Saved == IF override.valid /\ override.configBackend = "redis" /\ remote # NoConfig THEN remote ELSE override

\* Accounts of the target that the snapshot does not name.
\* (Variation: ReplaceAllData only adds.)
NoneToDelete(existing, snapshot) == {}

ToDelete(existing, snapshot) == existing \ snapshot

Continue(pc) == save' = [save EXCEPT !.pc = pc]

-----------------------------------------------------------------------------
\* handleUpdateConfig: the settings in use are read for the comparison.
BeginSaveConfig ==
  /\ up /\ save.pc = "idle" /\ saves < MaxSaves
  /\ \E next \in Config :
       save' = [pc |-> "write", previous |-> cfg, next |-> next,
                snapshot |-> {}, surplus |-> {}, files |-> {}]
  /\ saves' = saves + 1
  /\ UNCHANGED <<up, override, remote, cfg, open, calmVars, heldVars, dataVars>>

\* SaveOverrides writes the file, and validates what it wrote.
SaveOverrides ==
  /\ save.pc = "write" /\ save.next.configBackend = "file"
  /\ override' = save.next
  /\ IF save.next.valid THEN cfg' = save.next /\ Continue("reload") /\ UNCHANGED calmSaves
     ELSE Continue("idle") /\ calmSaves' = FALSE /\ UNCHANGED cfg
  /\ UNCHANGED <<up, remote, open, saves, astray, heldVars, dataVars>>

\* With redis the overrides go there first, then the file is told,
SaveRemote ==
  /\ save.pc = "write" /\ save.next.configBackend = "redis"
  /\ remote' = save.next
  /\ Continue("bootstrap")
  /\ UNCHANGED <<up, override, cfg, open, saves, calmVars, heldVars, dataVars>>

PersistOverrideFile ==
  /\ save.pc = "bootstrap"
  /\ override' = [override EXCEPT !.configBackend = "redis"]
  /\ Continue("apply")
  /\ UNCHANGED <<up, remote, cfg, open, saves, calmVars, heldVars, dataVars>>

\* and the settings are validated last.
ApplyOverrides ==
  /\ save.pc = "apply"
  /\ IF save.next.valid THEN cfg' = save.next /\ Continue("reload") /\ UNCHANGED calmSaves
     ELSE Continue("idle") /\ calmSaves' = FALSE /\ UNCHANGED cfg
  /\ UNCHANGED <<up, override, remote, open, saves, astray, heldVars, dataVars>>

-----------------------------------------------------------------------------
\* reloadRuntimeDependencies: a change of the storage reopens the store.
StorageChanged ==
  \/ save.previous.backend # cfg.backend \/ save.previous.configBackend # cfg.configBackend
  \/ save.previous.dir # cfg.dir

ReopenStore ==
  /\ save.pc = "reload"
  /\ IF StorageChanged
       THEN /\ stored' = Opened(cfg.backend)
            /\ calmSaves' = (calmSaves /\ ~Revives(cfg.backend))
            /\ Continue("snapshot")
       ELSE Continue("images") /\ UNCHANGED <<stored, calmSaves>>
  /\ UNCHANGED <<up, override, remote, cfg, open, saves, images, known, pictures, astray, heldVars>>

\* Snapshot of the store in use; ReplaceAllData begins with what the other one has.
TakeSnapshot ==
  /\ save.pc = "snapshot"
  /\ save' = [save EXCEPT !.pc = "replace", !.snapshot = stored[open],
                          !.surplus = ToDelete(stored[cfg.backend], stored[open])]
  /\ astray' = (astray \/ ~calmSaves)
  /\ UNCHANGED <<up, override, remote, cfg, open, saves, calmSaves, heldVars, dataVars>>

\* It writes the accounts of the snapshot one by one, and then deletes the others.
ReplaceOne(a) ==
  /\ save.pc = "replace"
  /\ \/ /\ a \in save.snapshot /\ save' = [save EXCEPT !.snapshot = @ \ {a}]
        /\ stored' = [stored EXCEPT ![cfg.backend] = @ \cup {a}]
     \/ /\ save.snapshot = {}
        /\ a \in save.surplus /\ save' = [save EXCEPT !.surplus = @ \ {a}]
        /\ stored' = [stored EXCEPT ![cfg.backend] = @ \ {a}]
  /\ UNCHANGED <<up, override, remote, cfg, open, saves, images, known, pictures,
                 calmVars, heldVars>>

Replaced ==
  /\ save.pc = "replace" /\ save.snapshot = {} /\ save.surplus = {}
  /\ Continue("images")
  /\ UNCHANGED <<up, override, remote, cfg, open, saves, calmVars, heldVars, dataVars>>

\* migrateImageFilesIfNeeded reads the directory of before and moves what it has found,
\* file by file.
ListImages ==
  /\ save.pc = "images"
  /\ save' = [save EXCEPT !.pc = "move", !.files =
                IF save.previous.dir = cfg.dir THEN {} ELSE images[save.previous.dir]]
  /\ UNCHANGED <<up, override, remote, cfg, open, saves, calmVars, heldVars, dataVars>>

MoveImage(f) ==
  /\ save.pc = "move" /\ f \in save.files
  /\ save' = [save EXCEPT !.files = @ \ {f}]
  /\ images' = [images EXCEPT ![save.previous.dir] = @ \ {f}, ![cfg.dir] = @ \cup {f}]
  /\ UNCHANGED <<up, override, remote, cfg, open, saves, stored, known, pictures,
                 calmVars, heldVars>>

\* swapRuntime; the store of before is closed when there is another one.  Requests that
\* hold it fail if it is a client of redis, and go on if it is a directory.
SwapRuntime ==
  /\ save.pc = "move" /\ save.files = {}
  /\ open' = cfg.backend
  /\ holding' = IF StorageChanged THEN {h \in holding : h[2] # "redis" \/ open # "redis"} ELSE holding
  /\ Continue("idle")
  /\ UNCHANGED <<up, override, remote, cfg, saves, writing, calmVars, dataVars>>

\* Any step after the file or redis was written may fail; the answer is an
\* error and the settings stay.
SaveFails ==
  /\ save.pc \notin {"idle", "write"}
  /\ Continue("idle")
  /\ calmSaves' = FALSE
  /\ UNCHANGED <<up, override, remote, cfg, open, saves, astray, heldVars, dataVars>>

-----------------------------------------------------------------------------
\* Accounts change in the store that getStore gave when the request began.
HoldStore(a) ==
  /\ up /\ a \notin {h[1] : h \in holding}
  /\ holding' = holding \cup {<<a, open>>}
  /\ UNCHANGED <<up, override, remote, cfg, open, save, saves, writing, calmVars, dataVars>>

Copying == save.pc \in {"replace", "images", "move"}

ChangesStore(a, place, accounts) ==
  /\ <<a, place>> \in holding /\ holding' = holding \ {<<a, place>>}
  /\ stored' = [stored EXCEPT ![place] = accounts]
  /\ calmSaves' = (calmSaves /\ ~Copying /\ place = open)
  /\ UNCHANGED <<up, override, remote, cfg, open, save, saves, writing, images, pictures>>

AddAccounts(a, place) ==
  /\ a \notin stored[place] /\ a \notin known
  /\ ChangesStore(a, place, stored[place] \cup {a})
  /\ known' = known \cup {a}
  /\ astray' = (astray \/ place # open)

DeleteAccounts(a, place) ==
  /\ a \in stored[place]
  /\ ChangesStore(a, place, stored[place] \ {a})
  /\ known' = known \ {a}
  /\ UNCHANGED astray

\* NewStore of the history takes the image directory of the settings in use,
OpenHistory(f) ==
  /\ up /\ f \notin pictures \cup {w[1] : w \in writing}
  /\ writing' = writing \cup {<<f, cfg.dir>>}
  /\ UNCHANGED <<up, override, remote, cfg, open, save, saves, holding, calmVars, dataVars>>

\* and saveAsset writes there, whatever the settings say by then.
SaveFile(f, dir) ==
  /\ <<f, dir>> \in writing /\ writing' = writing \ {<<f, dir>>}
  /\ images' = [images EXCEPT ![dir] = @ \cup {f}]
  /\ pictures' = pictures \cup {f}
  /\ calmSaves' = (calmSaves /\ dir = cfg.dir)
  /\ UNCHANGED <<up, override, remote, cfg, open, save, saves, holding, astray, stored, known>>

\* A request that finds nothing to change, or that fails before it does.
RequestEnds ==
  /\ \/ \E h \in holding : holding' = holding \ {h} /\ UNCHANGED writing
     \/ \E w \in writing : writing' = writing \ {w} /\ UNCHANGED holding
  /\ UNCHANGED <<up, override, remote, cfg, open, save, saves, calmVars, dataVars>>

Crash ==
  /\ up
  /\ up' = FALSE
  /\ Continue("idle")
  /\ holding' = {} /\ writing' = {}
  /\ calmSaves' = (calmSaves /\ save.pc \in {"idle", "write"})
  /\ UNCHANGED <<override, remote, cfg, open, saves, astray, dataVars>>

\* main: the file, redis if the file says so, then NewStore.  Settings that
\* are not valid end the start.
StartServer ==
  /\ ~up /\ override.valid /\ Saved.valid
  /\ up' = TRUE
  /\ cfg' = Saved /\ open' = Saved.backend
  /\ stored' = Opened(Saved.backend)
  /\ calmSaves' = (calmSaves /\ ~Revives(Saved.backend))
  /\ UNCHANGED <<override, remote, save, saves, images, known, pictures, astray, heldVars>>

RuntimeConfigInit ==
  /\ up = TRUE /\ calmSaves = TRUE /\ astray = FALSE /\ saves = 0
  /\ holding = {} /\ writing = {}
  /\ \E dir \in Dirs :
       override = [backend |-> "file", configBackend |-> "file", dir |-> dir, valid |-> TRUE]
  /\ cfg = override /\ remote = NoConfig /\ open = "file"
  /\ stored = [p \in ConfiguredPlace |-> {}] /\ known = {}
  /\ images = [d \in Dirs |-> {}] /\ pictures = {}
  /\ save = [pc |-> "idle", previous |-> cfg, next |-> cfg,
             snapshot |-> {}, surplus |-> {}, files |-> {}]

RuntimeConfigNext ==
  \/ BeginSaveConfig \/ SaveOverrides \/ SaveRemote \/ PersistOverrideFile \/ ApplyOverrides
  \/ ReopenStore \/ TakeSnapshot \/ Replaced \/ ListImages \/ SwapRuntime
  \/ SaveFails \/ RequestEnds \/ Crash \/ StartServer
  \/ \E a \in StoredAccounts :
       \/ ReplaceOne(a) \/ HoldStore(a)
       \/ \E place \in ConfiguredPlace : AddAccounts(a, place) \/ DeleteAccounts(a, place)
  \/ \E f \in Files : MoveImage(f) \/ OpenHistory(f) \/ \E dir \in Dirs : SaveFile(f, dir)

RuntimeConfigSpec == RuntimeConfigInit /\ [][RuntimeConfigNext]_runtimeVars

-----------------------------------------------------------------------------
\* As long as no save is cut short or refused, no accounts change while they are copied,
\* and no request writes to a store or a directory that a save has replaced since the
\* request began, the process has every account that was added and none that was deleted,
\* and every picture in its directory, through changes of the backend and of the directory
\* and through restarts; and a restart would load the settings in use
\* (saveConfigOverrides, reloadRuntimeDependencies, NewStore).
CalmSavesKeepData ==
  up /\ calmSaves /\ save.pc = "idle" =>
    /\ open = cfg.backend /\ stored[open] = known
    /\ images[cfg.dir] = pictures
    /\ Saved = cfg

\* A save that fails, that dies with the process wherever it is, or that accounts change
\* under loses none of them: each is in one backend or the other, until a later save
\* copies what the store then in use has.  And a picture is in some directory, whatever
\* is cut short.
CutShortSavesLoseNothing ==
  /\ ~astray => known \subseteq stored["file"] \cup stored["redis"]
  /\ \A f \in pictures : \E dir \in Dirs : f \in images[dir]
=============================================================================
