--------------------------- MODULE AdmissionGate ----------------------------
(***************************************************************************)
(* The admission of images to the provider: at most max of them run, at    *)
(* most limit more wait.  A gate is two buffered channels; the controller  *)
(* of an instance keeps the current one and replaces it when the runtime   *)
(* settings it was made for have changed.  Every request reads the saved   *)
(* settings and writes them into the configuration of the process, field   *)
(* by field and without the lock that readers of the configuration take,   *)
(* so that a request may read half of one and half of another.             *)
(***************************************************************************)
EXTENDS Integers, FiniteSets

CONSTANTS
  Callers,   \* goroutines; each serves one request after the other
  Gates,     \* imageConcurrencyGate objects; garbage is used again
  Settings,  \* runtime settings an administrator saves
  NoGate     \* nil

\* limit stands for imageQueueLimit together with imageQueueTimeoutSeconds.
ASSUME GateAssumption ==
  /\ IsFiniteSet(Callers)
  /\ Settings # {}
  /\ Settings \subseteq [max: Nat \ {0}, limit: Nat \ {0}]
  /\ NoGate \notin Gates

VARIABLES
  saved,   \* the settings in the database
  cfg,     \* Config.Server of the process
  gate,    \* imageAdmissionController.gate
  key,     \* imageAdmissionController.configKey
  gates,   \* the gates: capacities and lengths of their channels
  caller   \* the callers

vars == <<saved, cfg, gate, key, gates, caller>>

-----------------------------------------------------------------------------

\* ImageQueueConfig never returns less than one.
Config == [max: Nat \ {0}, limit: Nat \ {0}]

\* cap and len of slots and of queue
Gate == [max: Nat \ {0}, limit: Nat \ {0}, slots: Nat, queue: Nat]

Empty(k) == [max |-> k.max, limit |-> k.limit, slots |-> 0, queue |-> 0]

\* image: a request that generates; status: one that only looks at the gate;
\* update: the administrator's.
Errand == {"image", "status", "update"}

Idle == [pc |-> "idle", errand |-> "image", gate |-> NoGate,
         seen |-> CHOOSE s \in Settings : TRUE]

Step(c, r) == caller' = [caller EXCEPT ![c] = r]

At(c, pc) == caller[c].pc = pc

\* Gates that are garbage; they are made to look like the newest gate, so
\* that TLC does not tell their pasts apart.
Unused == Gates \ ({gate} \cup {caller[c].gate : c \in Callers})

\* newImageConcurrencyGate
New == CHOOSE g \in Unused : TRUE

\* handleUpdateBusinessSystemSettings saves first; everybody else reads what
\* is saved, or goes on without (a job that was submitted to another instance,
\* a store that fails).
Begin(c) ==
  /\ At(c, "idle")
  /\ \/ \E e \in {"image", "status"} :
          /\ \/ Step(c, [caller[c] EXCEPT !.pc = "applyMax", !.errand = e,
                                          !.seen = saved])
             \/ Step(c, [caller[c] EXCEPT !.pc = "readMax", !.errand = e])
          /\ UNCHANGED saved
     \/ \E s \in Settings :
          /\ saved' = s
          /\ Step(c, [caller[c] EXCEPT !.pc = "applyMax", !.errand = "update",
                                       !.seen = s])
  /\ UNCHANGED <<cfg, gate, key, gates>>

\* applyBusinessRuntimeSettings: plain writes.
ApplyMax(c) ==
  /\ At(c, "applyMax")
  /\ cfg' = [cfg EXCEPT !.max = caller[c].seen.max]
  /\ Step(c, [caller[c] EXCEPT !.pc = "applyLimit"])
  /\ UNCHANGED <<saved, gate, key, gates>>

ApplyLimit(c) ==
  /\ At(c, "applyLimit")
  /\ cfg' = [cfg EXCEPT !.limit = caller[c].seen.limit]
  /\ Step(c, IF caller[c].errand = "update" THEN Idle
             ELSE [caller[c] EXCEPT !.pc = "readMax", !.seen = Idle.seen])
  /\ UNCHANGED <<saved, gate, key, gates>>

\* ImageQueueConfig
ReadMax(c) ==
  /\ At(c, "readMax")
  /\ Step(c, [caller[c] EXCEPT !.pc = "readLimit", !.seen.max = cfg.max])
  /\ UNCHANGED <<saved, cfg, gate, key, gates>>

ReadLimit(c) ==
  /\ At(c, "readLimit")
  /\ Step(c, [caller[c] EXCEPT !.pc = "enter", !.seen.limit = cfg.limit])
  /\ UNCHANGED <<saved, cfg, gate, key, gates>>

\* (Variation: the gate is kept while its number of slots is right.)
SameMax(a, b) == a.max = b.max

\* The controller's gate was made for these settings.
SameKey(a, b) == a = b

\* controller.acquire and controller.snapshot, under the mutex: the caller
\* gets the current gate or a new one; a snapshot is done with that.
Enter(c) ==
  LET s == caller[c].seen
      with(g) == IF caller[c].errand = "status" THEN Idle
                 ELSE [caller[c] EXCEPT !.pc = "token", !.gate = g]
  IN  /\ At(c, "enter")
      /\ \/ /\ gate # NoGate /\ SameKey(key, s)
            /\ Step(c, with(gate))
            /\ UNCHANGED <<gate, key, gates>>
         \/ /\ ~(gate # NoGate /\ SameKey(key, s))
            /\ Unused # {}
            /\ gate' = New
            /\ key' = s
            /\ gates' = [g \in Gates |-> IF g \in Unused THEN Empty(s)
                                        ELSE gates[g]]
            /\ Step(c, with(New))
      /\ UNCHANGED <<saved, cfg>>

Length(g, slots, queue) ==
  gates' = [gates EXCEPT ![g].slots = @ + slots, ![g].queue = @ + queue]

\* (Variation: one more than there is room for.)
RoomForOneMore(n, capacity) == n <= capacity

\* A buffered channel of this capacity takes one more value.
Room(n, capacity) == n < capacity

\* gate.acquire: a place in the queue, at once or not at all
Token(c) ==
  LET g == caller[c].gate
  IN  /\ At(c, "token")
      /\ \/ /\ Room(gates[g].queue, gates[g].limit)
            /\ Length(g, 0, 1)
            /\ Step(c, [caller[c] EXCEPT !.pc = "wait"])
         \/ /\ ~Room(gates[g].queue, gates[g].limit)
            /\ Step(c, Idle)
            /\ UNCHANGED gates
      /\ UNCHANGED <<saved, cfg, gate, key>>

\* select: a slot, if there is one ...
Admit(c) ==
  LET g == caller[c].gate
  IN  /\ At(c, "wait")
      /\ Room(gates[g].slots, gates[g].max)
      /\ Length(g, 1, 0)
      /\ Step(c, [caller[c] EXCEPT !.pc = "admitted"])
      /\ UNCHANGED <<saved, cfg, gate, key>>

\* ... or the timer, or the cancelled context, whether there is one or not.
GiveUp(c) ==
  /\ At(c, "wait")
  /\ Step(c, [caller[c] EXCEPT !.pc = "leave"])
  /\ UNCHANGED <<saved, cfg, gate, key, gates>>

Afterwards(c) == IF At(c, "admitted") THEN [caller[c] EXCEPT !.pc = "run"]
                 ELSE Idle

\* (Variation: the token goes back to the gate that is current by now.)
DropCurrent(c) ==
  /\ At(c, "admitted") \/ At(c, "leave")
  /\ gates[gate].queue > 0
  /\ Length(gate, 0, -1)
  /\ Step(c, Afterwards(c))
  /\ UNCHANGED <<saved, cfg, gate, key>>

\* releaseQueue: a receive, which waits while the channel is empty.
DropToken(c) ==
  LET g == caller[c].gate
  IN  /\ At(c, "admitted") \/ At(c, "leave")
      /\ gates[g].queue > 0
      /\ Length(g, 0, -1)
      /\ Step(c, Afterwards(c))
      /\ UNCHANGED <<saved, cfg, gate, key>>

\* The deferred release, once: the image is done, failed or cancelled.
Release(c) ==
  LET g == caller[c].gate
  IN  /\ At(c, "run")
      /\ gates[g].slots > 0
      /\ Length(g, -1, 0)
      /\ Step(c, Idle)
      /\ UNCHANGED <<saved, cfg, gate, key>>

-----------------------------------------------------------------------------

Init ==
  /\ saved \in Settings /\ cfg \in Settings
  /\ gate = NoGate
  /\ key = saved
  /\ gates = [g \in Gates |-> Empty(saved)]
  /\ caller = [c \in Callers |-> Idle]

\* The steps of a caller that need nothing but the caller.
Go(c) ==
  \/ ApplyMax(c) \/ ApplyLimit(c) \/ ReadMax(c) \/ ReadLimit(c) \/ Enter(c)
  \/ Token(c) \/ GiveUp(c) \/ DropToken(c) \/ Release(c)

Next == \E c \in Callers : Begin(c) \/ Admit(c) \/ Go(c)

Spec == Init /\ [][Next]_vars

\* Goroutines go on, waits time out, and images end; nobody need come.
FairSpec == Spec /\ \A c \in Callers : WF_vars(Go(c))

-----------------------------------------------------------------------------
(* Properties.                                                             *)

CallerPc == {"idle", "applyMax", "applyLimit", "readMax", "readLimit", "enter",
             "token", "wait", "admitted", "leave", "run"}

Caller == [pc: CallerPc, errand: Errand, gate: Gates \cup {NoGate},
           seen: Config]

\* The type invariant; no channel holds more than its capacity.
TypeOK ==
  /\ saved \in Settings /\ cfg \in Config /\ key \in Config
  /\ gate \in Gates \cup {NoGate}
  /\ gates \in [Gates -> Gate]
  /\ \A g \in Gates :
       gates[g].slots <= gates[g].max /\ gates[g].queue <= gates[g].limit
  /\ caller \in [Callers -> Caller]

With(g, pcs) == {c \in Callers : caller[c].gate = g /\ caller[c].pc \in pcs}

\* Nothing leaks: whatever is replaced, timed out or cancelled meanwhile, the
\* slots taken of a gate are those of its running images and the places taken
\* in its queue those of its waiting callers.  With the capacities this is
\* the limit the gate promises, and why its receives never wait.
HeldByCallers ==
  \A g \in Gates :
    /\ gates[g].slots = Cardinality(With(g, {"admitted", "run"}))
    /\ gates[g].queue = Cardinality(With(g, {"wait", "admitted", "leave"}))

\* A caller waits and runs under the settings it has read, however often the
\* controller has replaced its gate since.
GateOfItsSettings ==
  \A c \in Callers :
    caller[c].pc \in {"token", "wait", "admitted", "leave", "run"} =>
      LET g == gates[caller[c].gate]
      IN  [max |-> g.max, limit |-> g.limit] = caller[c].seen

\* Every request comes to an end: none is left waiting on a gate that nobody
\* enters any more, or for a place in a queue that is not there.
EveryCallerReturns == \A c \in Callers : ~At(c, "idle") ~> At(c, "idle")

\* Interface.md: maxImageConcurrency is the greatest number of images that
\* are generated at the same time.
Running == {c \in Callers : At(c, "run")}

RunningWithinLimit ==
  \E s \in Settings : Cardinality(Running) <= s.max
=============================================================================
