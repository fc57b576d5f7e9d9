------------------------ MODULE AdmissionGate_proofs ------------------------
(***************************************************************************)
(* Proofs about AdmissionGate: the gates count their callers, for any      *)
(* number of callers, of gates and of settings, and however often the      *)
(* controller replaces its gate.                                           *)
(***************************************************************************)
EXTENDS AdmissionGate, FiniteSetTheorems, TLAPS

Holding == {"token", "wait", "admitted", "leave", "run"}
SlotPcs == {"admitted", "run"}
QueuePcs == {"wait", "admitted", "leave"}

Caps(x, g) == [max |-> x[g].max, limit |-> x[g].limit]

\* A caller has a gate while it is inside, and only then; that keeps garbage
\* apart from what is in use.
Placed(r) == IF r.pc \in Holding THEN r.gate \in Gates ELSE r.gate = NoGate

InUse(r) == r.pc \in Holding => Caps(gates, r.gate) = r.seen

\* The inductive invariant.
GateInv ==
  /\ TypeOK
  /\ HeldByCallers
  /\ \A c \in Callers : Placed(caller[c]) /\ InUse(caller[c])
  /\ gate # NoGate => Caps(gates, gate) = key

One(b) == IF b THEN 1 ELSE 0

HasSlot(r, g) == r.gate = g /\ r.pc \in SlotPcs
HasPlace(r, g) == r.gate = g /\ r.pc \in QueuePcs

-----------------------------------------------------------------------------
(* Counting.                                                               *)

LEMMA WithFinite ==
  ASSUME NEW g, NEW P
  PROVE  /\ IsFiniteSet(With(g, P)) /\ Cardinality(With(g, P)) \in Nat
         /\ With(g, P) \subseteq Callers
<1>1. With(g, P) \subseteq Callers
  BY DEF With
<1> QED BY <1>1, GateAssumption, FS_Subset, FS_CardinalityType

\* One caller's step moves one caller in or out of a set With(g, P).
LEMMA CountStep ==
  ASSUME NEW c \in Callers, NEW r, caller \in [Callers -> Caller], Step(c, r),
         NEW g, NEW P
  PROVE  Cardinality(With(g, P)') =
           Cardinality(With(g, P)) + One(r.gate = g /\ r.pc \in P)
             - One(caller[c].gate = g /\ caller[c].pc \in P)
<1> DEFINE S == With(g, P)
           T == With(g, P)'
           in == caller[c].gate = g /\ caller[c].pc \in P
           then == r.gate = g /\ r.pc \in P
<1>1. /\ IsFiniteSet(S) /\ Cardinality(S) \in Nat
  BY WithFinite
<1>2. caller'[c] = r /\ \A d \in Callers \ {c} : caller'[d] = caller[d]
  BY DEF Step
<1>3. \A d \in Callers \ {c} : d \in T <=> d \in S
  BY <1>2 DEF With
<1>4. (c \in T <=> then) /\ (c \in S <=> in)
  BY <1>2 DEF With
<1>5. S \subseteq Callers /\ T \subseteq Callers
  BY DEF With
<1> HIDE DEF S, T, in, then
<1>6. CASE in <=> then
  <2>1. S = T
    BY <1>3, <1>4, <1>5, <1>6
  <2> QED BY <2>1, <1>1, <1>6 DEF One, S, T, in, then
<1>7. CASE in /\ ~then
  <2>1. T = S \ {c} /\ c \in S
    BY <1>3, <1>4, <1>5, <1>7
  <2>2. Cardinality(T) = Cardinality(S) - 1
    BY <2>1, <1>1, FS_RemoveElement
  <2> QED BY <2>2, <1>1, <1>7 DEF One, S, T, in, then
<1>8. CASE ~in /\ then
  <2>1. T = S \cup {c} /\ c \notin S
    BY <1>3, <1>4, <1>5, <1>8
  <2>2. Cardinality(T) = Cardinality(S) + 1
    BY <2>1, <1>1, FS_AddElement
  <2> QED BY <2>2, <1>1, <1>8 DEF One, S, T, in, then
<1> QED BY <1>6, <1>7, <1>8

\* The channels that move with the caller keep counting the callers.
LEMMA HeldStep ==
  ASSUME TypeOK, HeldByCallers, NEW c \in Callers, NEW r, Step(c, r),
         \A g \in Gates :
           /\ gates'[g].slots = gates[g].slots + One(HasSlot(r, g))
                                  - One(HasSlot(caller[c], g))
           /\ gates'[g].queue = gates[g].queue + One(HasPlace(r, g))
                                  - One(HasPlace(caller[c], g))
  PROVE  HeldByCallers'
<1> SUFFICES ASSUME NEW g \in Gates
             PROVE  /\ gates'[g].slots = Cardinality(With(g, SlotPcs)')
                    /\ gates'[g].queue = Cardinality(With(g, QueuePcs)')
  BY DEF HeldByCallers, SlotPcs, QueuePcs
<1>1. caller \in [Callers -> Caller]
  BY DEF TypeOK
<1>2. /\ gates[g].slots = Cardinality(With(g, SlotPcs))
      /\ gates[g].queue = Cardinality(With(g, QueuePcs))
  BY DEF HeldByCallers, SlotPcs, QueuePcs
<1>3. Cardinality(With(g, SlotPcs)') =
        gates[g].slots + One(HasSlot(r, g)) - One(HasSlot(caller[c], g))
  BY <1>1, <1>2, CountStep DEF HasSlot
<1>4. Cardinality(With(g, QueuePcs)') =
        gates[g].queue + One(HasPlace(r, g)) - One(HasPlace(caller[c], g))
  BY <1>1, <1>2, CountStep DEF HasPlace
<1> QED BY <1>3, <1>4

-----------------------------------------------------------------------------
(* One step of one caller.                                                 *)

LEMMA CallerOf ==
  ASSUME GateInv, NEW c \in Callers
  PROVE  caller[c] \in Caller /\ Placed(caller[c]) /\ InUse(caller[c])
BY DEF GateInv, TypeOK

\* A caller whose record has no gate any more.
LEMMA IdleCaller == Idle \in Caller /\ Placed(Idle) /\ Idle.pc = "idle"
<1>1. (CHOOSE s \in Settings : TRUE) \in Config
  BY GateAssumption DEF Config
<1> QED BY <1>1 DEF Idle, Caller, CallerPc, Errand, Placed, Holding

\* What every step has to show: where its caller is now, that the channels
\* moved with the caller, and that no gate in use has changed its capacities.
LEMMA StepInv ==
  ASSUME GateInv, NEW c \in Callers, NEW r \in Caller, Step(c, r), Placed(r),
         saved' \in Settings, cfg' \in Config, key' \in Config,
         gate' \in Gates \cup {NoGate}, gates' \in [Gates -> Gate],
         \A g \in Gates : /\ gates'[g].slots <= gates'[g].max
                          /\ gates'[g].queue <= gates'[g].limit,
         \A g \in Gates :
           /\ gates'[g].slots = gates[g].slots + One(HasSlot(r, g))
                                  - One(HasSlot(caller[c], g))
           /\ gates'[g].queue = gates[g].queue + One(HasPlace(r, g))
                                  - One(HasPlace(caller[c], g)),
         r.pc \in Holding => Caps(gates', r.gate) = r.seen,
         \A d \in Callers \ {c} :
           caller[d].pc \in Holding => Caps(gates', caller[d].gate) =
                                       Caps(gates, caller[d].gate),
         gate' # NoGate => Caps(gates', gate') = key'
  PROVE  GateInv'
<1>1. TypeOK /\ HeldByCallers
  BY DEF GateInv
<1>2. caller' \in [Callers -> Caller]
  BY <1>1 DEF TypeOK, Step
<1>3. TypeOK'
  BY <1>2 DEF TypeOK
<1>4. HeldByCallers'
  BY <1>1, HeldStep
<1>5. caller'[c] = r /\ \A d \in Callers \ {c} : caller'[d] = caller[d]
  BY <1>1 DEF TypeOK, Step
<1>6. ASSUME NEW d \in Callers
      PROVE  Placed(caller[d])' /\ InUse(caller[d])'
  <2>1. CASE d = c
    BY <2>1, <1>5 DEF Placed, InUse
  <2>2. CASE d # c
    <3>1. Placed(caller[d]) /\ InUse(caller[d]) /\ caller'[d] = caller[d]
      BY <2>2, <1>5, CallerOf
    <3> QED BY <3>1, <2>2 DEF Placed, InUse
  <2> QED BY <2>1, <2>2
<1> QED BY <1>3, <1>4, <1>6 DEF GateInv

\* Steps that leave gate and channels alone, of a caller that neither enters
\* nor leaves the counted states.
LEMMA QuietStep ==
  ASSUME GateInv, NEW c \in Callers, NEW r \in Caller, Step(c, r), Placed(r),
         saved' \in Settings, cfg' \in Config, UNCHANGED <<gate, key, gates>>,
         InUse(r),
         \A g \in Gates : /\ HasSlot(r, g) <=> HasSlot(caller[c], g)
                          /\ HasPlace(r, g) <=> HasPlace(caller[c], g)
  PROVE  GateInv'
<1>1. TypeOK /\ (gate # NoGate => Caps(gates, gate) = key)
  BY DEF GateInv
<1>2. \A g \in Gates :
        /\ gates'[g].slots = gates[g].slots + One(HasSlot(r, g))
                               - One(HasSlot(caller[c], g))
        /\ gates'[g].queue = gates[g].queue + One(HasPlace(r, g))
                               - One(HasPlace(caller[c], g))
  BY <1>1 DEF TypeOK, Gate, One
<1>3. /\ key' \in Config /\ gate' \in Gates \cup {NoGate}
      /\ gates' \in [Gates -> Gate]
      /\ \A g \in Gates : /\ gates'[g].slots <= gates'[g].max
                          /\ gates'[g].queue <= gates'[g].limit
  BY <1>1 DEF TypeOK
<1>4. /\ r.pc \in Holding => Caps(gates', r.gate) = r.seen
      /\ \A d \in Callers \ {c} :
           caller[d].pc \in Holding => Caps(gates', caller[d].gate) =
                                       Caps(gates, caller[d].gate)
      /\ gate' # NoGate => Caps(gates', gate') = key'
  BY <1>1 DEF Caps, InUse
<1> QED BY <1>2, <1>3, <1>4, StepInv

LEMMA LongerGate ==
  ASSUME NEW x \in Gate, NEW m \in {-1, 0, 1}, NEW n \in {-1, 0, 1},
         x.slots + m \in Nat, x.queue + n \in Nat
  PROVE  [x EXCEPT !.slots = @ + m, !.queue = @ + n] \in Gate
BY DEF Gate

\* Steps that move the channels of the caller's own gate by one.
LEMMA LengthStep ==
  ASSUME GateInv, NEW c \in Callers, NEW r \in Caller, Step(c, r), Placed(r),
         NEW m \in {-1, 0, 1}, NEW n \in {-1, 0, 1},
         caller[c].gate \in Gates, Length(caller[c].gate, m, n),
         gates[caller[c].gate].slots + m \in 0 .. gates[caller[c].gate].max,
         gates[caller[c].gate].queue + n \in 0 .. gates[caller[c].gate].limit,
         UNCHANGED <<saved, cfg, gate, key>>,
         r.pc \in Holding => r.gate = caller[c].gate /\ InUse(r),
         LET g == caller[c].gate
         IN  /\ m = One(HasSlot(r, g)) - One(HasSlot(caller[c], g))
             /\ n = One(HasPlace(r, g)) - One(HasPlace(caller[c], g)),
         \A g \in Gates \ {caller[c].gate} : ~HasSlot(r, g) /\ ~HasPlace(r, g)
  PROVE  GateInv'
<1> DEFINE a == caller[c].gate
<1>1. TypeOK /\ (gate # NoGate => Caps(gates, gate) = key)
  BY DEF GateInv
<1>2. gates \in [Gates -> Gate] /\ a \in Gates
  BY <1>1 DEF TypeOK
<1>3. gates[a].slots + m \in Nat /\ gates[a].queue + n \in Nat
  BY <1>2 DEF Gate
<1>4. /\ DOMAIN gates' = Gates
      /\ gates'[a] = [gates[a] EXCEPT !.slots = @ + m, !.queue = @ + n]
      /\ \A g \in Gates \ {a} : gates'[g] = gates[g]
      /\ gates' = [g \in Gates |-> gates'[g]]
  BY <1>2 DEF Length
<1>5. /\ gates'[a].slots = gates[a].slots + m
      /\ gates'[a].queue = gates[a].queue + n
      /\ gates'[a].max = gates[a].max /\ gates'[a].limit = gates[a].limit
      /\ gates'[a] \in Gate
  <2>1. gates[a] \in Gate
    BY <1>2
  <2>2. [gates[a] EXCEPT !.slots = @ + m, !.queue = @ + n] \in Gate
    BY <1>3, <2>1, LongerGate
  <2> QED BY <1>4, <2>1, <2>2 DEF Gate
<1>6. gates' \in [Gates -> Gate]
  BY <1>2, <1>4, <1>5
<1>7. ASSUME NEW g \in Gates
      PROVE  /\ gates'[g].slots <= gates'[g].max
             /\ gates'[g].queue <= gates'[g].limit
             /\ gates'[g].slots = gates[g].slots + One(HasSlot(r, g))
                                    - One(HasSlot(caller[c], g))
             /\ gates'[g].queue = gates[g].queue + One(HasPlace(r, g))
                                    - One(HasPlace(caller[c], g))
             /\ Caps(gates', g) = Caps(gates, g)
  <2>1. CASE g = a
    <3>1. gates[a].slots \in Nat /\ gates[a].queue \in Nat
      BY <1>2 DEF Gate
    <3>2. gates'[g].slots <= gates'[g].max /\ gates'[g].queue <= gates'[g].limit
      BY <1>5, <2>1, <1>2 DEF Gate
    <3>3. /\ gates'[g].slots = gates[g].slots + One(HasSlot(r, g))
                                 - One(HasSlot(caller[c], g))
          /\ gates'[g].queue = gates[g].queue + One(HasPlace(r, g))
                                 - One(HasPlace(caller[c], g))
      BY <1>5, <2>1, <3>1 DEF One
    <3> QED BY <3>2, <3>3, <1>5, <2>1 DEF Caps
  <2>2. CASE g # a
    <3>1. gates'[g] = gates[g] /\ gates[g] \in Gate
      BY <1>2, <1>4, <2>2
    <3>2. /\ ~HasSlot(r, g) /\ ~HasPlace(r, g)
          /\ ~HasSlot(caller[c], g) /\ ~HasPlace(caller[c], g)
      BY <2>2 DEF HasSlot, HasPlace
    <3>3. gates[g].slots <= gates[g].max /\ gates[g].queue <= gates[g].limit
      BY <1>1 DEF TypeOK
    <3> QED BY <3>1, <3>2, <3>3 DEF One, Caps, Gate
  <2> QED BY <2>1, <2>2
<1>8. r.pc \in Holding => Caps(gates', r.gate) = r.seen
  BY <1>7, <1>2 DEF InUse
<1>9. \A d \in Callers \ {c} :
        caller[d].pc \in Holding => Caps(gates', caller[d].gate) =
                                       Caps(gates, caller[d].gate)
  BY <1>7, CallerOf DEF Placed
<1>10. gate' # NoGate => Caps(gates', gate') = key'
  <2>1. gate' = gate /\ gate \in Gates \cup {NoGate}
    BY <1>1 DEF TypeOK
  <2>2. gate # NoGate => Caps(gates', gate) = Caps(gates, gate)
    BY <2>1, <1>7 DEF Caps
  <2> QED BY <2>1, <2>2, <1>1
<1>11. /\ saved' \in Settings /\ cfg' \in Config /\ key' \in Config
       /\ gate' \in Gates \cup {NoGate}
  BY <1>1 DEF TypeOK
<1> QED BY <1>6, <1>7, <1>8, <1>9, <1>10, <1>11, StepInv

-----------------------------------------------------------------------------
(* The actions.                                                            *)

LEMMA MovedCaller ==
  ASSUME NEW x \in Caller, NEW pc \in CallerPc
  PROVE  LET r == [x EXCEPT !.pc = pc]
         IN  /\ r \in Caller /\ r.pc = pc /\ r.gate = x.gate
             /\ r.seen = x.seen
BY DEF Caller

\* A caller outside that goes on outside.
LEMMA OutsideStep ==
  ASSUME GateInv, NEW c \in Callers, NEW r \in Caller, Step(c, r),
         caller[c].pc \notin Holding, r.pc \notin Holding, r.gate = NoGate,
         saved' \in Settings, cfg' \in Config, UNCHANGED <<gate, key, gates>>
  PROVE  GateInv'
<1>1. Placed(r) /\ InUse(r)
  BY DEF Placed, InUse
<1>2. \A g \in Gates : /\ ~HasSlot(r, g) /\ ~HasSlot(caller[c], g)
                       /\ ~HasPlace(r, g) /\ ~HasPlace(caller[c], g)
  BY DEF HasSlot, HasPlace, SlotPcs, QueuePcs, Holding
<1> QED BY <1>1, <1>2, QuietStep

LEMMA BeginInv == ASSUME GateInv, NEW c \in Callers, Begin(c) PROVE GateInv'
<1> DEFINE x == caller[c]
<1>1. x \in Caller /\ x.pc = "idle" /\ x.gate = NoGate
  BY CallerOf DEF Begin, At, Placed, Holding
<1>2. saved \in Settings /\ cfg \in Config /\ Settings \subseteq Config
  BY GateAssumption DEF GateInv, TypeOK, Config
<1>3. ASSUME NEW e \in Errand, NEW s \in Config
      PROVE  LET r == [x EXCEPT !.pc = "applyMax", !.errand = e, !.seen = s]
             IN  r \in Caller /\ r.pc = "applyMax" /\ r.gate = NoGate
  BY <1>1 DEF Caller, CallerPc
<1>4. ASSUME NEW e \in Errand
      PROVE  LET r == [x EXCEPT !.pc = "readMax", !.errand = e]
             IN  r \in Caller /\ r.pc = "readMax" /\ r.gate = NoGate
  BY <1>1 DEF Caller, CallerPc
<1>5. UNCHANGED <<cfg, gate, key, gates>>
  BY DEF Begin
<1>6. CASE /\ \E e \in {"image", "status"} :
                \/ Step(c, [x EXCEPT !.pc = "applyMax", !.errand = e,
                                     !.seen = saved])
                \/ Step(c, [x EXCEPT !.pc = "readMax", !.errand = e])
           /\ UNCHANGED saved
  <2>1. PICK e \in Errand :
          \/ Step(c, [x EXCEPT !.pc = "applyMax", !.errand = e, !.seen = saved])
          \/ Step(c, [x EXCEPT !.pc = "readMax", !.errand = e])
    BY <1>6 DEF Errand
  <2>2. saved' \in Settings /\ cfg' \in Config
    BY <1>2, <1>5, <1>6
  <2>3. CASE Step(c, [x EXCEPT !.pc = "applyMax", !.errand = e, !.seen = saved])
    <3> DEFINE r == [x EXCEPT !.pc = "applyMax", !.errand = e, !.seen = saved]
    <3>1. r \in Caller /\ r.pc = "applyMax" /\ r.gate = NoGate
      BY <1>2, <1>3
    <3> HIDE DEF r
    <3> QED BY <1>1, <1>5, <2>2, <2>3, <3>1, OutsideStep DEF Holding, r
  <2>4. CASE Step(c, [x EXCEPT !.pc = "readMax", !.errand = e])
    <3> DEFINE r == [x EXCEPT !.pc = "readMax", !.errand = e]
    <3>1. r \in Caller /\ r.pc = "readMax" /\ r.gate = NoGate
      BY <1>4
    <3> HIDE DEF r
    <3> QED BY <1>1, <1>5, <2>2, <2>4, <3>1, OutsideStep DEF Holding, r
  <2> QED BY <2>1, <2>3, <2>4
<1>7. CASE \E s \in Settings :
             /\ saved' = s
             /\ Step(c, [x EXCEPT !.pc = "applyMax", !.errand = "update",
                                  !.seen = s])
  <2>1. PICK s \in Settings :
          /\ saved' = s
          /\ Step(c, [x EXCEPT !.pc = "applyMax", !.errand = "update",
                               !.seen = s])
    BY <1>7
  <2> DEFINE r == [x EXCEPT !.pc = "applyMax", !.errand = "update", !.seen = s]
  <2>2. r \in Caller /\ r.pc = "applyMax" /\ r.gate = NoGate
    BY <1>2, <1>3 DEF Errand
  <2>3. Step(c, r)
    BY <2>1
  <2> HIDE DEF r
  <2> QED BY <1>1, <1>2, <1>5, <2>1, <2>2, <2>3, OutsideStep DEF Holding
<1> QED BY <1>6, <1>7 DEF Begin

LEMMA ApplyMaxInv == ASSUME GateInv, NEW c \in Callers, ApplyMax(c) PROVE GateInv'
<1> DEFINE x == caller[c]
           r == [x EXCEPT !.pc = "applyLimit"]
<1>1. x \in Caller /\ x.pc = "applyMax" /\ x.gate = NoGate
  BY CallerOf DEF ApplyMax, At, Placed, Holding
<1>2. r \in Caller /\ r.pc = "applyLimit" /\ r.gate = NoGate
  BY <1>1, MovedCaller DEF CallerPc
<1>3. x.seen.max \in Nat \ {0}
  BY <1>1 DEF Caller, Config
<1>4. saved' \in Settings /\ cfg' \in Config
  BY <1>3 DEF GateInv, TypeOK, ApplyMax, Config
<1>5. Step(c, r) /\ UNCHANGED <<gate, key, gates>>
  BY DEF ApplyMax
<1> HIDE DEF r
<1> QED BY <1>1, <1>2, <1>4, <1>5, OutsideStep DEF Holding

LEMMA ApplyLimitInv ==
  ASSUME GateInv, NEW c \in Callers, ApplyLimit(c) PROVE GateInv'
<1> DEFINE x == caller[c]
           r == [x EXCEPT !.pc = "readMax", !.seen = Idle.seen]
<1>1. x \in Caller /\ x.pc = "applyLimit" /\ x.gate = NoGate
  BY CallerOf DEF ApplyLimit, At, Placed, Holding
<1>2. Idle \in Caller /\ Idle.pc = "idle" /\ Idle.gate = NoGate
  BY IdleCaller DEF Placed, Holding
<1>3. Idle.seen \in Config
  BY <1>2 DEF Caller
<1>4. r \in Caller /\ r.pc = "readMax" /\ r.gate = NoGate
  BY <1>1, <1>3 DEF Caller, CallerPc
<1>5. x.seen.limit \in Nat \ {0}
  BY <1>1 DEF Caller, Config
<1>6. saved' \in Settings /\ cfg' \in Config
  BY <1>5 DEF GateInv, TypeOK, ApplyLimit, Config
<1>7. (Step(c, Idle) \/ Step(c, r)) /\ UNCHANGED <<gate, key, gates>>
  BY DEF ApplyLimit
<1> HIDE DEF r
<1> QED BY <1>1, <1>2, <1>4, <1>6, <1>7, OutsideStep DEF Holding

LEMMA ReadInv ==
  ASSUME GateInv, NEW c \in Callers, ReadMax(c) \/ ReadLimit(c) PROVE GateInv'
<1> DEFINE x == caller[c]
           r == [x EXCEPT !.pc = "readLimit", !.seen.max = cfg.max]
           s == [x EXCEPT !.pc = "enter", !.seen.limit = cfg.limit]
<1>1. x \in Caller /\ x.pc \in {"readMax", "readLimit"} /\ x.gate = NoGate
  BY CallerOf DEF ReadMax, ReadLimit, At, Placed, Holding
<1>2. cfg \in Config /\ saved \in Settings /\ x.seen \in Config
  BY <1>1 DEF GateInv, TypeOK, Caller
<1>3. /\ [x.seen EXCEPT !.max = cfg.max] \in Config
      /\ [x.seen EXCEPT !.limit = cfg.limit] \in Config
  BY <1>2 DEF Config
<1>4. r \in Caller /\ r.pc = "readLimit" /\ r.gate = NoGate
  BY <1>1, <1>3 DEF Caller, CallerPc
<1>5. s \in Caller /\ s.pc = "enter" /\ s.gate = NoGate
  BY <1>1, <1>3 DEF Caller, CallerPc
<1>6. /\ Step(c, r) \/ Step(c, s)
      /\ UNCHANGED <<saved, cfg, gate, key, gates>>
  BY DEF ReadMax, ReadLimit
<1> HIDE DEF r, s
<1> QED BY <1>1, <1>2, <1>4, <1>5, <1>6, OutsideStep DEF Holding

\* Garbage is in nobody's hands, and its channels are empty.
LEMMA GarbageEmpty ==
  ASSUME GateInv, NEW g \in Unused
  PROVE  /\ g \in Gates /\ g # gate /\ \A d \in Callers : caller[d].gate # g
         /\ gates[g].slots = 0 /\ gates[g].queue = 0
<1>1. g \in Gates /\ g # gate /\ \A d \in Callers : caller[d].gate # g
  BY DEF Unused
<1>2. With(g, {"admitted", "run"}) = {}
  BY <1>1 DEF With
<1>3. With(g, {"wait", "admitted", "leave"}) = {}
  BY <1>1 DEF With
<1>4. /\ gates[g].slots = Cardinality(With(g, {"admitted", "run"}))
      /\ gates[g].queue = Cardinality(With(g, {"wait", "admitted", "leave"}))
  BY <1>1 DEF GateInv, HeldByCallers
<1> QED BY <1>1, <1>2, <1>3, <1>4, FS_EmptySet

LEMMA NewGate ==
  ASSUME NEW s \in Config
  PROVE  /\ Empty(s) \in Gate /\ Empty(s).slots = 0 /\ Empty(s).queue = 0
         /\ Empty(s).max = s.max /\ Empty(s).limit = s.limit
         /\ [max |-> s.max, limit |-> s.limit] = s
BY DEF Empty, Gate, Config

LEMMA EnterInv == ASSUME GateInv, NEW c \in Callers, Enter(c) PROVE GateInv'
<1> DEFINE x == caller[c]
           s == x.seen
           with(g) == IF x.errand = "status" THEN Idle
                      ELSE [x EXCEPT !.pc = "token", !.gate = g]
<1>1. x \in Caller /\ x.pc = "enter" /\ x.gate = NoGate
  BY CallerOf DEF Enter, At, Placed, Holding
<1>2. s \in Config
  BY <1>1 DEF Caller
<1>3. /\ TypeOK /\ (gate # NoGate => Caps(gates, gate) = key)
      /\ UNCHANGED <<saved, cfg>>
  BY DEF GateInv, Enter
<1>4. ASSUME NEW g \in Gates
      PROVE  /\ with(g) \in Caller /\ Placed(with(g))
             /\ with(g).pc \in {"idle", "token"}
             /\ with(g).pc \in Holding => with(g).gate = g /\ with(g).seen = s
  <2>1. CASE x.errand = "status"
    BY <2>1, IdleCaller DEF Holding
  <2>2. CASE x.errand # "status"
    <3> DEFINE r == [x EXCEPT !.pc = "token", !.gate = g]
    <3>1. r \in Caller /\ r.pc = "token" /\ r.gate = g /\ r.seen = s
      BY <1>1 DEF Caller, CallerPc
    <3>2. with(g) = r
      BY <2>2
    <3> HIDE DEF r, with
    <3> QED BY <3>1, <3>2 DEF Placed, Holding
  <2> QED BY <2>1, <2>2
<1>5. ASSUME NEW g \in Gates, NEW h \in Gates
      PROVE  /\ ~HasSlot(with(h), g) /\ ~HasSlot(x, g)
             /\ ~HasPlace(with(h), g) /\ ~HasPlace(x, g)
  <2> HIDE DEF with
  <2> QED BY <1>1, <1>4 DEF HasSlot, HasPlace, SlotPcs, QueuePcs
<1>6. CASE /\ gate # NoGate /\ SameKey(key, s)
           /\ Step(c, with(gate))
           /\ UNCHANGED <<gate, key, gates>>
  <2>1. gate \in Gates /\ Caps(gates, gate) = s
    BY <1>3, <1>6 DEF TypeOK, SameKey
  <2> HIDE DEF with
  <2>2. InUse(with(gate))
    BY <1>4, <2>1 DEF InUse
  <2>3. saved' \in Settings /\ cfg' \in Config
    BY <1>3 DEF TypeOK
  <2> QED BY <1>4, <1>5, <1>6, <2>1, <2>2, <2>3, QuietStep
<1>7. CASE /\ Unused # {}
           /\ gate' = New
           /\ key' = s
           /\ gates' = [g \in Gates |-> IF g \in Unused THEN Empty(s)
                                        ELSE gates[g]]
           /\ Step(c, with(New))
  <2>1. New \in Unused /\ New \in Gates
    BY <1>7 DEF New, Unused
  <2>2. gates \in [Gates -> Gate]
    BY <1>3 DEF TypeOK
  <2>3. gates' \in [Gates -> Gate]
    BY <1>2, <1>7, <2>2, NewGate
  <2>4. ASSUME NEW g \in Gates
        PROVE  /\ gates'[g].slots <= gates'[g].max
               /\ gates'[g].queue <= gates'[g].limit
               /\ gates'[g].slots = gates[g].slots + One(HasSlot(with(New), g))
                                      - One(HasSlot(x, g))
               /\ gates'[g].queue = gates[g].queue + One(HasPlace(with(New), g))
                                      - One(HasPlace(x, g))
    <3>1. /\ One(HasSlot(with(New), g)) = 0 /\ One(HasSlot(x, g)) = 0
          /\ One(HasPlace(with(New), g)) = 0 /\ One(HasPlace(x, g)) = 0
      BY <1>5, <2>1 DEF One
    <3>2. CASE g \in Unused
      <4>1. gates'[g] = Empty(s)
        BY <1>7, <3>2
      <4>2. /\ gates'[g].slots = 0 /\ gates'[g].queue = 0
            /\ gates'[g].max \in Nat /\ gates'[g].limit \in Nat
        BY <4>1, <1>2, NewGate DEF Config
      <4>3. gates[g].slots = 0 /\ gates[g].queue = 0
        BY <3>2, GarbageEmpty
      <4> HIDE DEF with
      <4> QED BY <3>1, <4>2, <4>3
    <3>3. CASE g \notin Unused
      <4>1. gates'[g] = gates[g] /\ gates[g] \in Gate
        BY <1>7, <2>2, <3>3
      <4>2. gates[g].slots <= gates[g].max /\ gates[g].queue <= gates[g].limit
        BY <1>3 DEF TypeOK
      <4>3. gates[g].slots \in Nat /\ gates[g].queue \in Nat
        BY <4>1 DEF Gate
      <4> HIDE DEF with
      <4> QED BY <3>1, <4>1, <4>2, <4>3
    <3> QED BY <3>2, <3>3
  <2>5. Caps(gates', New) = s
    BY <1>2, <1>7, <2>1, NewGate DEF Caps
  <2>6. ASSUME NEW d \in Callers \ {c}, caller[d].pc \in Holding
        PROVE  Caps(gates', caller[d].gate) = Caps(gates, caller[d].gate)
    <3>1. caller[d].gate \in Gates /\ caller[d].gate \notin Unused
      BY <2>6, CallerOf, GarbageEmpty DEF Placed
    <3>2. gates'[caller[d].gate] = gates[caller[d].gate]
      BY <1>7, <3>1
    <3> QED BY <3>2 DEF Caps
  <2> HIDE DEF with
  <2>7. with(New).pc \in Holding => Caps(gates', with(New).gate) = with(New).seen
    BY <1>4, <2>1, <2>5
  <2>8. gate' # NoGate => Caps(gates', gate') = key'
    BY <1>7, <2>5
  <2>9. /\ saved' \in Settings /\ cfg' \in Config /\ key' \in Config
        /\ gate' \in Gates \cup {NoGate}
    BY <1>2, <1>3, <1>7, <2>1 DEF TypeOK
  <2>10. with(New) \in Caller /\ Placed(with(New)) /\ Step(c, with(New))
    BY <1>4, <1>7, <2>1
  <2> QED BY <2>3, <2>4, <2>6, <2>7, <2>8, <2>9, <2>10, StepInv
<1> QED BY <1>6, <1>7 DEF Enter

\* A caller inside, its gate, and the lengths of its channels.
LEMMA InsideFacts ==
  ASSUME GateInv, NEW c \in Callers, caller[c].pc \in Holding
  PROVE  LET x == caller[c]
             g == gates[x.gate]
         IN  /\ x \in Caller /\ x.gate \in Gates /\ InUse(x) /\ g \in Gate
             /\ g.slots \in 0 .. g.max /\ g.queue \in 0 .. g.limit
             /\ g.max \in Nat /\ g.limit \in Nat
<1>1. /\ caller[c] \in Caller /\ caller[c].gate \in Gates /\ InUse(caller[c])
  BY CallerOf DEF Placed
<1>2. gates[caller[c].gate] \in Gate
  BY <1>1 DEF GateInv, TypeOK
<1>3. LET g == gates[caller[c].gate]
      IN  g.slots <= g.max /\ g.queue <= g.limit
  BY <1>1 DEF GateInv, TypeOK
<1> QED BY <1>1, <1>2, <1>3 DEF Gate

\* Steps of a caller inside that stays inside, in its gate, at another place,
\* or leaves it.
LEMMA InsideStep ==
  ASSUME GateInv, NEW c \in Callers, caller[c].pc \in Holding,
         NEW r \in Caller, Step(c, r),
         \/ r.gate = caller[c].gate /\ r.seen = caller[c].seen /\ r.pc \in Holding
         \/ r = Idle,
         NEW m \in {-1, 0, 1}, NEW n \in {-1, 0, 1}, Length(caller[c].gate, m, n),
         gates[caller[c].gate].slots + m \in 0 .. gates[caller[c].gate].max,
         gates[caller[c].gate].queue + n \in 0 .. gates[caller[c].gate].limit,
         UNCHANGED <<saved, cfg, gate, key>>,
         m = One(r.pc \in SlotPcs) - One(caller[c].pc \in SlotPcs),
         n = One(r.pc \in QueuePcs) - One(caller[c].pc \in QueuePcs)
  PROVE  GateInv'
<1> DEFINE x == caller[c]
<1>1. x.gate \in Gates /\ InUse(x)
  BY InsideFacts
<1>2. Idle.pc = "idle" /\ Placed(Idle)
  BY IdleCaller
<1>3. CASE r.gate = x.gate /\ r.seen = x.seen /\ r.pc \in Holding
  <2>1. Placed(r) /\ InUse(r)
    BY <1>1, <1>3 DEF Placed, InUse
  <2>2. /\ HasSlot(r, x.gate) <=> r.pc \in SlotPcs
        /\ HasSlot(x, x.gate) <=> x.pc \in SlotPcs
        /\ HasPlace(r, x.gate) <=> r.pc \in QueuePcs
        /\ HasPlace(x, x.gate) <=> x.pc \in QueuePcs
    BY <1>3 DEF HasSlot, HasPlace
  <2>3. \A g \in Gates \ {x.gate} : ~HasSlot(r, g) /\ ~HasPlace(r, g)
    BY <1>3 DEF HasSlot, HasPlace
  <2>4. /\ m = One(HasSlot(r, x.gate)) - One(HasSlot(x, x.gate))
        /\ n = One(HasPlace(r, x.gate)) - One(HasPlace(x, x.gate))
    BY <2>2 DEF One
  <2> QED BY <1>1, <1>3, <2>1, <2>3, <2>4, LengthStep
<1>4. CASE r = Idle
  <2>1. Placed(r) /\ r.pc \notin Holding
    BY <1>2, <1>4 DEF Holding
  <2>2. r.pc \notin SlotPcs /\ r.pc \notin QueuePcs
    BY <1>2, <1>4 DEF SlotPcs, QueuePcs
  <2>3. \A g \in Gates : ~HasSlot(r, g) /\ ~HasPlace(r, g)
    BY <2>2 DEF HasSlot, HasPlace
  <2>4. /\ HasSlot(x, x.gate) <=> x.pc \in SlotPcs
        /\ HasPlace(x, x.gate) <=> x.pc \in QueuePcs
    BY DEF HasSlot, HasPlace
  <2>5. /\ m = One(HasSlot(r, x.gate)) - One(HasSlot(x, x.gate))
        /\ n = One(HasPlace(r, x.gate)) - One(HasPlace(x, x.gate))
    BY <1>1, <2>2, <2>3, <2>4 DEF One
  <2> QED BY <1>1, <2>1, <2>3, <2>5, LengthStep
<1> QED BY <1>3, <1>4

\* Moves inside: the record of a caller that goes on to pc.
LEMMA MoveInside ==
  ASSUME GateInv, NEW c \in Callers, caller[c].pc \in Holding,
         NEW pc \in Holding, NEW m \in {-1, 0, 1}, NEW n \in {-1, 0, 1},
         Step(c, [caller[c] EXCEPT !.pc = pc]), Length(caller[c].gate, m, n),
         gates[caller[c].gate].slots + m \in 0 .. gates[caller[c].gate].max,
         gates[caller[c].gate].queue + n \in 0 .. gates[caller[c].gate].limit,
         UNCHANGED <<saved, cfg, gate, key>>,
         m = One(pc \in SlotPcs) - One(caller[c].pc \in SlotPcs),
         n = One(pc \in QueuePcs) - One(caller[c].pc \in QueuePcs)
  PROVE  GateInv'
<1> DEFINE r == [caller[c] EXCEPT !.pc = pc]
<1>1. caller[c] \in Caller
  BY CallerOf
<1>2. pc \in CallerPc
  BY DEF Holding, CallerPc
<1>3. r \in Caller /\ r.pc = pc /\ r.gate = caller[c].gate /\ r.seen = caller[c].seen
  BY <1>1, <1>2, MovedCaller
<1> HIDE DEF r
<1> QED BY <1>3, InsideStep DEF r

\* A caller that goes home.
LEMMA LeaveInside ==
  ASSUME GateInv, NEW c \in Callers, caller[c].pc \in Holding, Step(c, Idle),
         NEW m \in {-1, 0, 1}, NEW n \in {-1, 0, 1}, Length(caller[c].gate, m, n),
         gates[caller[c].gate].slots + m \in 0 .. gates[caller[c].gate].max,
         gates[caller[c].gate].queue + n \in 0 .. gates[caller[c].gate].limit,
         UNCHANGED <<saved, cfg, gate, key>>,
         m = 0 - One(caller[c].pc \in SlotPcs),
         n = 0 - One(caller[c].pc \in QueuePcs)
  PROVE  GateInv'
<1>1. Idle \in Caller /\ Idle.pc = "idle"
  BY IdleCaller
<1>2. One(Idle.pc \in SlotPcs) = 0 /\ One(Idle.pc \in QueuePcs) = 0
  BY <1>1 DEF One, SlotPcs, QueuePcs
<1> QED BY <1>1, <1>2, InsideStep

LEMMA TokenInv == ASSUME GateInv, NEW c \in Callers, Token(c) PROVE GateInv'
<1> DEFINE x == caller[c]
           g == gates[x.gate]
<1>1. x.pc = "token" /\ x.pc \in Holding
  BY DEF Token, At, Holding
<1>2. /\ x \in Caller /\ g \in Gate
      /\ g.slots \in 0 .. g.max /\ g.queue \in 0 .. g.limit
      /\ g.max \in Nat /\ g.limit \in Nat
  BY <1>1, InsideFacts
<1>3. UNCHANGED <<saved, cfg, gate, key>>
  BY DEF Token
<1>4. CASE /\ Room(g.queue, g.limit)
           /\ Length(x.gate, 0, 1)
           /\ Step(c, [x EXCEPT !.pc = "wait"])
  <2>1. g.slots + 0 \in 0 .. g.max /\ g.queue + 1 \in 0 .. g.limit
    BY <1>2, <1>4 DEF Room
  <2>2. /\ 0 = One("wait" \in SlotPcs) - One(x.pc \in SlotPcs)
        /\ 1 = One("wait" \in QueuePcs) - One(x.pc \in QueuePcs)
        /\ "wait" \in Holding
    BY <1>1 DEF One, SlotPcs, QueuePcs, Holding
  <2> QED BY <1>1, <1>3, <1>4, <2>1, <2>2, MoveInside
<1>5. CASE Step(c, Idle) /\ UNCHANGED gates
  <2>1. Idle \in Caller /\ Placed(Idle) /\ Idle.pc = "idle"
    BY IdleCaller
  <2>2. InUse(Idle)
    BY <2>1 DEF InUse, Holding
  <2>3. \A h \in Gates : /\ ~HasSlot(Idle, h) /\ ~HasSlot(x, h)
                         /\ ~HasPlace(Idle, h) /\ ~HasPlace(x, h)
    BY <1>1, <2>1 DEF HasSlot, HasPlace, SlotPcs, QueuePcs
  <2>4. saved' \in Settings /\ cfg' \in Config
    BY <1>3 DEF GateInv, TypeOK
  <2> QED BY <1>3, <1>5, <2>1, <2>2, <2>3, <2>4, QuietStep
<1> QED BY <1>4, <1>5 DEF Token

LEMMA AdmitInv == ASSUME GateInv, NEW c \in Callers, Admit(c) PROVE GateInv'
<1> DEFINE x == caller[c]
           g == gates[x.gate]
<1>1. x.pc = "wait" /\ x.pc \in Holding
  BY DEF Admit, At, Holding
<1>2. /\ g.slots \in 0 .. g.max /\ g.queue \in 0 .. g.limit
      /\ g.max \in Nat /\ g.limit \in Nat
  BY <1>1, InsideFacts
<1>3. /\ Room(g.slots, g.max) /\ Length(x.gate, 1, 0)
      /\ Step(c, [x EXCEPT !.pc = "admitted"])
      /\ UNCHANGED <<saved, cfg, gate, key>>
  BY DEF Admit
<1>4. g.slots + 1 \in 0 .. g.max /\ g.queue + 0 \in 0 .. g.limit
  BY <1>2, <1>3 DEF Room
<1>5. /\ 1 = One("admitted" \in SlotPcs) - One(x.pc \in SlotPcs)
      /\ 0 = One("admitted" \in QueuePcs) - One(x.pc \in QueuePcs)
      /\ "admitted" \in Holding
  BY <1>1 DEF One, SlotPcs, QueuePcs, Holding
<1> QED BY <1>1, <1>3, <1>4, <1>5, MoveInside

LEMMA GiveUpInv == ASSUME GateInv, NEW c \in Callers, GiveUp(c) PROVE GateInv'
<1> DEFINE x == caller[c]
           r == [x EXCEPT !.pc = "leave"]
<1>1. x.pc = "wait" /\ x.pc \in Holding
  BY DEF GiveUp, At, Holding
<1>2. x \in Caller /\ x.gate \in Gates /\ InUse(x)
  BY <1>1, InsideFacts
<1>3. r \in Caller /\ r.pc = "leave" /\ r.gate = x.gate /\ r.seen = x.seen
  BY <1>2, MovedCaller DEF CallerPc
<1>4. Step(c, r) /\ UNCHANGED <<saved, cfg, gate, key, gates>>
  BY DEF GiveUp
<1>5. saved' \in Settings /\ cfg' \in Config
  BY <1>4 DEF GateInv, TypeOK
<1> HIDE DEF r
<1>6. Placed(r) /\ InUse(r)
  BY <1>1, <1>2, <1>3 DEF Placed, InUse, Holding
<1>7. \A h \in Gates : /\ HasSlot(r, h) <=> HasSlot(x, h)
                       /\ HasPlace(r, h) <=> HasPlace(x, h)
  BY <1>1, <1>3 DEF HasSlot, HasPlace, SlotPcs, QueuePcs
<1> QED BY <1>3, <1>4, <1>5, <1>6, <1>7, QuietStep

LEMMA DropTokenInv ==
  ASSUME GateInv, NEW c \in Callers, DropToken(c) PROVE GateInv'
<1> DEFINE x == caller[c]
           g == gates[x.gate]
<1>1. x.pc \in {"admitted", "leave"} /\ x.pc \in Holding
  BY DEF DropToken, At, Holding
<1>2. /\ g.slots \in 0 .. g.max /\ g.queue \in 0 .. g.limit
      /\ g.max \in Nat /\ g.limit \in Nat
  BY <1>1, InsideFacts
<1>3. /\ g.queue > 0 /\ Length(x.gate, 0, -1) /\ Step(c, Afterwards(c))
      /\ UNCHANGED <<saved, cfg, gate, key>>
  BY DEF DropToken
<1>4. g.slots + 0 \in 0 .. g.max /\ g.queue + (-1) \in 0 .. g.limit
  BY <1>2, <1>3
<1>5. CASE x.pc = "admitted"
  <2>1. Step(c, [x EXCEPT !.pc = "run"])
    BY <1>3, <1>5 DEF Afterwards, At
  <2>2. /\ 0 = One("run" \in SlotPcs) - One(x.pc \in SlotPcs)
        /\ -1 = One("run" \in QueuePcs) - One(x.pc \in QueuePcs)
        /\ "run" \in Holding
    BY <1>5 DEF One, SlotPcs, QueuePcs, Holding
  <2> QED BY <1>1, <1>3, <1>4, <2>1, <2>2, MoveInside
<1>6. CASE x.pc = "leave"
  <2>1. Step(c, Idle)
    BY <1>3, <1>6 DEF Afterwards, At
  <2>2. One(x.pc \in SlotPcs) = 0 /\ One(x.pc \in QueuePcs) = 1
    BY <1>6 DEF One, SlotPcs, QueuePcs
  <2>3. 0 = 0 - One(x.pc \in SlotPcs) /\ -1 = 0 - One(x.pc \in QueuePcs)
    BY <2>2
  <2> QED BY <1>1, <1>3, <1>4, <2>1, <2>3, LeaveInside
<1> QED BY <1>1, <1>5, <1>6

LEMMA ReleaseInv == ASSUME GateInv, NEW c \in Callers, Release(c) PROVE GateInv'
<1> DEFINE x == caller[c]
           g == gates[x.gate]
<1>1. x.pc = "run" /\ x.pc \in Holding
  BY DEF Release, At, Holding
<1>2. /\ g.slots \in 0 .. g.max /\ g.queue \in 0 .. g.limit
      /\ g.max \in Nat /\ g.limit \in Nat
  BY <1>1, InsideFacts
<1>3. /\ g.slots > 0 /\ Length(x.gate, -1, 0) /\ Step(c, Idle)
      /\ UNCHANGED <<saved, cfg, gate, key>>
  BY DEF Release
<1>4. g.slots + (-1) \in 0 .. g.max /\ g.queue + 0 \in 0 .. g.limit
  BY <1>2, <1>3
<1>5. One(x.pc \in SlotPcs) = 1 /\ One(x.pc \in QueuePcs) = 0
  BY <1>1 DEF One, SlotPcs, QueuePcs
<1>6. -1 = 0 - One(x.pc \in SlotPcs) /\ 0 = 0 - One(x.pc \in QueuePcs)
  BY <1>5
<1> QED BY <1>1, <1>3, <1>4, <1>6, LeaveInside

-----------------------------------------------------------------------------
(* The theorems.                                                           *)

LEMMA InitInv == ASSUME Init PROVE GateInv
<1>1. saved \in Config /\ saved \in Settings /\ cfg \in Config
  BY GateAssumption DEF Init, Config
<1>2. /\ Idle \in Caller /\ Placed(Idle) /\ Idle.pc = "idle"
  BY IdleCaller
<1>3. caller \in [Callers -> Caller] /\ \A c \in Callers : caller[c] = Idle
  BY <1>2 DEF Init
<1>4. /\ gates \in [Gates -> Gate]
      /\ \A g \in Gates :
           /\ gates[g].slots = 0 /\ gates[g].queue = 0
           /\ gates[g].max \in Nat /\ gates[g].limit \in Nat
  <2>1. \A g \in Gates : gates[g] = Empty(saved)
    BY DEF Init
  <2>2. gates = [g \in Gates |-> Empty(saved)]
    BY DEF Init
  <2> QED BY <1>1, <2>1, <2>2, NewGate DEF Config
<1>5. TypeOK
  <2>1. key = saved /\ gate = NoGate
    BY DEF Init
  <2>2. \A g \in Gates :
          gates[g].slots <= gates[g].max /\ gates[g].queue <= gates[g].limit
    BY <1>4
  <2> QED BY <1>1, <1>3, <1>4, <2>1, <2>2 DEF TypeOK
<1>6. \A g \in Gates : /\ With(g, {"admitted", "run"}) = {}
                       /\ With(g, {"wait", "admitted", "leave"}) = {}
  BY <1>2, <1>3 DEF With
<1>7. HeldByCallers
  BY <1>4, <1>6, FS_EmptySet DEF HeldByCallers
<1>8. \A c \in Callers : Placed(caller[c]) /\ InUse(caller[c])
  BY <1>2, <1>3 DEF InUse, Holding
<1>9. gate = NoGate
  BY DEF Init
<1> QED BY <1>5, <1>7, <1>8, <1>9 DEF GateInv

LEMMA NextInv == ASSUME GateInv, [Next]_vars PROVE GateInv'
<1>1. CASE UNCHANGED vars
  BY <1>1 DEF vars, GateInv, TypeOK, HeldByCallers, With, Placed, InUse
<1>2. ASSUME NEW c \in Callers, Begin(c) \/ Admit(c) \/ Go(c)
      PROVE  GateInv'
  BY <1>2, BeginInv, AdmitInv, ApplyMaxInv, ApplyLimitInv, ReadInv, EnterInv,
     TokenInv, GiveUpInv, DropTokenInv, ReleaseInv DEF Go
<1> QED BY <1>1, <1>2 DEF Next

\* The invariant of the gates, on which the theorems below rest: besides what
\* they state, the controller's key describes its gate, and a caller has a
\* gate exactly while it is inside.
THEOREM Invariance == Spec => []GateInv
<1>1. Init => GateInv
  BY InitInv
<1>2. GateInv /\ [Next]_vars => GateInv'
  BY NextInv
<1> QED BY <1>1, <1>2, PTL DEF Spec

\* The state is well typed, and no channel ever holds more than its capacity.
THEOREM TypeCorrect == Spec => []TypeOK
<1>1. GateInv => TypeOK
  BY DEF GateInv
<1> QED BY <1>1, Invariance, PTL

\* Slots and places are those of the callers inside: releaseQueue and release
\* give back what acquire took, to the gate it was taken from.
THEOREM NothingLeaks == Spec => []HeldByCallers
<1>1. GateInv => HeldByCallers
  BY DEF GateInv
<1> QED BY <1>1, Invariance, PTL

\* Whoever is inside a gate is there under the settings it read.
THEOREM GatesFitTheirCallers == Spec => []GateOfItsSettings
<1>1. GateInv => GateOfItsSettings
  BY DEF GateInv, InUse, Holding, Caps, GateOfItsSettings
<1> QED BY <1>1, Invariance, PTL

\* The receives of releaseQueue and release never wait: the channel of a
\* caller that is about to receive is not empty.
ReceivesNeverWait ==
  \A c \in Callers :
    /\ At(c, "admitted") \/ At(c, "leave") => gates[caller[c].gate].queue > 0
    /\ At(c, "run") => gates[caller[c].gate].slots > 0

THEOREM NoReceiveWaits == Spec => []ReceivesNeverWait
<1>1. ASSUME GateInv, NEW c \in Callers,
             caller[c].pc \in SlotPcs \cup QueuePcs
      PROVE  /\ caller[c].pc \in QueuePcs => gates[caller[c].gate].queue > 0
             /\ caller[c].pc \in SlotPcs => gates[caller[c].gate].slots > 0
  <2> DEFINE a == caller[c].gate
  <2>1. a \in Gates /\ gates[a] \in Gate
    BY <1>1, CallerOf DEF Placed, Holding, SlotPcs, QueuePcs, GateInv, TypeOK
  <2>2. /\ gates[a].slots = Cardinality(With(a, SlotPcs))
        /\ gates[a].queue = Cardinality(With(a, QueuePcs))
    BY <1>1, <2>1 DEF GateInv, HeldByCallers, SlotPcs, QueuePcs
  <2>3. /\ caller[c].pc \in QueuePcs => With(a, QueuePcs) # {}
        /\ caller[c].pc \in SlotPcs => With(a, SlotPcs) # {}
    BY DEF With
  <2>4. \A P : With(a, P) # {} => Cardinality(With(a, P)) \in Nat \ {0}
    BY WithFinite, FS_EmptySet
  <2> QED BY <2>2, <2>3, <2>4
<1>2. GateInv => ReceivesNeverWait
  BY <1>1 DEF ReceivesNeverWait, At, SlotPcs, QueuePcs
<1> QED BY <1>2, Invariance, PTL

-----------------------------------------------------------------------------
(* The limit.  A changed setting makes a second gate, whose callers run     *)
(* beside those of the first; while the settings stay there is one gate, on *)
(* which everybody counts.                                                  *)

\* Everything is about the settings s, and everybody inside is in the gate
\* that is current.
OneGate(s) ==
  /\ saved = s /\ cfg = s /\ key = s
  /\ \A c \in Callers :
       /\ caller[c].seen = s
       /\ caller[c].pc \in Holding => caller[c].gate = gate

LEMMA OneGateStep ==
  ASSUME NEW s, OneGate(s), GateInv, NEW c \in Callers, NEW r, Step(c, r),
         saved' = s, cfg' = s, key' = s, gate' = gate, r.seen = s,
         r.pc \in Holding => r.gate = gate
  PROVE  OneGate(s)'
BY DEF OneGate, GateInv, TypeOK, Step

LEMMA OneGateStays ==
  ASSUME NEW s, Settings = {s}, GateInv, OneGate(s), [Next]_vars
  PROVE  OneGate(s)'
<1>0. s \in Config /\ Idle.seen = s /\ Idle.pc = "idle"
  BY GateAssumption DEF Config, Idle
<1>1. CASE UNCHANGED vars BY <1>1 DEF vars, OneGate
<1>2. ASSUME NEW c \in Callers, Begin(c) \/ Admit(c) \/ Go(c)
      PROVE  OneGate(s)'
  <2> DEFINE x == caller[c]
  <2>0. /\ x \in Caller /\ Placed(x) /\ x.seen = s
        /\ x.pc \in Holding => x.gate = gate
        /\ saved = s /\ cfg = s /\ key = s
    BY CallerOf DEF OneGate
  <2>1. CASE Begin(c)
    <3>1. x.pc = "idle" /\ UNCHANGED <<cfg, gate, key>> BY <2>1 DEF Begin, At
    <3>2. PICK r : /\ Step(c, r) /\ r.seen = s /\ r.pc \in {"applyMax", "readMax"}
                   /\ saved' = s
      BY <2>0, <2>1 DEF Begin, Caller
    <3> QED BY <2>0, <3>1, <3>2, OneGateStep DEF Holding
  <2>2. CASE ApplyMax(c) \/ ApplyLimit(c) \/ ReadMax(c) \/ ReadLimit(c)
    <3>1. /\ [cfg EXCEPT !.max = x.seen.max] = s /\ [cfg EXCEPT !.limit = x.seen.limit] = s
          /\ [x.seen EXCEPT !.max = cfg.max] = s /\ [x.seen EXCEPT !.limit = cfg.limit] = s
      BY <1>0, <2>0 DEF Config
    <3>2. UNCHANGED <<saved, gate, key>> /\ cfg' = s
      BY <2>0, <2>2, <3>1 DEF ApplyMax, ApplyLimit, ReadMax, ReadLimit
    <3>3. PICK r : /\ Step(c, r) /\ r.seen = s
                   /\ r.pc \in {"applyLimit", "idle", "readMax", "readLimit", "enter"}
      <4>1. CASE ApplyMax(c) BY <2>0, <4>1 DEF ApplyMax, Caller
      <4>2. CASE ApplyLimit(c)
        <5> DEFINE q == [x EXCEPT !.pc = "readMax", !.seen = Idle.seen]
        <5>1. q.pc = "readMax" /\ q.seen = s BY <1>0, <2>0 DEF Caller
        <5>2. Step(c, Idle) \/ Step(c, q) BY <4>2 DEF ApplyLimit
        <5> HIDE DEF q
        <5> QED BY <1>0, <5>1, <5>2
      <4>3. CASE ReadMax(c)
        <5> DEFINE q == [x EXCEPT !.pc = "readLimit", !.seen.max = cfg.max]
        <5>1. q.pc = "readLimit" /\ q.seen = s BY <2>0, <3>1 DEF Caller
        <5>2. Step(c, q) BY <4>3 DEF ReadMax
        <5> HIDE DEF q
        <5> QED BY <5>1, <5>2
      <4>4. CASE ReadLimit(c)
        <5> DEFINE q == [x EXCEPT !.pc = "enter", !.seen.limit = cfg.limit]
        <5>1. q.pc = "enter" /\ q.seen = s BY <2>0, <3>1 DEF Caller
        <5>2. Step(c, q) BY <4>4 DEF ReadLimit
        <5> HIDE DEF q
        <5> QED BY <5>1, <5>2
      <4> QED BY <2>2, <4>1, <4>2, <4>3, <4>4
    <3> QED BY <2>0, <3>2, <3>3, OneGateStep DEF Holding
  <2>3. CASE Enter(c) /\ gate # NoGate
    <3>1. UNCHANGED <<saved, cfg, gate, key>>
      BY <2>0, <2>3 DEF Enter, SameKey
    <3> DEFINE q == [x EXCEPT !.pc = "token", !.gate = gate]
    <3>3. q.seen = s /\ q.gate = gate BY <2>0 DEF Caller
    <3>4. Step(c, Idle) \/ Step(c, q) BY <2>0, <2>3 DEF Enter, SameKey
    <3> HIDE DEF q
    <3>2. PICK r : Step(c, r) /\ r.seen = s /\ (r.pc \in Holding => r.gate = gate)
      BY <1>0, <3>3, <3>4 DEF Holding
    <3> QED BY <2>0, <3>1, <3>2, OneGateStep
  <2>4. CASE Enter(c) /\ gate = NoGate
    <3>1. \A d \in Callers : caller[d].pc \notin Holding
      BY <2>4, CallerOf, GateAssumption DEF OneGate, Placed
    <3>2. UNCHANGED <<saved, cfg>> /\ key' = s
      BY <2>0, <2>4 DEF Enter
    <3> DEFINE q == [x EXCEPT !.pc = "token", !.gate = New]
    <3>4. q.seen = s /\ q.gate = New BY <2>0 DEF Caller
    <3>5. gate' = New /\ (Step(c, Idle) \/ Step(c, q)) BY <2>4 DEF Enter
    <3> HIDE DEF q
    <3>3. PICK r : Step(c, r) /\ r.seen = s /\ (r.pc \in Holding => r.gate = gate')
      BY <1>0, <3>4, <3>5 DEF Holding
    <3> QED BY <2>0, <3>1, <3>2, <3>3 DEF OneGate, GateInv, TypeOK, Step
  <2>5. CASE Token(c) \/ Admit(c) \/ GiveUp(c) \/ DropToken(c) \/ Release(c)
    <3>1. x.pc \in Holding /\ UNCHANGED <<saved, cfg, gate, key>>
      BY <2>5 DEF Token, Admit, GiveUp, DropToken, Release, At, Holding
    <3>2. PICK r : Step(c, r) /\ r.seen = s /\ (r.pc \in Holding => r.gate = x.gate)
      BY <1>0, <2>0, <2>5
      DEF Token, Admit, GiveUp, DropToken, Release, Afterwards, Caller, Holding
    <3> QED BY <2>0, <3>1, <3>2, OneGateStep
  <2> QED BY <1>2, <2>1, <2>2, <2>3, <2>4, <2>5 DEF Go
<1> QED BY <1>1, <1>2 DEF Next

\* As long as nobody changes the settings the documented limit holds, for any
\* number of callers: what goes beyond it is the overlap of an old gate with
\* its replacement (imageAdmissionController.acquire).
THEOREM LimitHoldsBetweenChanges ==
  ASSUME NEW s, Settings = {s}
  PROVE  Spec => []RunningWithinLimit
<1>1. Init => OneGate(s)
  BY DEF Init, OneGate, Idle, Holding
<1>2. GateInv /\ OneGate(s) => RunningWithinLimit
  <2> SUFFICES ASSUME GateInv, OneGate(s) PROVE Cardinality(Running) <= s.max
    BY DEF RunningWithinLimit
  <2>0. s.max \in Nat \ {0} BY GateAssumption
  <2>1. CASE gate = NoGate
    <3>1. Running = {}
      BY <2>1, CallerOf, GateAssumption DEF OneGate, Placed, Running, At, Holding
    <3> QED BY <2>0, <3>1, FS_EmptySet
  <2>2. CASE gate # NoGate
    <3>1. gate \in Gates /\ Caps(gates, gate) = s /\ gates[gate].slots <= gates[gate].max
      BY <2>2 DEF GateInv, TypeOK, OneGate
    <3>2. gates[gate].slots = Cardinality(With(gate, SlotPcs)) /\ gates[gate].max = s.max
      BY <3>1 DEF GateInv, HeldByCallers, SlotPcs, Caps
    <3>3. Running \subseteq With(gate, SlotPcs)
      BY DEF Running, At, With, SlotPcs, OneGate, Holding
    <3>4. /\ IsFiniteSet(With(gate, SlotPcs)) /\ Cardinality(With(gate, SlotPcs)) \in Nat
          /\ Cardinality(Running) <= Cardinality(With(gate, SlotPcs))
          /\ Cardinality(Running) \in Nat
      BY <3>3, WithFinite, FS_Subset, FS_CardinalityType
    <3> QED BY <2>0, <3>1, <3>2, <3>4
  <2> QED BY <2>1, <2>2
<1>3. GateInv /\ OneGate(s) /\ [Next]_vars => OneGate(s)' BY OneGateStays
<1> QED BY <1>1, <1>2, <1>3, Invariance, PTL DEF Spec
=============================================================================
