--------------------------- MODULE ModelCatalogue ---------------------------
(***************************************************************************)
(* The catalogue of image models: rows of business_image_models, one of    *)
(* them the default (a partial unique index allows no second one), seeded  *)
(* with the built-in models by whoever finds the table empty.  Changes are *)
(* several statements without a transaction, so each statement is a step.  *)
(*                                                                         *)
(* There is one platform, and the upstream name of a model never changes.  *)
(***************************************************************************)
EXTENDS Integers, Sequences

CONSTANTS
  Models, Names,
  NameOf,       \* upstream model of an id
  BuiltIn,      \* DefaultModels: a sequence of ids, the first is the default
  BuiltInPrice, \* what they cost
  ModelInputs,  \* bound: the rows administrators enter
  Editors,      \* bound: changes that go on at one time
  MaxEdits      \* bound: changes

ASSUME ModelCatalogueAssumption ==
  /\ NameOf \in [Models -> Names]
  /\ BuiltIn \in Seq(Models)
  /\ BuiltInPrice \in Nat
  /\ ModelInputs \subseteq [there: {TRUE}, enabled: BOOLEAN, default: BOOLEAN, price: Nat]
  /\ MaxEdits \in Nat

VARIABLES
  model,   \* the table
  editor,  \* a change in progress
  edits,   \* changes that have begun
  calm     \* history: changes came one by one, none failed, none asked for
           \* a catalogue without default

catalogueVars == <<model, editor, edits, calm>>

ModelRow == [there: BOOLEAN, enabled: BOOLEAN, default: BOOLEAN, price: Nat]

NoModel == [there |-> FALSE, enabled |-> FALSE, default |-> FALSE, price |-> 0]

BuiltInRow(first) ==
  [there |-> TRUE, enabled |-> TRUE, default |-> first, price |-> BuiltInPrice]

\* left: the built-in models that a seeding has still to create
Editor == [pc: {"idle", "mark", "insert", "read", "clear", "update"},
           id: Models, row: ModelRow, left: Nat]

IdleEditor == [pc |-> "idle", id |-> CHOOSE m \in Models : TRUE,
               row |-> NoModel, left |-> 0]

IsThere(m) == model[m].there
Empty == \A m \in Models : ~IsThere(m)
HasDefault == \E m \in Models : model[m].default
Busy(a) == editor[a].pc # "idle"

EditorGoes(a, r) == editor' = [editor EXCEPT ![a] = r]

\* A seeding creates the next built-in model, or is over.
NextSeed(a) ==
  LET n == editor[a].left
  IN  IF n = 0 THEN IdleEditor
      ELSE [pc |-> "mark", id |-> BuiltIn[Len(BuiltIn) + 1 - n],
            row |-> BuiltInRow(n = Len(BuiltIn)), left |-> n - 1]

\* What begins is not calm when something else goes on.
Begins(a) ==
  /\ ~Busy(a) /\ edits < MaxEdits
  /\ edits' = edits + 1
  /\ UNCHANGED model

Calmly(asked) == calm' = (calm /\ asked /\ \A b \in Editors : ~Busy(b))

-----------------------------------------------------------------------------
(* Changes.                                                                *)

\* EnsureDefaults of any reader: it has counted no row.
BeginSeed(a) ==
  /\ Begins(a)
  /\ Empty /\ BuiltIn # <<>>
  /\ EditorGoes(a, [pc |-> "mark", id |-> BuiltIn[1], row |-> BuiltInRow(TRUE),
                    left |-> Len(BuiltIn) - 1])
  /\ Calmly(TRUE)

BeginCreate(a, m, r) ==
  /\ Begins(a)
  /\ r.there
  /\ EditorGoes(a, [pc |-> "mark", id |-> m, row |-> r, left |-> 0])
  /\ Calmly(r.enabled \/ r.default)

\* Create, before the insert: the default is taken from the others, or an
\* enabled model becomes the default of a catalogue that has none.
MarkNew(a) ==
  LET r == editor[a].row
  IN  /\ editor[a].pc = "mark"
      /\ model' = IF r.default
                  THEN [m \in Models |-> [model[m] EXCEPT !.default = FALSE]]
                  ELSE model
      /\ EditorGoes(a, [editor[a] EXCEPT
           !.pc = "insert",
           !.row.default = r.default \/ (r.enabled /\ ~HasDefault)])
      /\ UNCHANGED <<edits, calm>>

\* The insert fails on an id that is taken and on a second default; it ends a
\* seeding, and what was cleared before stays cleared.
Insert(a) ==
  LET e == editor[a]
  IN  /\ e.pc = "insert"
      /\ IF IsThere(e.id) \/ (e.row.default /\ HasDefault)
         THEN /\ EditorGoes(a, IdleEditor)
              /\ calm' = FALSE
              /\ UNCHANGED model
         ELSE /\ model' = [model EXCEPT ![e.id] = e.row]
              /\ EditorGoes(a, NextSeed(a))
              /\ UNCHANGED calm
      /\ UNCHANGED edits

\* An administrator updates a model (r), or makes it the default: then the rest
\* of the row stays what it is (SetDefault).
BeginUpdate(a, m, r) ==
  /\ Begins(a)
  /\ r.there /\ ~Empty
  /\ EditorGoes(a, [pc |-> "read", id |-> m, row |-> r, left |-> 0])
  /\ Calmly(~(model[m].default /\ ~r.enabled))

BeginSetDefault(a, m) ==
  /\ Begins(a)
  /\ ~Empty
  /\ EditorGoes(a, [pc |-> "read", id |-> m, row |-> NoModel, left |-> 0])
  /\ Calmly(TRUE)

\* (Variation: a default can be given up without another.)
GivesUpDefault(old, new) == new.default

\* A default that stays enabled stays the default.
KeepsDefault(old, new) == new.default \/ (old.default /\ new.enabled)

\* Get: a missing row, or a disabled one to become the default, is refused.
ReadModel(a) ==
  LET e == editor[a]
      old == model[e.id]
      setting == ~e.row.there
  IN  /\ e.pc = "read"
      /\ EditorGoes(a,
           IF ~old.there \/ (setting /\ ~old.enabled) THEN IdleEditor
           ELSE IF setting \/ e.row.default
           THEN [e EXCEPT !.pc = "clear"]
           ELSE [e EXCEPT !.pc = "update",
                          !.row.default = KeepsDefault(old, e.row)])
      /\ UNCHANGED <<model, edits, calm>>

\* clearDefaultExcept
ClearDefaultExcept(a) ==
  /\ editor[a].pc = "clear"
  /\ model' = [m \in Models |-> IF m = editor[a].id THEN model[m]
                                ELSE [model[m] EXCEPT !.default = FALSE]]
  /\ EditorGoes(a, [editor[a] EXCEPT !.pc = "update"])
  /\ UNCHANGED <<edits, calm>>

\* A row that was deleted meanwhile is updated to no effect, and nobody is told;
\* a second default is refused.
UpdateModel(a) ==
  LET e == editor[a]
      setting == ~e.row.there
      makes == setting \/ e.row.default
      second == makes /\ \E m \in Models \ {e.id} : model[m].default
  IN  /\ e.pc = "update"
      /\ model' = IF ~IsThere(e.id) \/ second THEN model
                  ELSE [model EXCEPT ![e.id] =
                          IF setting THEN [@ EXCEPT !.default = TRUE] ELSE e.row]
      /\ calm' = (calm /\ ~second)
      /\ EditorGoes(a, IdleEditor)
      /\ UNCHANGED edits

DeleteModel(a, m) ==
  /\ ~Busy(a) /\ edits < MaxEdits
  /\ edits' = edits + 1
  /\ model' = [model EXCEPT ![m] = NoModel]
  /\ Calmly(~model[m].default)
  /\ UNCHANGED editor

-----------------------------------------------------------------------------
(* Readers.                                                                *)

\* FindByPlatformModel: enabled rows of that name first, then whatever is last.
Named(n) == {m \in Models : IsThere(m) /\ NameOf[m] = n}
FoundByName(n) ==
  LET on == {m \in Named(n) : model[m].enabled}
  IN  IF on # {} THEN on ELSE Named(n)

\* resolveBusinessImageModel, as the prices it may lead to: the id, then the name,
\* then the built-in models; the price that the payload holds if all fail.  While
\* a seeding is going on a lookup may fail, like the seeding, on a taken id.
BuiltInNamed(m) == \E i \in DOMAIN BuiltIn : NameOf[BuiltIn[i]] = NameOf[m]
FallbackPrice(m, paid) == IF BuiltInNamed(m) THEN BuiltInPrice ELSE paid
Seeding == \E a \in Editors : editor[a].pc \in {"mark", "insert"}

ResolvedPrices(m, paid) ==
  LET rows == IF IsThere(m) THEN {m} ELSE FoundByName(NameOf[m])
      found == {model[x].price : x \in rows}
  IN  IF rows = {} \/ (Seeding /\ Empty) THEN {FallbackPrice(m, paid)} ELSE found

-----------------------------------------------------------------------------

CatalogueInit ==
  /\ model \in {[m \in Models |-> NoModel]}
       \cup {[m \in Models |-> IF \E i \in DOMAIN BuiltIn : BuiltIn[i] = m
                               THEN BuiltInRow(m = BuiltIn[1]) ELSE NoModel]}
  /\ editor = [a \in Editors |-> IdleEditor]
  /\ edits = 0
  /\ calm = TRUE

CatalogueNext ==
  \E a \in Editors :
    \/ BeginSeed(a)
    \/ \E m \in Models, r \in ModelInputs : BeginCreate(a, m, r) \/ BeginUpdate(a, m, r)
    \/ \E m \in Models : BeginSetDefault(a, m) \/ DeleteModel(a, m)
    \/ MarkNew(a) \/ Insert(a) \/ ReadModel(a)
    \/ ClearDefaultExcept(a) \/ UpdateModel(a)

CatalogueSpec == CatalogueInit /\ [][CatalogueNext]_catalogueVars

CatalogueTypeOK ==
  /\ model \in [Models -> ModelRow]
  /\ editor \in [Editors -> Editor]
  /\ edits \in 0..MaxEdits
  /\ calm \in BOOLEAN

\* Changes that come one by one, are not refused and do not take the default away
\* themselves leave a catalogue that is not empty with exactly one default model
\* (businessmodels/store.go:276, :314, :390).
DefaultIsKept ==
  calm /\ ~Empty /\ (\A a \in Editors : ~Busy(a)) =>
    \E m \in Models : IsThere(m) /\ {n \in Models : model[n].default} = {m}
=============================================================================
