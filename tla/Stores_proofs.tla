--------------------------- MODULE Stores_proofs ---------------------------
(***************************************************************************)
(* What is kept stays right, for any number of those who change it at one  *)
(* time: the versions of the schema (Migrations), the settings a check     *)
(* follows (RiskControl), the pictures of the server's conversations and   *)
(* of the page's history (Pictures), what a move or a sync copies (Copies), *)
(* and the catalogue a submission is resolved against (JobSubmission).     *)
(***************************************************************************)
EXTENDS Migrations, RiskControl, Pictures, Copies, JobSubmission, TLAPS,
        FiniteSetTheorems

-----------------------------------------------------------------------------
(***************************************************************************)
(* Any number of instances of any releases may start, fail, crash and      *)
(* start again: the versions that are there are always the first so many,  *)
(* in order, and who looks or applies has everything before.  That it also *)
(* has the lock ends with the first connection that is lost; what then     *)
(* refuses a version that is there is the transaction.                     *)
(***************************************************************************)

\* The versions are the first so many, and each ran in its turn.
InOrder ==
  /\ versions = 1..Len(schema)
  /\ \A i \in 1..Len(schema) : schema[i] = i

\* Who works holds the lock, or a connection was lost; what it has passed is there.
WorkIsOrdered ==
  \A s \in Starters :
    /\ starter[s].pc = "lock" => starter[s].at = 1
    /\ starter[s].pc \in {"look", "apply", "unlock"} => locked = s \/ dropped
    /\ starter[s].pc \in {"look", "apply"} =>
         starter[s].at >= 1 /\ starter[s].at <= Len(schema) + 1
    /\ starter[s].pc = "apply" =>
         /\ starter[s].at = Len(schema) + 1 \/ dropped
         /\ starter[s].at <= Shipped[s]
    /\ starter[s].pc \in {"unlock", "up"} => Shipped[s] <= Len(schema)
    /\ starter[s].pc = "refused" => dropped

MInv == MigrationsTypeOK /\ InOrder /\ WorkIsOrdered

-----------------------------------------------------------------------------

\* The invariant says what is promised.
LEMMA InvGivesOnce == MInv => MigrationsRunOnce
<1> SUFFICES ASSUME MInv PROVE MigrationsRunOnce OBVIOUS
<1>1. DOMAIN schema = 1..Len(schema) /\ Len(schema) \in Nat
  BY DEF MInv, MigrationsTypeOK
<1>2. ASSUME NEW s \in Starters
      PROVE  /\ StarterAt(s, "up") => 1..Shipped[s] \subseteq versions
             /\ StarterAt(s, "refused") => dropped
  <2>1. Shipped[s] \in Nat BY MigrationsAssumption
  <2> QED BY <1>1, <2>1 DEF MInv, InOrder, WorkIsOrdered, StarterAt
<1> QED BY <1>1, <1>2 DEF MInv, InOrder, MigrationsRunOnce

\* A database that is empty, or that an earlier release has left.
THEOREM MigrationsBegin == MigrationsInit => MInv
<1> SUFFICES ASSUME MigrationsInit PROVE MInv OBVIOUS
<1>1. PICK n \in 0..Max({Shipped[s] : s \in Starters}) : versions = 1..n
  BY DEF MigrationsInit
<1>2. n \in Nat BY <1>1
<1>3. Cardinality(versions) = n BY <1>1, <1>2, FS_Interval
<1>4. schema = [i \in 1..n |-> i] BY <1>3 DEF MigrationsInit
<1>5. schema \in Seq(Nat) /\ Len(schema) = n /\ \A i \in 1..n : schema[i] = i
  BY <1>2, <1>4
<1>6. MigrationsTypeOK
  <2>1. Down \in Starter BY DEF Down, Starter
  <2>2. starter \in [Starters -> Starter] BY <2>1 DEF MigrationsInit
  <2>3. restarts \in 0..MaxRestarts /\ dropped \in BOOLEAN /\ locked = Nobody
    <3>1. restarts = 0 /\ dropped = FALSE /\ locked = Nobody BY Zenon DEF MigrationsInit
    <3>2. 0 \in 0..MaxRestarts BY MigrationsAssumption
    <3> QED BY <3>1, <3>2
  <2>4. versions \subseteq Nat BY <1>1, <1>2
  <2> QED BY <1>5, <2>2, <2>3, <2>4 DEF MigrationsTypeOK
<1>7. InOrder BY <1>1, <1>5 DEF InOrder
<1>8. WorkIsOrdered BY DEF MigrationsInit, WorkIsOrdered, Down
<1> QED BY <1>6, <1>7, <1>8 DEF MInv

\* Every step keeps the invariant.
THEOREM MigrationsContinue == MInv /\ [MigrationsNext]_migrationVars => MInv'
<1> SUFFICES ASSUME MInv, [MigrationsNext]_migrationVars PROVE MInv' OBVIOUS
<1>0. Len(schema) \in Nat BY DEF MInv, MigrationsTypeOK
<1> USE MigrationsAssumption DEF MInv, StarterGoes, StarterAt
<1>1. ASSUME NEW s \in Starters, Start(s) PROVE MInv'
  <2>1. MigrationsTypeOK' BY <1>1 DEF Start, MigrationsTypeOK, Starter
  <2>2. InOrder' BY <1>1 DEF Start, InOrder
  <2>3. WorkIsOrdered' BY <1>1 DEF Start, WorkIsOrdered, MigrationsTypeOK
  <2> QED BY <2>1, <2>2, <2>3
<1>2. ASSUME NEW s \in Starters, Lock(s) PROVE MInv'
  <2>1. MigrationsTypeOK' BY <1>2 DEF Lock, LockMigrations, MigrationsTypeOK, Starter
  <2>2. InOrder' BY <1>2 DEF Lock, InOrder
  <2>3. WorkIsOrdered' BY <1>2 DEF Lock, LockMigrations, WorkIsOrdered, MigrationsTypeOK, Starter
  <2> QED BY <2>1, <2>2, <2>3
<1>3. ASSUME NEW s \in Starters, Look(s) PROVE MInv'
  <2>1. MigrationsTypeOK' BY <1>3 DEF Look, MigrationsTypeOK, Starter
  <2>2. InOrder' BY <1>3 DEF Look, InOrder
  <2>3. WorkIsOrdered' BY <1>0, <1>3 DEF Look, WorkIsOrdered, MigrationsTypeOK, Starter, InOrder
  <2> QED BY <2>1, <2>2, <2>3
<1>4. ASSUME NEW s \in Starters, Apply(s) PROVE MInv'
  <2> DEFINE n == starter[s].at
  <2>0. n \in Nat /\ n <= Len(schema) + 1 /\ n <= Shipped[s] /\ n >= 1
        /\ (locked = s \/ dropped) /\ (n = Len(schema) + 1 \/ dropped)
    BY <1>0, <1>4 DEF Apply, WorkIsOrdered, MigrationsTypeOK, Starter
  <2>a. CASE n \in versions
    <3>1. dropped BY <1>0, <2>0, <2>a DEF InOrder
    <3>2. /\ starter' = [starter EXCEPT ![s].pc = "refused"] /\ Unlocked(s)
          /\ UNCHANGED <<versions, schema, restarts, dropped>>
      BY <1>4, <2>a DEF Apply
    <3>3. MigrationsTypeOK' BY <3>2 DEF Unlocked, MigrationsTypeOK, Starter
    <3>4. InOrder' BY <3>2 DEF InOrder
    <3>5. WorkIsOrdered' BY <3>1, <3>2 DEF WorkIsOrdered, MigrationsTypeOK, Starter
    <3> QED BY <3>3, <3>4, <3>5
  <2>b. CASE n \notin versions
    <3>1. n = Len(schema) + 1 BY <1>0, <2>0, <2>b DEF InOrder
    <3>2. /\ versions' = versions \cup {n} /\ schema' = Append(schema, n)
          /\ starter' = [starter EXCEPT ![s] = [pc |-> "look", at |-> n + 1]]
          /\ UNCHANGED <<locked, restarts, dropped>>
      BY <1>4, <2>b DEF Apply
    <3> HIDE DEF n
    <3>3. Len(schema') = n /\ schema' \in Seq(Nat) /\ \A i \in 1..n : schema'[i] = i
      BY <1>0, <2>0, <3>1, <3>2 DEF MigrationsTypeOK, InOrder
    <3>4. MigrationsTypeOK'
      <4>1. [pc |-> "look", at |-> n + 1] \in Starter BY <2>0 DEF Starter
      <4>2. starter' \in [Starters -> Starter] BY <3>2, <4>1 DEF MigrationsTypeOK
      <4> QED BY <2>0, <3>2, <3>3, <4>2 DEF MigrationsTypeOK
    <3>5. InOrder' BY <1>0, <3>1, <3>2, <3>3 DEF InOrder
    <3>6. WorkIsOrdered'
      BY <1>0, <2>0, <3>1, <3>2, <3>3 DEF WorkIsOrdered, MigrationsTypeOK, Starter
    <3> QED BY <3>4, <3>5, <3>6
  <2> QED BY <2>a, <2>b
<1>5. ASSUME NEW s \in Starters, Unlock(s) PROVE MInv'
  <2>1. MigrationsTypeOK' BY <1>5 DEF Unlock, Unlocked, MigrationsTypeOK, Starter
  <2>2. InOrder' BY <1>5 DEF Unlock, InOrder
  <2>3. WorkIsOrdered' BY <1>5 DEF Unlock, Unlocked, WorkIsOrdered, MigrationsTypeOK, Starter
  <2> QED BY <2>1, <2>2, <2>3
<1>6. ASSUME NEW s \in Starters, CrashStarter(s) PROVE MInv'
  <2>1. MigrationsTypeOK' BY <1>6 DEF CrashStarter, Unlocked, MigrationsTypeOK, Starter, Down
  <2>2. InOrder' BY <1>6 DEF CrashStarter, InOrder
  <2>3. WorkIsOrdered' BY <1>6 DEF CrashStarter, Unlocked, WorkIsOrdered, MigrationsTypeOK, Starter, Down
  <2> QED BY <2>1, <2>2, <2>3
<1>8. ASSUME NEW s \in Starters, TimesOut(s) PROVE MInv'
  <2>1. MigrationsTypeOK' BY <1>8 DEF TimesOut, Unlocked, MigrationsTypeOK, Starter
  <2>2. InOrder' BY <1>8 DEF TimesOut, InOrder
  <2>3. WorkIsOrdered' BY <1>8 DEF TimesOut, Unlocked, WorkIsOrdered, MigrationsTypeOK, Starter
  <2> QED BY <2>1, <2>2, <2>3
<1>9. ASSUME NEW s \in Starters, DropConnection(s) PROVE MInv'
  <2>1. MigrationsTypeOK' BY <1>9 DEF DropConnection, MigrationsTypeOK
  <2>2. InOrder' BY <1>9 DEF DropConnection, InOrder
  <2>3. WorkIsOrdered' BY <1>9 DEF DropConnection, WorkIsOrdered
  <2> QED BY <2>1, <2>2, <2>3
<1>7. CASE UNCHANGED migrationVars
  BY <1>7 DEF migrationVars, MigrationsTypeOK, InOrder, WorkIsOrdered
<1> QED BY <1>1, <1>2, <1>3, <1>4, <1>5, <1>6, <1>7, <1>8, <1>9 DEF MigrationsNext

\* Lock, versions, tables and instances keep their types.
THEOREM MigrationTypes == MigrationsSpec => []MigrationsTypeOK
<1>1. MInv => MigrationsTypeOK BY DEF MInv
<1> QED BY <1>1, MigrationsBegin, MigrationsContinue, PTL DEF MigrationsSpec

\* However many instances of whatever releases start, run out of time, lose their
\* connection and crash, each migration runs once and in order and an instance that is up
\* finds its own (Apply); and none fails over a version that another has applied, unless
\* a connection that held the lock was lost (LockMigrations).
THEOREM OnceHolds == MigrationsSpec => []MigrationsRunOnce
BY InvGivesOnce, MigrationsBegin, MigrationsContinue, PTL DEF MigrationsSpec

-----------------------------------------------------------------------------
(* Risk control: a check that nobody disturbs sees one and the same        *)
(* settings at each of its steps.  The invariant says how far it has come  *)
(* with them: the mode is the last one that a policy read so far has set,  *)
(* and the moderators asked so far have failed.                            *)

\* What the policies before a scope make of the mode.
ModeUpTo(scope, mode) ==
  \/ (\A s \in Speaking : s >= scope) /\ mode = riskConfig.mode
  \/ \E s \in Speaking : /\ s < scope /\ mode = riskPolicy[s].mode
                         /\ \A t \in Speaking : t < scope => t <= s

HeardIn(v, answers) == {m \in Moderators : v.heard[m] \in answers}

\* What QuietChecksFollowPolicy says of a check that is over.
Decided(v) ==
  \/ /\ ~v.config.on /\ v.decision = "allow"
     /\ HeardIn(v, ModeratorAnswers) = HeardIn(v, {"none"})
  \/ /\ HeardIn(v, {"clean", "flagged"}) = {}
     /\ \A i \in DOMAIN v.config.chain : v.heard[v.config.chain[i]] = "failed"
     /\ v.decision = IF v.config.open THEN "allow" ELSE "error"
  \/ \E m \in HeardIn(v, {"clean", "flagged"}) :
       /\ HeardIn(v, {"clean", "flagged"}) = {m}
       /\ v.decision = "block" <=> EffectiveMode = "block" /\ v.heard[m] = "flagged"

CheckFits(v) ==
  /\ v.pc \in {"idle", "config", "policies"} => \A m \in Moderators : v.heard[m] = "none"
  /\ v.pc = "policies" => /\ v.scope \in 1..(Cardinality(Scopes) + 1)
                          /\ ModeUpTo(v.scope, v.config.mode)
  /\ v.pc = "moderate" =>
       /\ v.config.mode = EffectiveMode
       /\ \A m \in Moderators : v.heard[m] \in {"none", "failed"}
       /\ \A i \in DOMAIN v.config.chain :
            i < v.asked => v.heard[v.config.chain[i]] = "failed"
  /\ v.pc = "over" => Decided(v)

RInv ==
  /\ RiskControlTypeOK
  /\ \A c \in RiskChecks : riskCheck[c].pc = "moderate" => riskCheck[c].asked >= 1
  /\ \A c \in RiskChecks \ disturbed : CheckFits(riskCheck[c])

Check ==
  [pc: {"idle", "config", "policies", "moderate", "over"}, images: BOOLEAN,
   config: RiskConfigs, scope: Nat, asked: Nat,
   heard: [Moderators -> ModeratorAnswers],
   decision: {"none", "allow", "block", "error"}]

-----------------------------------------------------------------------------

LEMMA RiskTyped ==
  ASSUME RInv
  PROVE  /\ riskConfig \in RiskConfigs /\ riskPolicy \in [Scopes -> Policies]
         /\ riskCheck \in [RiskChecks -> Check] /\ riskChanges \in 0..MaxRiskChanges
         /\ disturbed \subseteq RiskChecks
         /\ riskEdit \in [RiskAdmins -> [of: Scopes \cup {0}, config: RiskConfigs,
                                         policy: Policies, open: BOOLEAN]]
         /\ \A c \in RiskChecks : riskCheck[c] \in Check /\ riskCheck[c].config \in RiskConfigs
         /\ \A a \in RiskAdmins : riskEdit[a].config \in RiskConfigs
<1> QED BY DEF RInv, RiskControlTypeOK, Check

\* Scopes are numbers.
LEMMA ScopesAreNumbers ==
  /\ Cardinality(Scopes) \in Nat /\ Scopes = 1..Cardinality(Scopes)
  /\ \A s \in Scopes : s \in Nat /\ s >= 1 /\ s <= Cardinality(Scopes)
<1>1. Cardinality(Scopes) \in Nat BY RiskControlAssumption, FS_CardinalityType
<1> QED BY <1>1, RiskControlAssumption

LEMMA PoliciesSay == \A p \in Policies : p.mode \in Modes \cup {""}
<1> SUFFICES ASSUME NEW p \in Policies PROVE p.mode \in Modes \cup {""} OBVIOUS
<1>1. CASE p = NoPolicy BY <1>1 DEF NoPolicy
<1>2. CASE p # NoPolicy
  <2>1. p \in [state: {"off", "on"}, mode: Modes \cup {""}] BY <1>2 DEF Policies
  <2> QED BY <2>1
<1> QED BY <1>1, <1>2

\* When all policies have been read, the mode is the effective one.
LEMMA AllRead ==
  ASSUME RInv, NEW scope \in Nat, scope > Cardinality(Scopes), NEW mode, ModeUpTo(scope, mode)
  PROVE  mode = EffectiveMode
<1>1. Speaking \subseteq Scopes BY DEF Speaking
<1>2. \A s \in Speaking : s \in Nat /\ s < scope BY <1>1, ScopesAreNumbers
<1>3. CASE Speaking = {} BY <1>3 DEF ModeUpTo, EffectiveMode
<1>4. CASE Speaking # {}
  <2>1. PICK s \in Speaking : mode = riskPolicy[s].mode /\ \A t \in Speaking : t <= s
    BY <1>2, <1>4 DEF ModeUpTo
  <2>2. ASSUME NEW r \in Speaking, \A t \in Speaking : t <= r PROVE r = s
    BY <1>2, <2>1, <2>2
  <2> DEFINE last == CHOOSE r \in Speaking : \A t \in Speaking : t <= r
  <2>3. EffectiveMode = riskPolicy[last].mode BY <1>4, Zenon DEF EffectiveMode
  <2>4. last \in Speaking /\ \A t \in Speaking : t <= last BY <2>1
  <2> HIDE DEF last
  <2> QED BY <2>1, <2>2, <2>3, <2>4
<1> QED BY <1>3, <1>4

\* A check goes on under settings that stay.
LEMMA CheckGoes ==
  ASSUME RInv, NEW c \in RiskChecks, NEW v \in Check, CheckBecomes(c, v),
         c \notin disturbed => CheckFits(v), v.pc = "moderate" => v.asked >= 1
  PROVE  RInv'
<1>1. /\ UNCHANGED <<riskConfig, riskPolicy, riskEdit, riskChanges, disturbed>>
      /\ riskCheck' = [riskCheck EXCEPT ![c] = v]
      /\ riskCheck \in [RiskChecks -> Check]
  BY RiskTyped DEF CheckBecomes, riskSettings
<1>2. /\ riskCheck'[c] = v /\ \A d \in RiskChecks : d # c => riskCheck'[d] = riskCheck[d]
      /\ riskCheck' \in [RiskChecks -> Check]
  BY <1>1
<1>3. RiskControlTypeOK' BY <1>1, <1>2 DEF RInv, RiskControlTypeOK, Check
<1>8. \A d \in RiskChecks : riskCheck'[d].pc = "moderate" => riskCheck'[d].asked >= 1
  BY <1>2 DEF RInv
<1>4. Speaking' = Speaking BY <1>1 DEF Speaking
<1>5. EffectiveMode' = EffectiveMode BY <1>1, <1>4 DEF EffectiveMode
<1>7. ASSUME NEW d \in RiskChecks \ disturbed' PROVE CheckFits(riskCheck[d])'
  <2>1. PICK w : w = riskCheck'[d] /\ CheckFits(w) BY <1>1, <1>2 DEF RInv
  <2>2. Decided(w) => Decided(riskCheck[d])' BY <1>5, <2>1 DEF Decided, HeardIn
  <2> QED BY <1>1, <1>4, <1>5, <2>1, <2>2 DEF CheckFits, ModeUpTo
<1> QED BY <1>3, <1>7, <1>8 DEF RInv

\* Whoever writes a setting disturbs every check that has begun.
LEMMA SettingsChange ==
  ASSUME RInv, NEW a \in RiskAdmins, SettingWritten(a),
         riskConfig' \in RiskConfigs, riskPolicy' \in [Scopes -> Policies]
  PROVE  RInv'
<1>1. /\ UNCHANGED riskCheck /\ riskChanges' = riskChanges + 1
      /\ riskChanges < MaxRiskChanges
      /\ disturbed' = disturbed \cup {c \in RiskChecks : riskCheck[c].pc # "idle"}
      /\ riskEdit' = [riskEdit EXCEPT ![a].open = FALSE]
  BY DEF SettingWritten
<1>2. riskChanges' \in 0..MaxRiskChanges
  <2>1. riskChanges \in 0..MaxRiskChanges /\ MaxRiskChanges \in Nat
    BY RiskTyped, RiskControlAssumption
  <2> QED BY <1>1, <2>1
<1>3. riskEdit' \in [RiskAdmins -> [of: Scopes \cup {0}, config: RiskConfigs,
                                    policy: Policies, open: BOOLEAN]]
  <2> HIDE DEF RiskConfigs, Policies
  <2> QED BY <1>1, RiskTyped
<1>4. RiskControlTypeOK' BY <1>1, <1>2, <1>3 DEF RInv, RiskControlTypeOK
<1>5. ASSUME NEW c \in RiskChecks \ disturbed' PROVE CheckFits(riskCheck[c])'
  <2>1. riskCheck[c].pc = "idle" /\ CheckFits(riskCheck[c]) BY <1>1 DEF RInv
  <2> QED BY <1>1, <2>1 DEF CheckFits
<1>6. \A c \in RiskChecks : riskCheck'[c].pc = "moderate" => riskCheck'[c].asked >= 1
  BY <1>1 DEF RInv
<1> QED BY <1>4, <1>5, <1>6 DEF RInv

LEMMA ReadSettingsSafe ==
  ASSUME RInv, NEW a \in RiskAdmins, NEW of \in Scopes \cup {0}, ReadSettings(a, of)
  PROVE  RInv'
<1>1. UNCHANGED <<riskConfig, riskPolicy, riskChanges, riskCheck, disturbed>>
  BY DEF ReadSettings
<1>2. (IF of = 0 THEN NoPolicy ELSE riskPolicy[of]) \in Policies
  <2>1. CASE of = 0 BY <2>1 DEF Policies
  <2>2. CASE of # 0 BY <2>2, RiskTyped
  <2> QED BY <2>1, <2>2
<1>3. riskEdit' \in [RiskAdmins -> [of: Scopes \cup {0}, config: RiskConfigs,
                                    policy: Policies, open: BOOLEAN]]
  <2> HIDE DEF RiskConfigs, Policies, NoPolicy
  <2> QED BY <1>2, RiskTyped DEF ReadSettings
<1>4. RiskControlTypeOK' BY <1>1, <1>3 DEF RInv, RiskControlTypeOK
<1>5. Speaking' = Speaking BY <1>1 DEF Speaking
<1>6. EffectiveMode' = EffectiveMode BY <1>1, <1>5 DEF EffectiveMode
<1>7. ASSUME NEW d \in RiskChecks \ disturbed' PROVE CheckFits(riskCheck[d])'
  <2>1. CheckFits(riskCheck[d]) BY <1>1 DEF RInv
  <2>2. Decided(riskCheck[d]) => Decided(riskCheck[d])' BY <1>1, <1>6 DEF Decided, HeardIn
  <2> QED BY <1>1, <1>5, <1>6, <2>1, <2>2 DEF CheckFits, ModeUpTo
<1>8. \A c \in RiskChecks : riskCheck'[c].pc = "moderate" => riskCheck'[c].asked >= 1
  BY <1>1 DEF RInv
<1> QED BY <1>4, <1>7, <1>8 DEF RInv

LEMMA SettingsWrittenSafe ==
  ASSUME RInv, NEW a \in RiskAdmins,
         WriteConfig(a) \/ WritePolicy(a) \/ \E s \in Scopes : DeletePolicy(a, s)
  PROVE  RInv'
<1>0. riskConfig \in RiskConfigs /\ riskPolicy \in [Scopes -> Policies] BY RiskTyped
<1>1. CASE WriteConfig(a)
  <2>1. riskEdit[a].config \in RiskConfigs BY RiskTyped
  <2> DEFINE conf == riskEdit[a].config
  <2> HIDE DEF conf
  <2>3. /\ [conf EXCEPT !.on = ~conf.on] \in RiskConfigs
        /\ [conf EXCEPT !.open = ~conf.open] \in RiskConfigs
        /\ \A m \in Modes : [conf EXCEPT !.mode = m] \in RiskConfigs
        /\ \A q \in Chains : [conf EXCEPT !.chain = q] \in RiskConfigs
        /\ \A m \in Moderators : /\ [conf EXCEPT !.keys = conf.keys \ {m}] \in RiskConfigs
                                 /\ [conf EXCEPT !.keys = conf.keys \cup {m}] \in RiskConfigs
    BY <2>1 DEF conf, RiskConfigs
  <2>2. riskConfig' \in RiskConfigs
    <3> HIDE DEF RiskConfigs
    <3> QED BY <1>1, <2>3 DEF WriteConfig, conf
  <2> QED BY <1>0, <1>1, <2>2, SettingsChange DEF WriteConfig
<1>2. CASE WritePolicy(a)
  <2>1. PICK state \in {"off", "on"}, mode \in Modes \cup {""} :
          riskPolicy' = [riskPolicy EXCEPT ![riskEdit[a].of] = [state |-> state, mode |-> mode]]
    BY <1>2 DEF WritePolicy
  <2>2. [state |-> state, mode |-> mode] \in Policies BY DEF Policies
  <2>3. riskPolicy' \in [Scopes -> Policies] BY <1>0, <2>1, <2>2
  <2> QED BY <1>0, <1>2, <2>3, SettingsChange DEF WritePolicy
<1>3. ASSUME NEW s \in Scopes, DeletePolicy(a, s) PROVE RInv'
  <2>1. NoPolicy \in Policies BY DEF Policies
  <2>2. riskPolicy' \in [Scopes -> Policies] BY <1>0, <1>3, <2>1 DEF DeletePolicy
  <2> QED BY <1>0, <1>3, <2>2, SettingsChange DEF DeletePolicy
<1> QED BY <1>1, <1>2, <1>3

LEMMA CheckBeginsSafe ==
  ASSUME RInv, NEW c \in RiskChecks, BeginCheck(c) \/ ReadConfig(c)
  PROVE  RInv'
<1>0. /\ riskCheck[c] \in Check /\ riskConfig \in RiskConfigs
      /\ c \notin disturbed => CheckFits(riskCheck[c])
  BY RiskTyped DEF RInv
<1>1. CASE BeginCheck(c)
  <2>1. PICK pics \in BOOLEAN :
          CheckBecomes(c, [riskCheck[c] EXCEPT !.pc = "config", !.images = pics])
    BY <1>1 DEF BeginCheck
  <2> DEFINE v == [riskCheck[c] EXCEPT !.pc = "config", !.images = pics]
  <2>2. v \in Check /\ v.pc = "config" /\ v.heard = riskCheck[c].heard BY <1>0 DEF Check
  <2> HIDE DEF v
  <2>3. c \notin disturbed => CheckFits(v) BY <1>0, <1>1, <2>2 DEF CheckFits, BeginCheck
  <2> QED BY <2>1, <2>2, <2>3, CheckGoes DEF v
<1>2. CASE ReadConfig(c)
  <2> DEFINE v == [riskCheck[c] EXCEPT !.pc = "policies", !.config = riskConfig, !.scope = 1]
  <2>1. /\ v \in Check /\ v.pc = "policies" /\ v.heard = riskCheck[c].heard
        /\ v.config = riskConfig /\ v.scope = 1
    BY <1>0 DEF Check
  <2>2. CheckBecomes(c, v) /\ riskCheck[c].pc = "config" BY <1>2 DEF ReadConfig
  <2> HIDE DEF v
  <2>3. ModeUpTo(v.scope, v.config.mode) BY <2>1, ScopesAreNumbers DEF ModeUpTo, Speaking
  <2>4. v.scope \in 1..(Cardinality(Scopes) + 1) BY <2>1, ScopesAreNumbers
  <2>5. c \notin disturbed => CheckFits(v) BY <1>0, <2>1, <2>2, <2>3, <2>4 DEF CheckFits
  <2> QED BY <2>1, <2>2, <2>5, CheckGoes
<1> QED BY <1>1, <1>2

\* One policy more is applied.
LEMMA PolicyApplied ==
  ASSUME RInv, NEW s \in Scopes, NEW conf \in RiskConfigs, ModeUpTo(s, conf.mode)
  PROVE  /\ Applied(conf, riskPolicy[s]) \in RiskConfigs
         /\ ModeUpTo(s + 1, Applied(conf, riskPolicy[s]).mode)
<1>0. riskPolicy[s] \in Policies /\ riskPolicy[s].mode \in Modes \cup {""}
  BY RiskTyped, PoliciesSay
<1>1. \A t \in Speaking : t \in Nat BY ScopesAreNumbers DEF Speaking
<1>2. s \in Nat BY ScopesAreNumbers
<1>3. CASE s \in Speaking
  <2>1. Applied(conf, riskPolicy[s]) = [conf EXCEPT !.mode = riskPolicy[s].mode]
    BY <1>3 DEF Applied, Speaking
  <2>2. /\ Applied(conf, riskPolicy[s]) \in RiskConfigs
        /\ Applied(conf, riskPolicy[s]).mode = riskPolicy[s].mode
    BY <1>0, <1>3, <2>1 DEF RiskConfigs, Speaking
  <2>3. \A t \in Speaking : t < s + 1 => t <= s BY <1>1, <1>2
  <2>4. s < s + 1 BY <1>2
  <2> QED BY <1>3, <2>2, <2>3, <2>4 DEF ModeUpTo
<1>4. CASE s \notin Speaking
  <2>1. Applied(conf, riskPolicy[s]) = conf BY <1>4 DEF Applied, Speaking
  <2>2. \A t \in Speaking : (t < s + 1 <=> t < s) /\ (t >= s + 1 <=> t >= s)
    BY <1>1, <1>2, <1>4
  <2> QED BY <2>1, <2>2 DEF ModeUpTo
<1> QED BY <1>3, <1>4

LEMMA ReadPolicySafe ==
  ASSUME RInv, NEW c \in RiskChecks, ReadPolicy(c)
  PROVE  RInv'
<1> DEFINE r == riskCheck[c]
<1>0. /\ r \in Check /\ r.pc = "policies" /\ (c \notin disturbed => CheckFits(r))
      /\ r.config \in RiskConfigs /\ r.scope \in Nat
  BY RiskTyped DEF RInv, ReadPolicy, Check
<1>1. CASE r.scope \in Scopes
  <2> DEFINE conf == Applied(r.config, riskPolicy[r.scope])
             v == [r EXCEPT !.config = conf, !.scope = r.scope + 1]
  <2>1. CheckBecomes(c, v) BY <1>1 DEF ReadPolicy
  <2>2. conf \in RiskConfigs
    <3>1. riskPolicy[r.scope] \in Policies /\ riskPolicy[r.scope].mode \in Modes \cup {""}
      BY <1>1, RiskTyped, PoliciesSay
    <3> QED BY <1>0, <3>1 DEF Applied, RiskConfigs
  <2> HIDE DEF conf, RiskConfigs
  <2>3. /\ v \in Check /\ v.pc = "policies" /\ v.heard = r.heard
        /\ v.config = conf /\ v.scope = r.scope + 1
    <3>1. r.scope + 1 \in Nat BY <1>0
    <3> QED BY <1>0, <2>2, <3>1 DEF Check
  <2> HIDE DEF v, r
  <2>4. c \notin disturbed => CheckFits(v)
    <3> SUFFICES ASSUME c \notin disturbed PROVE CheckFits(v) OBVIOUS
    <3>1. CheckFits(r) /\ ModeUpTo(r.scope, r.config.mode) BY <1>0 DEF CheckFits
    <3>2. ModeUpTo(v.scope, v.config.mode) BY <1>0, <1>1, <2>3, <3>1, PolicyApplied DEF conf
    <3>3. v.scope \in 1..(Cardinality(Scopes) + 1) BY <1>1, <2>3, ScopesAreNumbers
    <3> QED BY <1>0, <2>3, <3>1, <3>2, <3>3 DEF CheckFits
  <2> QED BY <2>1, <2>3, <2>4, CheckGoes
<1>2. CASE r.scope \notin Scopes /\ r.config.on
  <2> DEFINE v == [r EXCEPT !.pc = "moderate", !.asked = 1]
  <2>1. CheckBecomes(c, v) BY <1>2 DEF ReadPolicy
  <2>2. /\ v \in Check /\ v.pc = "moderate" /\ v.heard = r.heard
        /\ v.config = r.config /\ v.asked = 1
    BY <1>0 DEF Check
  <2> HIDE DEF v, r
  <2>3. c \notin disturbed => CheckFits(v)
    <3> SUFFICES ASSUME c \notin disturbed PROVE CheckFits(v) OBVIOUS
    <3>1. /\ ModeUpTo(r.scope, r.config.mode) /\ r.scope \in 1..(Cardinality(Scopes) + 1)
          /\ \A m \in Moderators : r.heard[m] = "none"
      BY <1>0 DEF CheckFits
    <3>2. r.scope > Cardinality(Scopes) BY <1>0, <1>2, <3>1, ScopesAreNumbers
    <3>3. r.config.mode = EffectiveMode BY <1>0, <3>1, <3>2, AllRead
    <3>4. v.config.chain \in Seq(Moderators)
      BY <2>2, <1>0, RiskControlAssumption DEF RiskConfigs
    <3>5. \A i \in DOMAIN v.config.chain : ~(i < v.asked) BY <2>2, <3>4
    <3> QED BY <2>2, <3>1, <3>3, <3>5 DEF CheckFits
  <2> QED BY <2>1, <2>2, <2>3, CheckGoes
<1>3. CASE r.scope \notin Scopes /\ ~r.config.on
  <2> DEFINE v == [r EXCEPT !.pc = "over", !.decision = "allow"]
  <2>1. CheckBecomes(c, v) BY <1>3 DEF ReadPolicy, Decides
  <2>2. /\ v \in Check /\ v.pc = "over" /\ v.heard = r.heard
        /\ v.config = r.config /\ v.decision = "allow"
    BY <1>0 DEF Check
  <2> HIDE DEF v, r
  <2>3. c \notin disturbed => CheckFits(v)
    <3> SUFFICES ASSUME c \notin disturbed PROVE CheckFits(v) OBVIOUS
    <3>1. \A m \in Moderators : v.heard[m] = "none" BY <1>0, <2>2 DEF CheckFits
    <3>2. HeardIn(v, ModeratorAnswers) = HeardIn(v, {"none"})
      BY <3>1 DEF HeardIn, ModeratorAnswers
    <3> QED BY <1>3, <2>2, <3>2 DEF CheckFits, Decided
  <2> QED BY <2>1, <2>2, <2>3, CheckGoes
<1> QED BY <1>1, <1>2, <1>3

\* A moderator that answers ends the check, and one that fails hands it on.
LEMMA HearsSafe ==
  ASSUME RInv, NEW c \in RiskChecks, riskCheck[c].pc = "moderate",
         riskCheck[c].asked \in DOMAIN riskCheck[c].config.chain,
         NEW m, m = riskCheck[c].config.chain[riskCheck[c].asked],
         NEW answer \in ModeratorAnswers \ {"none"}, Hears(c, m, answer)
  PROVE  RInv'
<1> DEFINE r == riskCheck[c]
           heard == [r.heard EXCEPT ![m] = answer]
<1>0. /\ r \in Check /\ (c \notin disturbed => CheckFits(r)) /\ r.config \in RiskConfigs
      /\ r.heard \in [Moderators -> ModeratorAnswers] /\ r.asked \in Nat
  BY RiskTyped DEF RInv, Check
<1>1. r.config.chain \in Seq(Moderators) BY <1>0, RiskControlAssumption DEF RiskConfigs
<1>2. m \in Moderators BY <1>1
<1>3. /\ heard \in [Moderators -> ModeratorAnswers] /\ heard[m] = answer
      /\ \A n \in Moderators : n # m => heard[n] = r.heard[n]
  BY <1>0, <1>2
<1>4. [r EXCEPT !.heard[m] = answer] = [r EXCEPT !.heard = heard] BY <1>0 DEF Check
<1>5. CASE answer = "failed"
  <2> DEFINE v == [r EXCEPT !.heard = heard, !.asked = r.asked + 1]
  <2>1. CheckBecomes(c, v)
    <3>1. CheckBecomes(c, [[r EXCEPT !.heard[m] = answer] EXCEPT
                             !.asked = [r EXCEPT !.heard[m] = answer].asked + 1])
      BY <1>5 DEF Hears
    <3> HIDE DEF heard
    <3>2. [[r EXCEPT !.heard = heard] EXCEPT
             !.asked = [r EXCEPT !.heard = heard].asked + 1] = v
      BY <1>0 DEF Check
    <3> QED BY <3>1, <3>2, <1>4
  <2> HIDE DEF heard
  <2>2. /\ v \in Check /\ v.pc = "moderate" /\ v.heard = heard /\ v.config = r.config
        /\ v.asked = r.asked + 1 /\ v.asked >= 1
    <3>1. r.asked + 1 \in Nat BY <1>0
    <3>2. v \in Check /\ v.asked = r.asked + 1 BY <1>0, <1>3, <3>1 DEF Check
    <3>3. r.asked + 1 >= 1 BY <1>0
    <3> QED BY <1>0, <3>2, <3>3 DEF Check
  <2> HIDE DEF v
  <2>3. c \notin disturbed => CheckFits(v)
    <3> SUFFICES ASSUME c \notin disturbed PROVE CheckFits(v) OBVIOUS
    <3>1. CheckFits(r) /\ r.pc = "moderate" BY <1>0
    <3> HIDE DEF r
    <3>2. \A n \in Moderators : v.heard[n] \in {"none", "failed"}
      BY <1>3, <1>5, <2>2, <3>1 DEF CheckFits
    <3>3. ASSUME NEW i \in DOMAIN v.config.chain, i < v.asked
          PROVE  v.heard[v.config.chain[i]] = "failed"
      <4>1. i \in Nat /\ r.config.chain[i] \in Moderators BY <1>1, <2>2
      <4>2. i < r.asked \/ i = r.asked BY <1>0, <2>2, <3>3, <4>1
      <4>3. CASE i = r.asked BY <4>3, <1>3, <1>5, <2>2 DEF r
      <4>4. CASE i < r.asked
        BY <4>1, <4>4, <1>3, <1>5, <2>2, <3>1 DEF CheckFits
      <4> QED BY <4>2, <4>3, <4>4
    <3> QED BY <2>2, <3>1, <3>2, <3>3 DEF CheckFits
  <2> QED BY <2>1, <2>2, <2>3, CheckGoes
<1>6. CASE answer # "failed"
  <2> DEFINE decision == IF answer = "flagged" /\ r.config.mode = "block"
                         THEN "block" ELSE "allow"
             v == [r EXCEPT !.heard = heard, !.pc = "over", !.decision = decision]
  <2>1. CheckBecomes(c, v)
    <3>1. CheckBecomes(c, [[r EXCEPT !.heard[m] = answer] EXCEPT !.pc = "over", !.decision =
                             IF answer = "flagged"
                                /\ [r EXCEPT !.heard[m] = answer].config.mode = "block"
                             THEN "block" ELSE "allow"])
      BY <1>6 DEF Hears
    <3> HIDE DEF heard
    <3>2. [[r EXCEPT !.heard = heard] EXCEPT !.pc = "over", !.decision =
             IF answer = "flagged" /\ [r EXCEPT !.heard = heard].config.mode = "block"
             THEN "block" ELSE "allow"] = v
      BY <1>0 DEF Check
    <3> QED BY <3>1, <3>2, <1>4
  <2> HIDE DEF heard
  <2>2. /\ v \in Check /\ v.pc = "over" /\ v.heard = heard /\ v.config = r.config
        /\ v.decision = decision
    BY <1>0, <1>3 DEF Check
  <2> HIDE DEF v
  <2>3. c \notin disturbed => CheckFits(v)
    <3> SUFFICES ASSUME c \notin disturbed PROVE CheckFits(v) OBVIOUS
    <3>1. /\ r.config.mode = EffectiveMode
          /\ \A n \in Moderators : r.heard[n] \in {"none", "failed"}
      BY <1>0 DEF CheckFits
    <3>2. answer \in {"clean", "flagged"} BY <1>6 DEF ModeratorAnswers
    <3>3. HeardIn(v, {"clean", "flagged"}) = {m}
      BY <1>2, <1>3, <2>2, <3>1, <3>2 DEF HeardIn
    <3>4. v.decision = "block" <=> EffectiveMode = "block" /\ v.heard[m] = "flagged"
      BY <1>3, <2>2, <3>1
    <3> QED BY <2>2, <3>3, <3>4 DEF CheckFits, Decided
  <2> QED BY <2>1, <2>2, <2>3, CheckGoes
<1> QED BY <1>5, <1>6

LEMMA ModerateSafe ==
  ASSUME RInv, NEW c \in RiskChecks, Moderate(c)
  PROVE  RInv'
<1> DEFINE r == riskCheck[c]
<1>0. /\ r \in Check /\ (c \notin disturbed => CheckFits(r)) /\ r.config \in RiskConfigs
      /\ r.asked \in Nat /\ r.pc = "moderate"
  BY RiskTyped DEF RInv, Check, Moderate
<1>1. r.config.chain \in Seq(Moderators) BY <1>0, RiskControlAssumption DEF RiskConfigs
<1>2. CASE /\ r.asked <= Len(r.config.chain)
           /\ \E answer \in ModeratorAnswers \ {"none"} :
                Hears(c, r.config.chain[r.asked], answer)
  <2>1. r.asked >= 1 BY <1>0 DEF RInv
  <2>2. r.asked \in DOMAIN r.config.chain BY <1>0, <1>1, <1>2, <2>1
  <2> QED BY <1>0, <1>2, <2>2, HearsSafe
<1>3. CASE /\ r.asked > Len(r.config.chain)
           /\ Decides(c, IF r.config.open THEN "allow" ELSE "error")
  <2> DEFINE decision == IF r.config.open THEN "allow" ELSE "error"
             v == [r EXCEPT !.pc = "over", !.decision = decision]
  <2>1. CheckBecomes(c, v) BY <1>3 DEF Decides
  <2>2. /\ v \in Check /\ v.pc = "over" /\ v.heard = r.heard /\ v.config = r.config
        /\ v.decision = decision
    BY <1>0 DEF Check
  <2> HIDE DEF v
  <2>3. c \notin disturbed => CheckFits(v)
    <3> SUFFICES ASSUME c \notin disturbed PROVE CheckFits(v) OBVIOUS
    <3>1. /\ \A n \in Moderators : r.heard[n] \in {"none", "failed"}
          /\ \A i \in DOMAIN r.config.chain :
               i < r.asked => r.heard[r.config.chain[i]] = "failed"
      BY <1>0 DEF CheckFits
    <3>2. HeardIn(v, {"clean", "flagged"}) = {} BY <2>2, <3>1 DEF HeardIn
    <3>3. \A i \in DOMAIN r.config.chain : i < r.asked BY <1>0, <1>1, <1>3
    <3> QED BY <2>2, <3>1, <3>2, <3>3 DEF CheckFits, Decided
  <2> QED BY <2>1, <2>2, <2>3, CheckGoes
<1> QED BY <1>2, <1>3 DEF Moderate

LEMMA CheckFailsSafe ==
  ASSUME RInv, NEW c \in RiskChecks, CheckFails(c)
  PROVE  RInv'
<1>1. /\ UNCHANGED <<riskConfig, riskPolicy, riskEdit, riskChanges>>
      /\ disturbed' = disturbed \cup {c} /\ riskCheck \in [RiskChecks -> Check]
      /\ riskCheck' = [riskCheck EXCEPT ![c].pc = "over", ![c].decision = "error"]
  BY RiskTyped DEF CheckFails, riskSettings
<1>2. /\ riskCheck' \in [RiskChecks -> Check] /\ riskCheck'[c].pc = "over"
      /\ \A d \in RiskChecks : d # c => riskCheck'[d] = riskCheck[d]
  <2> DEFINE v == [riskCheck[c] EXCEPT !.pc = "over", !.decision = "error"]
  <2>1. riskCheck' = [riskCheck EXCEPT ![c] = v] BY <1>1
  <2>2. v \in Check /\ v.pc = "over" BY RiskTyped DEF Check
  <2> HIDE DEF v
  <2> QED BY <1>1, <2>1, <2>2
<1>3. RiskControlTypeOK' BY <1>1, <1>2 DEF RInv, RiskControlTypeOK, Check
<1>4. Speaking' = Speaking BY <1>1 DEF Speaking
<1>5. EffectiveMode' = EffectiveMode BY <1>1, <1>4 DEF EffectiveMode
<1>6. ASSUME NEW d \in RiskChecks \ disturbed' PROVE CheckFits(riskCheck[d])'
  <2>1. CheckFits(riskCheck[d]) /\ riskCheck'[d] = riskCheck[d] BY <1>1 DEF RInv
  <2>2. Decided(riskCheck[d]) => Decided(riskCheck[d])' BY <2>1, <1>5 DEF Decided, HeardIn
  <2> QED BY <1>1, <1>4, <1>5, <2>1, <2>2 DEF CheckFits, ModeUpTo
<1>7. \A d \in RiskChecks : riskCheck'[d].pc = "moderate" => riskCheck'[d].asked >= 1
  BY <1>2 DEF RInv
<1> QED BY <1>3, <1>6, <1>7 DEF RInv

LEMMA RiskInitially == RiskControlInit => RInv
<1> SUFFICES ASSUME RiskControlInit PROVE RInv OBVIOUS
<1> USE DEF RiskControlInit
<1>1. riskConfig \in RiskConfigs OBVIOUS
<1>2. riskPolicy \in [Scopes -> Policies] BY DEF Policies
<1>3. riskChanges \in 0..MaxRiskChanges
  <2>1. riskChanges = 0 OBVIOUS
  <2> QED BY <2>1, RiskControlAssumption
<1>4. NoPolicy \in Policies BY DEF Policies
<1>5. riskEdit \in [RiskAdmins -> [of: Scopes \cup {0}, config: RiskConfigs,
                                   policy: Policies, open: BOOLEAN]]
  <2> HIDE DEF RiskConfigs, Policies, NoPolicy
  <2> QED BY <1>1, <1>4 DEF NoEdit
<1>6. /\ riskCheck \in [RiskChecks -> Check]
      /\ \A c \in RiskChecks : riskCheck[c].pc = "idle"
                               /\ \A m \in Moderators : riskCheck[c].heard[m] = "none"
  <2> HIDE DEF RiskConfigs
  <2> QED BY <1>1 DEF Check, ModeratorAnswers
<1>7. RiskControlTypeOK BY <1>1, <1>2, <1>3, <1>5, <1>6 DEF RiskControlTypeOK, Check
<1> QED BY <1>6, <1>7 DEF RInv, CheckFits

LEMMA RiskSteps == RInv /\ [RiskControlNext]_riskVars => RInv'
<1> SUFFICES ASSUME RInv, [RiskControlNext]_riskVars PROVE RInv' OBVIOUS
<1>1. CASE UNCHANGED riskVars
  <2>1. UNCHANGED <<riskConfig, riskPolicy, riskEdit, riskChanges, riskCheck, disturbed>>
    BY <1>1 DEF riskVars, riskSettings
  <2>2. RiskControlTypeOK' BY <2>1 DEF RInv, RiskControlTypeOK
  <2>3. Speaking' = Speaking BY <2>1 DEF Speaking
  <2>4. EffectiveMode' = EffectiveMode BY <2>1, <2>3 DEF EffectiveMode
  <2>5. ASSUME NEW d \in RiskChecks \ disturbed' PROVE CheckFits(riskCheck[d])'
    <3>1. CheckFits(riskCheck[d]) BY <2>1 DEF RInv
    <3>2. Decided(riskCheck[d]) => Decided(riskCheck[d])' BY <2>1, <2>4 DEF Decided, HeardIn
    <3> QED BY <2>1, <2>3, <2>4, <3>1, <3>2 DEF CheckFits, ModeUpTo
  <2>6. \A c \in RiskChecks : riskCheck'[c].pc = "moderate" => riskCheck'[c].asked >= 1
    BY <2>1 DEF RInv
  <2> QED BY <2>2, <2>5, <2>6 DEF RInv
<1>2. CASE RiskControlNext
  <2> HIDE DEF RInv
  <2> QED BY <1>2, ReadSettingsSafe, SettingsWrittenSafe, CheckBeginsSafe, ReadPolicySafe,
             ModerateSafe, CheckFailsSafe DEF RiskControlNext
<1> QED BY <1>1, <1>2

THEOREM RiskControlTypes == RiskControlSpec => []RiskControlTypeOK
<1>1. RInv => RiskControlTypeOK BY DEF RInv
<1> QED BY RiskInitially, RiskSteps, <1>1, PTL DEF RiskControlSpec

THEOREM QuietChecksAreRight == RiskControlSpec => []QuietChecksFollowPolicy
<1>1. RInv => QuietChecksFollowPolicy
  BY DEF RInv, CheckFits, Decided, HeardIn, QuietChecksFollowPolicy, HeardBy
<1> QED BY RiskInitially, RiskSteps, <1>1, PTL DEF RiskControlSpec

-----------------------------------------------------------------------------
(* The history of the images page: a picture that is missing was saved and *)
(* cleaned up at one time.  What is to be removed is referred to by nobody *)
(* when it is listed, so only a save that goes on meanwhile refers to it   *)
(* again; and that save has it among its pictures all the time.            *)

\* A save has all pictures that it does not still have to write.
SavesFindTheirs ==
  \A k \in Keepers : keeper[k].pc = "write" =>
    keeper[k].pics \ keeper[k].left \subseteq file \cup crossedFiles

\* What is to be removed is nobody's.
RemovalsAreOfNobodys ==
  \A k \in Keepers : keeper[k].pc = "remove" =>
    keeper[k].pics \cap ReferencedFiles \subseteq crossedFiles

CrossingsAreSeen ==
  \A k, l \in Keepers, p \in Contents :
    Saving(keeper[k], p) /\ CleaningUp(keeper[l], p) => p \in crossedFiles

HInv == /\ HistoryTypeOK /\ SavesFindTheirs /\ RemovalsAreOfNobodys /\ CrossingsAreSeen
        /\ HistoryKeepsPictures

-----------------------------------------------------------------------------

LEMMA IdleKeeperTyped ==
  IdleKeeper \in Keeper /\ IdleKeeper.pc = "idle" /\ IdleKeeper.then = {}
<1>1. (CHOOSE c \in HistoryIds : TRUE) \in HistoryIds BY ImageHistoryAssumption
<1> QED BY <1>1 DEF IdleKeeper, Keeper

LEMMA HistoryTyped ==
  ASSUME HInv
  PROVE  /\ chat \in [HistoryIds -> Chat] /\ keeper \in [Keepers -> Keeper]
         /\ file \subseteq Contents /\ crossedFiles \subseteq Contents
         /\ historyChanges \in 0..MaxHistoryChanges
         /\ \A k \in Keepers :
              /\ keeper[k] \in Keeper /\ keeper[k].pics \subseteq Contents
              /\ keeper[k].left \subseteq Contents /\ keeper[k].then \subseteq HistoryIds
              /\ keeper[k].id \in HistoryIds
         /\ \A c \in HistoryIds : chat[c] \in Chat /\ chat[c].pics \subseteq Contents
         /\ ReferencedFiles \subseteq Contents
<1>1. HistoryTypeOK BY DEF HInv
<1>2. \A r \in Keeper : /\ r.pics \subseteq Contents /\ r.left \subseteq Contents
                        /\ r.then \subseteq HistoryIds /\ r.id \in HistoryIds
  BY DEF Keeper
<1>3. \A r \in Chat : r.pics \subseteq Contents BY DEF Chat
<1>4. /\ \A k \in Keepers : keeper[k] \in Keeper
      /\ \A c \in HistoryIds : chat[c] \in Chat
  BY <1>1 DEF HistoryTypeOK
<1>5. ReferencedFiles \subseteq Contents BY <1>3, <1>4 DEF ReferencedFiles
<1> QED BY <1>1, <1>2, <1>3, <1>4, <1>5 DEF HistoryTypeOK

\* What each step is, for the invariant: one keeper goes on, and what chat and file
\* become.  The crossings are recorded by the step itself.
LEMMA KeeperMoves ==
  ASSUME HInv, NEW k \in Keepers, NEW v \in Keeper, KeeperGoes(k, v),
         chat' \in [HistoryIds -> Chat], file' \subseteq Contents,
         historyChanges' \in 0..MaxHistoryChanges,
         crossedFiles' = crossedFiles \cup
           {p \in Contents : \E j, l \in Keepers :
              Saving(keeper'[j], p) /\ CleaningUp(keeper'[l], p)},
         \* pictures go only where a removal has them
         \A p \in file \ file' : keeper[k].pc = "remove" /\ p \in keeper[k].pics,
         \* pictures that are referred to anew were saved
         \A c \in HistoryIds : chat'[c].pics \subseteq chat[c].pics
           \/ /\ keeper[k].pc = "write" /\ keeper[k].left = {}
              /\ chat'[c].pics = keeper[k].pics,
         v.pc = "write" => v.pics \ v.left \subseteq file' \cup crossedFiles,
         v.pc = "remove" =>
           /\ chat' = chat
           /\ \/ v.pics \cap ReferencedFiles = {}
              \/ keeper[k].pc = "remove" /\ v.pics \subseteq keeper[k].pics
  PROVE  HInv'
<1>0. /\ keeper \in [Keepers -> Keeper] /\ v.pics \subseteq Contents
      /\ keeper'[k] = v /\ \A l \in Keepers : l # k => keeper'[l] = keeper[l]
  BY HistoryTyped DEF KeeperGoes, Keeper
<1>1. HistoryTypeOK'
  BY <1>0, HistoryTyped DEF HistoryTypeOK, KeeperGoes
<1>2. crossedFiles \subseteq crossedFiles' OBVIOUS
<1>3. CrossingsAreSeen' BY DEF CrossingsAreSeen
\* a picture that is removed and was saved has been seen to cross
<1>4. ASSUME NEW p \in file \ file', NEW l \in Keepers, keeper[l].pc = "write",
             p \in keeper[l].pics
      PROVE  p \in crossedFiles
  <2>1. p \in Contents BY HistoryTyped
  <2>2. Saving(keeper[l], p) /\ CleaningUp(keeper[k], p) BY <1>4 DEF Saving, CleaningUp
  <2> QED BY <2>1, <2>2 DEF HInv, CrossingsAreSeen
<1>5. SavesFindTheirs'
  <2> SUFFICES ASSUME NEW l \in Keepers, keeper'[l].pc = "write",
                      NEW p \in keeper'[l].pics \ keeper'[l].left
               PROVE  p \in file' \cup crossedFiles'
    BY DEF SavesFindTheirs
  <2>1. CASE l = k BY <2>1, <1>0, <1>2
  <2>2. CASE l # k
    <3>1. keeper'[l] = keeper[l] BY <2>2, <1>0
    <3>2. p \in file \cup crossedFiles BY <3>1 DEF HInv, SavesFindTheirs
    <3>3. CASE p \in crossedFiles BY <3>3, <1>2
    <3>4. CASE p \in file /\ p \notin file' BY <3>1, <3>4, <1>4, <1>2
    <3> QED BY <3>2, <3>3, <3>4
  <2> QED BY <2>1, <2>2
<1>6. ReferencedFiles' \subseteq ReferencedFiles \cup
        IF keeper[k].pc = "write" THEN keeper[k].pics ELSE {}
  <2> SUFFICES ASSUME NEW c \in HistoryIds, NEW p \in chat'[c].pics
               PROVE  p \in ReferencedFiles \cup
                              IF keeper[k].pc = "write" THEN keeper[k].pics ELSE {}
    BY DEF ReferencedFiles
  <2> QED BY DEF ReferencedFiles
<1>7. RemovalsAreOfNobodys'
  <2> SUFFICES ASSUME NEW l \in Keepers, keeper'[l].pc = "remove",
                      NEW p \in keeper'[l].pics, p \in ReferencedFiles'
               PROVE  p \in crossedFiles'
    BY DEF RemovalsAreOfNobodys
  <2>1. CASE l = k
    <3>1. ReferencedFiles' = ReferencedFiles BY <2>1, <1>0 DEF ReferencedFiles
    <3>2. keeper[k].pc = "remove" /\ p \in keeper[k].pics BY <2>1, <1>0, <3>1
    <3> QED BY <3>1, <3>2, <1>2 DEF HInv, RemovalsAreOfNobodys
  <2>2. CASE l # k
    <3>1. keeper'[l] = keeper[l] BY <2>2, <1>0
    <3>2. CASE p \in ReferencedFiles BY <3>1, <3>2, <1>2 DEF HInv, RemovalsAreOfNobodys
    <3>3. CASE keeper[k].pc = "write" /\ p \in keeper[k].pics
      <4>1. p \in Contents /\ Saving(keeper[k], p) /\ CleaningUp(keeper[l], p)
        BY <3>1, <3>3, HistoryTyped DEF Saving, CleaningUp
      <4> QED BY <4>1, <1>2 DEF HInv, CrossingsAreSeen
    <3> QED BY <1>6, <3>2, <3>3
  <2> QED BY <2>1, <2>2
<1>8. HistoryKeepsPictures'
  <2> SUFFICES ASSUME NEW c \in HistoryIds, NEW p \in chat'[c].pics
               PROVE  p \in file' \cup crossedFiles'
    BY DEF HistoryKeepsPictures
  <2>1. p \in file \cup crossedFiles
    <3>1. CASE p \in chat[c].pics BY <3>1 DEF HInv, HistoryKeepsPictures
    <3>2. CASE keeper[k].pc = "write" /\ keeper[k].left = {} /\ p \in keeper[k].pics
      BY <3>2 DEF HInv, SavesFindTheirs
    <3> QED BY <3>1, <3>2
  <2>2. CASE p \in crossedFiles BY <2>2, <1>2
  <2>3. CASE p \in file /\ p \notin file'
    <3>1. keeper[k].pc = "remove" /\ p \in keeper[k].pics BY <2>3
    <3>2. p \in ReferencedFiles BY <3>1 DEF ReferencedFiles
    <3> QED BY <3>1, <3>2, <1>2 DEF HInv, RemovalsAreOfNobodys
  <2> QED BY <2>1, <2>2, <2>3
<1> QED BY <1>1, <1>3, <1>5, <1>7, <1>8 DEF HInv

\* The crossings that a step records.
Recorded ==
  crossedFiles' = crossedFiles \cup
    {p \in Contents : \E j, l \in Keepers :
       Saving(keeper'[j], p) /\ CleaningUp(keeper'[l], p)}

LEMMA BeginsSafe ==
  ASSUME HInv, Recorded, NEW k \in Keepers,
         \/ \E c \in HistoryIds, new, old \in SUBSET Contents : BeginSaveChat(k, c, new, old)
         \/ \E c \in HistoryIds : BeginDelete(k, c)
         \/ \E then \in SUBSET HistoryIds, pics \in SUBSET Contents : BeginClear(k, then, pics)
  PROVE  HInv'
<1>0. /\ UNCHANGED <<chat, file>> /\ keeper[k].pc = "idle"
      /\ historyChanges' = historyChanges + 1 /\ historyChanges < MaxHistoryChanges
  BY DEF BeginSaveChat, BeginDelete, BeginClear, Begin, IsAt
<1>1. historyChanges' \in 0..MaxHistoryChanges
  <2>1. historyChanges \in 0..MaxHistoryChanges BY HistoryTyped
  <2> QED BY <1>0, <2>1, ImageHistoryAssumption
<1>2. chat \in [HistoryIds -> Chat] /\ file \subseteq Contents BY HistoryTyped
<1>3. ASSUME NEW c \in HistoryIds, NEW new \in SUBSET Contents, NEW old \in SUBSET Contents,
             BeginSaveChat(k, c, new, old)
      PROVE  HInv'
  <2> DEFINE v == [IdleKeeper EXCEPT !.pc = "write", !.id = c, !.left = new,
                                     !.pics = new \cup old]
  <2>1. KeeperGoes(k, v) /\ old \subseteq file BY <1>3 DEF BeginSaveChat
  <2>2. v \in Keeper /\ v.pc = "write" /\ v.pics \ v.left \subseteq old
    <3> HIDE DEF IdleKeeper
    <3> QED BY IdleKeeperTyped DEF Keeper
  <2> HIDE DEF v
  <2> QED BY <1>0, <1>1, <1>2, <2>1, <2>2, KeeperMoves DEF Recorded
<1>4. ASSUME NEW v \in Keeper, KeeperGoes(k, v), v.pc \in {"idle", "delete", "clear"}
      PROVE  HInv'
  BY <1>0, <1>1, <1>2, <1>4, KeeperMoves DEF Recorded
<1>5. ASSUME NEW c \in HistoryIds, BeginDelete(k, c) PROVE HInv'
  <2> DEFINE v == [IdleKeeper EXCEPT !.pc = "delete", !.id = c, !.pics = chat[c].pics]
  <2>1. v \in Keeper /\ v.pc = "delete"
    <3>1. chat[c].pics \subseteq Contents BY HistoryTyped
    <3> HIDE DEF IdleKeeper
    <3> QED BY <3>1, IdleKeeperTyped DEF Keeper
  <2>2. KeeperGoes(k, v) \/ KeeperGoes(k, IdleKeeper) BY <1>5 DEF BeginDelete, KeeperGoes
  <2> HIDE DEF v
  <2> QED BY <2>1, <2>2, <1>4, IdleKeeperTyped
<1>6. ASSUME NEW then \in SUBSET HistoryIds, NEW pics \in SUBSET Contents,
             BeginClear(k, then, pics)
      PROVE  HInv'
  <2> DEFINE v == [IdleKeeper EXCEPT !.pc = "clear", !.pics = ReferencedFiles,
                                     !.then = then, !.left = pics]
  <2>1. v \in Keeper /\ v.pc = "clear"
    <3>1. ReferencedFiles \in SUBSET Contents BY HistoryTyped
    <3> HIDE DEF IdleKeeper, ReferencedFiles
    <3> QED BY <3>1, IdleKeeperTyped DEF Keeper
  <2>2. KeeperGoes(k, v) BY <1>6 DEF BeginClear
  <2> HIDE DEF v
  <2> QED BY <2>1, <2>2, <1>4
<1> QED BY <1>3, <1>5, <1>6

LEMMA WriteAssetSafe ==
  ASSUME HInv, Recorded, NEW k \in Keepers, NEW p \in Contents, WriteAsset(k, p)
  PROVE  HInv'
<1>0. /\ UNCHANGED <<chat, historyChanges>> /\ file' = file \cup {p}
      /\ chat \in [HistoryIds -> Chat] /\ file' \subseteq Contents
      /\ historyChanges \in 0..MaxHistoryChanges
      /\ keeper[k] \in Keeper /\ keeper[k].pc = "write"
  BY HistoryTyped DEF WriteAsset, IsAt
<1>1. CASE KeeperGoes(k, IdleKeeper)
  <2> HIDE DEF IdleKeeper
  <2> QED BY <1>0, <1>1, IdleKeeperTyped, KeeperMoves DEF Recorded
<1> DEFINE left == keeper[k].left \ {p}
           v == [keeper[k] EXCEPT !.left = left]
<1>2. CASE KeeperGoes(k, v)
  <2>1. /\ v \in Keeper /\ v.pc = "write" /\ v.pics = keeper[k].pics
        /\ v.left = keeper[k].left \ {p}
    BY <1>0 DEF Keeper
  <2> HIDE DEF v
  <2>2. v.pics \ v.left \subseteq file' \cup crossedFiles
    BY <1>0, <2>1 DEF HInv, SavesFindTheirs
  <2> QED BY <1>0, <1>2, <2>1, <2>2, KeeperMoves DEF Recorded
<1> QED BY <1>1, <1>2 DEF WriteAsset

LEMMA SaveChatSafe ==
  ASSUME HInv, Recorded, NEW k \in Keepers, SaveChat(k)
  PROVE  HInv'
<1> DEFINE r == keeper[k]
<1>0. /\ UNCHANGED <<file, historyChanges>> /\ r.pc = "write" /\ r.left = {}
      /\ chat \in [HistoryIds -> Chat] /\ file \subseteq Contents
      /\ historyChanges \in 0..MaxHistoryChanges
      /\ r \in Keeper /\ r.pics \subseteq Contents /\ r.then \subseteq HistoryIds
      /\ chat' = [chat EXCEPT ![r.id] = [there |-> TRUE, pics |-> r.pics]]
  BY HistoryTyped DEF SaveChat, IsAt
<1>1. [there |-> TRUE, pics |-> r.pics] \in Chat BY <1>0 DEF Chat
<1>2. /\ chat' \in [HistoryIds -> Chat]
      /\ \A c \in HistoryIds : chat'[c] = chat[c] \/ chat'[c].pics = r.pics
  BY <1>0, <1>1
<1>3. CASE KeeperGoes(k, IdleKeeper)
  <2> HIDE DEF IdleKeeper
  <2> QED BY <1>0, <1>2, <1>3, IdleKeeperTyped, KeeperMoves DEF Recorded
<1>4. ASSUME NEW c \in r.then,
             KeeperGoes(k, [r EXCEPT !.id = c, !.left = r.pics, !.then = @ \ {c}])
      PROVE  HInv'
  <2> DEFINE v == [r EXCEPT !.id = c, !.left = r.pics, !.then = r.then \ {c}]
  <2>1. KeeperGoes(k, v) BY <1>4
  <2>2. v \in Keeper /\ v.pc = "write" /\ v.pics \ v.left = {} BY <1>0 DEF Keeper
  <2> HIDE DEF v
  <2> QED BY <1>0, <1>2, <2>1, <2>2, KeeperMoves DEF Recorded
<1> QED BY <1>3, <1>4 DEF SaveChat

\* Conversations go.
LEMMA ChatsGoSafe ==
  ASSUME HInv, Recorded, NEW k \in Keepers,
         DeleteChat(k) \/ ClearRest(k) \/ \E c \in HistoryIds : ClearOne(k, c)
  PROVE  HInv'
<1>0. /\ UNCHANGED <<file, historyChanges>> /\ keeper[k].pc \in {"delete", "clear"}
      /\ chat \in [HistoryIds -> Chat] /\ file \subseteq Contents
      /\ historyChanges \in 0..MaxHistoryChanges
      /\ keeper[k] \in Keeper /\ keeper \in [Keepers -> Keeper]
  BY HistoryTyped DEF DeleteChat, ClearRest, ClearOne, IsAt
<1>1. NoChat \in Chat /\ NoChat.pics = {} BY DEF Chat, NoChat
<1>2. /\ chat' \in [HistoryIds -> Chat]
      /\ \A c \in HistoryIds : chat'[c] = chat[c] \/ chat'[c].pics = {}
  <2> HIDE DEF NoChat, Chat
  <2> QED BY <1>0, <1>1 DEF DeleteChat, ClearRest, ClearOne
<1>3. PICK pc \in {"clear", "list"} : KeeperGoes(k, [keeper[k] EXCEPT !.pc = pc])
  <2>1. CASE DeleteChat(k) \/ ClearRest(k) BY <2>1 DEF DeleteChat, ClearRest
  <2>2. ASSUME NEW c \in HistoryIds, ClearOne(k, c)
        PROVE  KeeperGoes(k, [keeper[k] EXCEPT !.pc = "clear"])
    <3>1. keeper[k].pc = "clear" /\ keeper' = keeper BY <2>2 DEF ClearOne, IsAt
    <3>2. [keeper[k] EXCEPT !.pc = "clear"] = keeper[k] BY <1>0, <3>1 DEF Keeper
    <3> QED BY <1>0, <3>1, <3>2 DEF KeeperGoes
  <2> QED BY <2>1, <2>2
<1> DEFINE v == [keeper[k] EXCEPT !.pc = pc]
<1>4. v \in Keeper /\ v.pc = pc BY <1>0 DEF Keeper
<1> HIDE DEF v
<1> QED BY <1>0, <1>2, <1>3, <1>4, KeeperMoves DEF Recorded, v

LEMMA CleanupSafe ==
  ASSUME HInv, Recorded, NEW k \in Keepers,
         ListRemaining(k) \/ EndCleanup(k) \/ \E p \in Contents : RemoveHistoryFile(k, p)
  PROVE  HInv'
<1> DEFINE r == keeper[k]
<1>0. /\ UNCHANGED <<chat, historyChanges>> /\ file' \subseteq file
      /\ chat \in [HistoryIds -> Chat] /\ file \subseteq Contents
      /\ historyChanges \in 0..MaxHistoryChanges
      /\ r \in Keeper /\ r.pics \subseteq Contents /\ r.then \subseteq HistoryIds
      /\ r.left \subseteq Contents
  BY HistoryTyped DEF ListRemaining, EndCleanup, RemoveHistoryFile
<1>1. CASE ListRemaining(k)
  <2> DEFINE v == [r EXCEPT !.pc = "remove", !.pics = Unreferenced(k)]
  <2>1. KeeperGoes(k, v) /\ UNCHANGED file BY <1>1 DEF ListRemaining
  <2>2. Unreferenced(k) \subseteq Contents /\ Unreferenced(k) \cap ReferencedFiles = {}
    BY <1>0 DEF Unreferenced
  <2>3. v \in Keeper /\ v.pc = "remove" /\ v.pics = Unreferenced(k) BY <1>0, <2>2 DEF Keeper
  <2> HIDE DEF v
  <2> QED BY <1>0, <2>1, <2>2, <2>3, KeeperMoves DEF Recorded
<1>2. ASSUME NEW p \in Contents, RemoveHistoryFile(k, p) PROVE HInv'
  <2> DEFINE v == [r EXCEPT !.pics = r.pics \ {p}]
  <2>1. KeeperGoes(k, v) /\ file' = file \ {p} /\ r.pc = "remove" /\ p \in r.pics
    BY <1>2 DEF RemoveHistoryFile, IsAt
  <2>2. v \in Keeper /\ v.pc = "remove" /\ v.pics \subseteq r.pics BY <1>0, <2>1 DEF Keeper
  <2> HIDE DEF v
  <2> QED BY <1>0, <2>1, <2>2, KeeperMoves DEF Recorded
<1>3. CASE EndCleanup(k)
  <2>0. UNCHANGED file BY <1>3 DEF EndCleanup
  <2>1. CASE KeeperGoes(k, IdleKeeper)
    <3> HIDE DEF IdleKeeper
    <3> QED BY <1>0, <2>0, <2>1, IdleKeeperTyped, KeeperMoves DEF Recorded
  <2>2. ASSUME NEW c \in r.then,
               KeeperGoes(k, [r EXCEPT !.pc = "write", !.id = c, !.pics = r.left,
                                       !.then = @ \ {c}])
        PROVE  HInv'
    <3> DEFINE v == [r EXCEPT !.pc = "write", !.id = c, !.pics = r.left,
                              !.then = r.then \ {c}]
    <3>1. KeeperGoes(k, v) BY <2>2
    <3>2. v \in Keeper /\ v.pc = "write" /\ v.pics \ v.left = {} BY <1>0 DEF Keeper
    <3> HIDE DEF v
    <3> QED BY <1>0, <2>0, <3>1, <3>2, KeeperMoves DEF Recorded
  <2> QED BY <1>3, <2>1, <2>2 DEF EndCleanup
<1> QED BY <1>1, <1>2, <1>3

-----------------------------------------------------------------------------

LEMMA HistoryInitially == HistoryInit => HInv
<1> SUFFICES ASSUME HistoryInit PROVE HInv OBVIOUS
<1> USE DEF HistoryInit
<1>1. /\ \A c \in HistoryIds : chat[c] = NoChat
      /\ \A k \in Keepers : keeper[k] = IdleKeeper
  OBVIOUS
<1>2. NoChat \in Chat /\ NoChat.pics = {} BY DEF Chat, NoChat
<1>3. historyChanges \in 0..MaxHistoryChanges
  <2>1. historyChanges = 0 OBVIOUS
  <2> QED BY <2>1, ImageHistoryAssumption
<1> HIDE DEF NoChat, Chat, IdleKeeper, Keeper
<1>4. HistoryTypeOK BY <1>2, <1>3, IdleKeeperTyped DEF HistoryTypeOK
<1>5. SavesFindTheirs /\ RemovalsAreOfNobodys /\ CrossingsAreSeen
  BY <1>1, IdleKeeperTyped
  DEF SavesFindTheirs, RemovalsAreOfNobodys, CrossingsAreSeen, Saving
<1>6. HistoryKeepsPictures BY <1>1, <1>2 DEF HistoryKeepsPictures
<1> QED BY <1>4, <1>5, <1>6 DEF HInv

LEMMA HistorySteps == HInv /\ [HistoryNext]_historyVars => HInv'
<1> SUFFICES ASSUME HInv, [HistoryNext]_historyVars PROVE HInv' OBVIOUS
<1>1. CASE UNCHANGED historyVars
  BY <1>1 DEF historyVars, HInv, HistoryTypeOK, SavesFindTheirs, RemovalsAreOfNobodys,
              ReferencedFiles, CrossingsAreSeen, Saving, CleaningUp, HistoryKeepsPictures
<1>2. CASE HistoryNext
  <2>0. HistoryStep /\ Recorded BY <1>2 DEF HistoryNext, Recorded
  <2>1. {} \in SUBSET HistoryIds /\ {} \in SUBSET Contents OBVIOUS
  <2> HIDE DEF HInv, Recorded
  <2> QED BY <2>0, <2>1, BeginsSafe, WriteAssetSafe, SaveChatSafe, ChatsGoSafe, CleanupSafe
          DEF HistoryStep
<1> QED BY <1>1, <1>2

THEOREM HistoryTypes == HistorySpec => []HistoryTypeOK
<1>1. HInv => HistoryTypeOK BY DEF HInv
<1> QED BY HistoryInitially, HistorySteps, <1>1, PTL DEF HistorySpec

THEOREM HistoryIsKept == HistorySpec => []HistoryKeepsPictures
<1>1. HInv => HistoryKeepsPictures BY DEF HInv
<1> QED BY HistoryInitially, HistorySteps, <1>1, PTL DEF HistorySpec

-----------------------------------------------------------------------------
(* Conversations: a deletion knows only names of pictures that have been   *)
(* written, and when it looks at one the rows are deleted already.  So     *)
(* what it finds without reference is either being recorded, and then      *)
(* lost, or will never be recorded again.                                  *)

\* A generation that has not written its picture is not known of.
UnwrittenAreUnknown ==
  \A p \in Pictures : recording[p] \in {"none", "placed"} =>
    /\ p \notin asset /\ p \notin backfill /\ generated[p] # "saved"
    /\ \A k \in Cleaners : p \notin cleaner[k].names /\ p # cleaner[k].file

\* Whoever records a generation has its picture on disk.
RecordingsHaveFiles == \A p \in Pictures : Recording(p) => p \in disk \cup lost

CleanerFits(v, rows, steps, gone) ==
  /\ v.pc # "idle" => \A p \in v.names : ChatOf[p] \in v.scope
  /\ v.pc \in {"files", "remove", "forget"} => \A p \in v.names : rows[p] # "bare"
  /\ v.pc = "remove" => /\ v.file \in Pictures
                        /\ \/ v.file \in gone
                           \/ steps[v.file] = "over" /\ rows[v.file] = "none"

ConvInv == /\ ConversationsTypeOK /\ UnwrittenAreUnknown /\ RecordingsHaveFiles
           /\ SavedPicturesStay
           /\ \A k \in Cleaners : CleanerFits(cleaner[k], generated, recording, lost)

Cleaner == [pc: {"idle", "assets", "rows", "files", "remove", "forget"},
            scope: SUBSET Chats, names: SUBSET Pictures,
            file: Pictures \cup {NoPicture}, purge: BOOLEAN]

-----------------------------------------------------------------------------

LEMMA IdleCleanerFits ==
  /\ IdleCleaner \in Cleaner /\ IdleCleaner.pc = "idle" /\ IdleCleaner.names = {}
  /\ IdleCleaner.file = NoPicture /\ \A rows, steps, gone : CleanerFits(IdleCleaner, rows, steps, gone)
<1> QED BY DEF IdleCleaner, Cleaner, CleanerFits

LEMMA ConversationsTyped ==
  ASSUME ConvInv
  PROVE  /\ chats \subseteq Chats /\ generated \in [Pictures -> {"none", "bare", "saved"}]
         /\ asset \subseteq Pictures /\ disk \subseteq Pictures /\ lost \subseteq Pictures
         /\ recording \in [Pictures -> RunSteps] /\ backfill \subseteq Pictures
         /\ cleaner \in [Cleaners -> Cleaner]
         /\ \A k \in Cleaners : /\ cleaner[k] \in Cleaner /\ cleaner[k].names \subseteq Pictures
                                /\ cleaner[k].file \in Pictures \cup {NoPicture}
                                /\ cleaner[k].scope \subseteq Chats
         /\ \A p \in Pictures : ChatOf[p] \in Chats
<1>1. \A v \in Cleaner : /\ v.names \subseteq Pictures /\ v.scope \subseteq Chats
                         /\ v.file \in Pictures \cup {NoPicture}
  BY DEF Cleaner
<1>2. cleaner \in [Cleaners -> Cleaner] BY DEF ConvInv, ConversationsTypeOK, Cleaner
<1> HIDE DEF Cleaner
<1> QED BY <1>1, <1>2, ConversationsAssumption DEF ConvInv, ConversationsTypeOK

\* A generation goes on: its step, its row and perhaps its picture and asset.
LEMMA GenerationGoes ==
  ASSUME ConvInv, NEW p \in Pictures, NEW step \in RunSteps, RecordingGoes(p, step),
         chats' \subseteq Chats, UNCHANGED <<cleaner, backfill, lost>>,
         NEW row \in {"none", "bare", "saved"},
         generated' = [generated EXCEPT ![p] = row],
         disk \subseteq disk', disk' \subseteq Pictures,
         asset \subseteq asset', asset' \subseteq asset \cup {p},
         step \in {"none", "placed"} =>
           recording[p] \in {"none", "placed"} /\ asset' = asset,
         step \in {"none", "placed"} => row # "saved",
         step \in {"written", "kept", "named"} => p \in disk' \cup lost,
         row = "saved" => p \in disk' \cup lost,
         row = "bare" => generated[p] = "bare" \/ recording[p] \in {"none", "placed"},
         generated[p] = "none" /\ recording[p] = "over" => row = "none" /\ step = "over"
  PROVE  ConvInv'
<1>0. /\ generated \in [Pictures -> {"none", "bare", "saved"}]
      /\ recording \in [Pictures -> RunSteps]
      /\ recording' = [recording EXCEPT ![p] = step]
      /\ asset \subseteq Pictures /\ lost \subseteq Pictures /\ backfill \subseteq Pictures
      /\ cleaner \in [Cleaners -> Cleaner]
  BY ConversationsTyped DEF RecordingGoes
<1>1. /\ generated'[p] = row /\ recording'[p] = step
      /\ \A q \in Pictures : q # p => /\ generated'[q] = generated[q]
                                      /\ recording'[q] = recording[q]
      /\ generated' \in [Pictures -> {"none", "bare", "saved"}]
      /\ recording' \in [Pictures -> RunSteps]
  BY <1>0
<1>2. ConversationsTypeOK' BY <1>0, <1>1 DEF ConversationsTypeOK, Cleaner
<1>3. UnwrittenAreUnknown'
  <2> SUFFICES ASSUME NEW q \in Pictures, recording'[q] \in {"none", "placed"}
               PROVE  /\ q \notin asset' /\ q \notin backfill /\ generated'[q] # "saved"
                      /\ \A k \in Cleaners : q \notin cleaner[k].names /\ q # cleaner[k].file
    BY DEF UnwrittenAreUnknown
  <2>1. recording[q] \in {"none", "placed"} BY <1>1
  <2>2. /\ q \notin asset /\ q \notin backfill /\ generated[q] # "saved"
        /\ \A k \in Cleaners : q \notin cleaner[k].names /\ q # cleaner[k].file
    BY <2>1 DEF ConvInv, UnwrittenAreUnknown
  <2>3. CASE q = p
    <3>1. asset' = asset /\ row # "saved" BY <2>3, <1>1
    <3> QED BY <2>2, <2>3, <1>1, <3>1
  <2>4. CASE q # p BY <2>2, <2>4, <1>1
  <2> QED BY <2>3, <2>4
<1>4. RecordingsHaveFiles'
  <2> SUFFICES ASSUME NEW q \in Pictures, recording'[q] \in {"written", "kept", "named"}
               PROVE  q \in disk' \cup lost
    BY DEF RecordingsHaveFiles, Recording
  <2> QED BY <1>1 DEF ConvInv, RecordingsHaveFiles, Recording
<1>5. SavedPicturesStay' BY <1>1 DEF ConvInv, SavedPicturesStay
<1>6. ASSUME NEW k \in Cleaners PROVE CleanerFits(cleaner'[k], generated', recording', lost')
  <2>1. /\ CleanerFits(cleaner[k], generated, recording, lost) /\ cleaner[k].names \subseteq Pictures
        /\ p \in cleaner[k].names => recording[p] \notin {"none", "placed"}
    BY ConversationsTyped DEF ConvInv, UnwrittenAreUnknown
  <2> QED BY <1>1, <2>1 DEF CleanerFits
<1> QED BY <1>2, <1>3, <1>4, <1>5, <1>6 DEF ConvInv

LEMMA RecordingSafe ==
  ASSUME ConvInv, NEW p \in Pictures,
         \/ Place(p) \/ WritePicture(p) \/ KeepAsset(p) \/ NameChat(p) \/ SaveGeneration(p)
         \/ RunStops(p)
  PROVE  ConvInv'
<1>0. /\ UNCHANGED <<cleaner, backfill, lost>>
      /\ generated \in [Pictures -> {"none", "bare", "saved"}]
      /\ generated[p] \in {"none", "bare", "saved"}
      /\ chats \subseteq Chats /\ disk \subseteq Pictures /\ asset \subseteq Pictures
      /\ NamedFiles(p) \subseteq Chats
      /\ recording[p] \in RunSteps
  BY ConversationsTyped
  DEF Place, WritePicture, KeepAsset, NameChat, SaveGeneration, RunStops, NamedFiles
<1>1. generated = [generated EXCEPT ![p] = generated[p]] BY <1>0
<1>2. /\ Recording(p) => p \in disk \cup lost
      /\ generated[p] = "saved" => p \in disk \cup lost
      /\ recording[p] \in {"none", "placed"} => generated[p] # "saved"
  BY DEF ConvInv, RecordingsHaveFiles, SavedPicturesStay, UnwrittenAreUnknown
<1>3. CASE Place(p)
  <2>1. PICK step \in {"placed", "over"} : RecordingGoes(p, step) BY <1>3 DEF Place
  <2> QED BY <1>0, <1>3, <2>1, GenerationGoes DEF Place, RunSteps
<1>4. CASE WritePicture(p)
  <2>1. /\ recording[p] = "placed" /\ disk' = disk \cup {p} /\ RecordingGoes(p, "written")
        /\ UNCHANGED <<chats, generated, asset>>
    BY <1>4 DEF WritePicture
  <2> QED BY <1>0, <1>1, <1>2, <2>1, GenerationGoes DEF RunSteps
<1>5. CASE KeepAsset(p)
  <2>1. /\ recording[p] = "written" /\ asset' \in {asset, asset \cup {p}}
        /\ RecordingGoes(p, "kept") /\ UNCHANGED <<chats, generated, disk>>
    BY <1>5 DEF KeepAsset
  <2> QED BY <1>0, <1>1, <1>2, <2>1, GenerationGoes DEF RunSteps, Recording
<1>6. CASE NameChat(p)
  <2>1. /\ recording[p] = "kept" /\ chats' = NamedFiles(p)
        /\ RecordingGoes(p, "named") /\ UNCHANGED <<generated, asset, disk>>
    BY <1>6 DEF NameChat
  <2> QED BY <1>0, <1>1, <1>2, <2>1, GenerationGoes DEF RunSteps, Recording
<1>7. CASE SaveGeneration(p)
  <2>1. /\ recording[p] = "named" /\ generated' = [generated EXCEPT ![p] = "saved"]
        /\ RecordingGoes(p, "over") /\ UNCHANGED <<chats, asset, disk>>
    BY <1>7 DEF SaveGeneration
  <2> QED BY <1>0, <1>2, <2>1, GenerationGoes DEF RunSteps, Recording
<1>8. CASE RunStops(p)
  <2>1. /\ recording[p] \notin {"none", "over"} /\ RecordingGoes(p, "over")
        /\ UNCHANGED <<chats, generated, asset, disk>>
    BY <1>8 DEF RunStops
  <2> QED BY <1>0, <1>1, <1>2, <2>1, GenerationGoes DEF RunSteps
<1> QED BY <1>3, <1>4, <1>5, <1>6, <1>7, <1>8

-----------------------------------------------------------------------------

\* A cleaner goes on, and no generation and no asset comes with it.
LEMMA CleanerMoves ==
  ASSUME ConvInv, NEW k \in Cleaners, NEW v \in Cleaner, cleaner' = [cleaner EXCEPT ![k] = v],
         UNCHANGED <<recording, backfill>>, chats' \subseteq Chats,
         generated' \in [Pictures -> {"none", "bare", "saved"}],
         \A p \in Pictures : generated'[p] \in {generated[p], "none"},
         asset' \subseteq asset, lost \subseteq lost', lost' \subseteq Pictures,
         disk' \subseteq disk,
         \A p \in disk \ disk' : cleaner[k].pc = "remove" /\ p = cleaner[k].file,
         \A p \in v.names : \/ p \in cleaner[k].names
                            \/ p \in asset \/ generated[p] = "saved",
         v.file = NoPicture \/ v.file \in v.names \/ v.file \in cleaner[k].names
           \/ v.file = cleaner[k].file,
         CleanerFits(v, generated', recording', lost')
  PROVE  ConvInv'
<1>0. /\ cleaner \in [Cleaners -> Cleaner] /\ cleaner'[k] = v
      /\ \A l \in Cleaners : l # k => cleaner'[l] = cleaner[l]
      /\ cleaner' \in [Cleaners -> Cleaner]
  BY ConversationsTyped
<1>1. ConversationsTypeOK'
  <2>1. /\ recording \in [Pictures -> RunSteps] /\ backfill \subseteq Pictures
        /\ asset \subseteq Pictures /\ disk \subseteq Pictures
    BY ConversationsTyped
  <2> QED BY <1>0, <2>1 DEF ConversationsTypeOK, Cleaner
<1>2. UnwrittenAreUnknown'
  <2> SUFFICES ASSUME NEW q \in Pictures, recording[q] \in {"none", "placed"}
               PROVE  /\ q \notin asset' /\ q \notin backfill /\ generated'[q] # "saved"
                      /\ \A l \in Cleaners : q \notin cleaner'[l].names
                                             /\ q # cleaner'[l].file
    BY DEF UnwrittenAreUnknown
  <2>1. /\ q \notin asset /\ q \notin backfill /\ generated[q] # "saved"
        /\ \A l \in Cleaners : q \notin cleaner[l].names /\ q # cleaner[l].file
    BY DEF ConvInv, UnwrittenAreUnknown
  <2>2. q \notin v.names /\ q # v.file BY <2>1, ConversationsAssumption
  <2> QED BY <1>0, <2>1, <2>2
\* what is removed from disk is lost, or not recorded any more
<1>3. ASSUME NEW p \in disk \ disk'
      PROVE  p \in lost \/ (recording[p] = "over" /\ generated[p] = "none")
  BY <1>3 DEF ConvInv, CleanerFits
<1>4. RecordingsHaveFiles'
  <2> SUFFICES ASSUME NEW q \in Pictures, Recording(q) PROVE q \in disk' \cup lost'
    BY DEF RecordingsHaveFiles, Recording
  <2> QED BY <1>3 DEF ConvInv, RecordingsHaveFiles, Recording
<1>5. SavedPicturesStay'
  <2> SUFFICES ASSUME NEW q \in Pictures, generated'[q] = "saved" PROVE q \in disk' \cup lost'
    BY DEF SavedPicturesStay
  <2>1. generated[q] = "saved" OBVIOUS
  <2> QED BY <1>3, <2>1 DEF ConvInv, SavedPicturesStay
<1>6. ASSUME NEW l \in Cleaners PROVE CleanerFits(cleaner'[l], generated', recording', lost')
  <2>1. CASE l = k BY <2>1, <1>0 DEF CleanerFits
  <2>2. CASE l # k
    <3>1. /\ CleanerFits(cleaner[l], generated, recording, lost) /\ cleaner'[l] = cleaner[l]
          /\ cleaner[l].names \subseteq Pictures
      BY <2>2, <1>0, ConversationsTyped DEF ConvInv
    <3> QED BY <3>1 DEF CleanerFits
  <2> QED BY <2>1, <2>2
<1> QED BY <1>1, <1>2, <1>4, <1>5, <1>6 DEF ConvInv

LEMMA GeneratedStay ==
  ASSUME ConvInv, UNCHANGED generated
  PROVE  /\ generated' \in [Pictures -> {"none", "bare", "saved"}]
         /\ \A p \in Pictures : generated'[p] \in {generated[p], "none"}
<1> QED BY ConversationsTyped

LEMMA BeginCleaningSafe ==
  ASSUME ConvInv, NEW k \in Cleaners, NEW scope \in SUBSET Chats, NEW purge \in BOOLEAN,
         BeginCleaning(k, scope, purge)
  PROVE  ConvInv'
<1> DEFINE names == {p \in Pictures : /\ ChatOf[p] \in scope
                                      /\ p \in asset \/ generated[p] = "saved"}
           v == [pc |-> IF purge THEN "assets" ELSE "rows", scope |-> scope, purge |-> purge,
                 names |-> names, file |-> NoPicture]
<1>1. /\ cleaner' = [cleaner EXCEPT ![k] = v]
      /\ UNCHANGED <<chats, generated, asset, disk, recording, backfill, lost>>
  BY DEF BeginCleaning
<1>2. /\ names \subseteq Pictures /\ \A p \in names : ChatOf[p] \in scope
      /\ \A p \in names : p \in asset \/ generated[p] = "saved"
  OBVIOUS
<1> HIDE DEF names
<1>3. /\ v \in Cleaner /\ v.pc \in {"assets", "rows"} /\ v.names = names /\ v.scope = scope
      /\ v.file = NoPicture
  BY <1>2 DEF Cleaner
<1> HIDE DEF v
<1>4. CleanerFits(v, generated', recording', lost') BY <1>2, <1>3 DEF CleanerFits
<1> QED BY <1>1, <1>2, <1>3, <1>4, GeneratedStay, ConversationsTyped, CleanerMoves

\* The rows are deleted, so that no generation of the names is bare any more.
LEMMA DeleteRowsSafe ==
  ASSUME ConvInv, NEW k \in Cleaners, DeleteRows(k)
  PROVE  ConvInv'
<1>0. /\ cleaner[k] \in Cleaner /\ cleaner[k].pc = "rows" /\ CleanerFits(cleaner[k], generated, recording, lost)
      /\ cleaner[k].names \subseteq Pictures
      /\ UNCHANGED <<asset, disk, recording, backfill, lost>>
      /\ chats' \subseteq Chats /\ asset \subseteq Pictures /\ lost \subseteq Pictures
      /\ generated' = [p \in Pictures |-> IF ChatOf[p] \in cleaner[k].scope
                                          THEN "none" ELSE generated[p]]
  BY ConversationsTyped DEF DeleteRows, ConvInv
<1>1. /\ generated' \in [Pictures -> {"none", "bare", "saved"}]
      /\ \A p \in Pictures : generated'[p] \in {generated[p], "none"}
  BY <1>0, ConversationsTyped
<1>2. CASE cleaner' = [cleaner EXCEPT ![k] = IdleCleaner]
  <2>1. CleanerFits(IdleCleaner, generated', recording', lost') BY IdleCleanerFits DEF CleanerFits
  <2> HIDE DEF IdleCleaner
  <2> QED BY <1>0, <1>1, <1>2, <2>1, IdleCleanerFits, CleanerMoves
<1>3. CASE CleanerGoes(k, "files")
  <2> DEFINE v == [cleaner[k] EXCEPT !.pc = "files"]
  <2>1. /\ v \in Cleaner /\ v.pc = "files" /\ v.names = cleaner[k].names
        /\ v.scope = cleaner[k].scope /\ v.file = cleaner[k].file
    BY <1>0 DEF Cleaner
  <2>2. cleaner' = [cleaner EXCEPT ![k] = v] BY <1>3 DEF CleanerGoes
  <2> HIDE DEF v
  <2>3. \A p \in v.names : ChatOf[p] \in v.scope /\ generated'[p] = "none"
    BY <1>0, <2>1 DEF CleanerFits
  <2>4. CleanerFits(v, generated', recording', lost') BY <2>1, <2>3 DEF CleanerFits
  <2> QED BY <1>0, <1>1, <2>1, <2>2, <2>4, CleanerMoves
<1> QED BY <1>2, <1>3 DEF DeleteRows

\* What is found without reference and is still being recorded is lost.
LEMMA LookAtFileSafe ==
  ASSUME ConvInv, NEW k \in Cleaners, NEW p \in Pictures, LookAtFile(k, p)
  PROVE  ConvInv'
<1> DEFINE v == [cleaner[k] EXCEPT !.names = cleaner[k].names \ {p},
                   !.file = IF Referenced(p) THEN NoPicture ELSE p,
                   !.pc = IF Referenced(p) THEN "files" ELSE "remove"]
<1>0. /\ cleaner[k] \in Cleaner /\ cleaner[k].pc = "files" /\ CleanerFits(cleaner[k], generated, recording, lost)
      /\ cleaner[k].names \subseteq Pictures /\ p \in cleaner[k].names
      /\ UNCHANGED <<chats, generated, asset, disk, recording, backfill>>
      /\ cleaner' = [cleaner EXCEPT ![k] = v]
      /\ lost' = IF generated[p] = "none" /\ Recording(p) THEN lost \cup {p} ELSE lost
      /\ chats \subseteq Chats /\ lost \subseteq Pictures
      /\ cleaner \in [Cleaners -> Cleaner]
  BY ConversationsTyped DEF LookAtFile, ConvInv
<1>1. /\ v \in Cleaner /\ v.names = cleaner[k].names \ {p} /\ v.scope = cleaner[k].scope
      /\ v.file = IF Referenced(p) THEN NoPicture ELSE p
      /\ v.pc = IF Referenced(p) THEN "files" ELSE "remove"
  BY <1>0 DEF Cleaner
<1> HIDE DEF v
<1>2. ~Referenced(p) => p \in lost' \/ (recording[p] = "over" /\ generated[p] = "none")
  <2> SUFFICES ASSUME ~Referenced(p), p \notin lost'
               PROVE  recording[p] = "over" /\ generated[p] = "none"
    OBVIOUS
  <2>1. generated[p] \in {"none", "bare", "saved"} /\ recording[p] \in RunSteps
    BY ConversationsTyped
  <2>2. generated[p] # "saved" BY DEF Referenced
  <2>3. generated[p] # "bare" BY <1>0 DEF CleanerFits
  <2>4. recording[p] \notin {"none", "placed"} BY <1>0 DEF ConvInv, UnwrittenAreUnknown
  <2>5. ~Recording(p) BY <1>0, <2>1, <2>2, <2>3
  <2> QED BY <2>1, <2>2, <2>3, <2>4, <2>5 DEF Recording, RunSteps
<1>3. CleanerFits(v, generated', recording', lost') BY <1>0, <1>1, <1>2 DEF CleanerFits
<1>4. lost \subseteq lost' /\ lost' \subseteq Pictures BY <1>0
<1>5. v.file = NoPicture \/ v.file \in cleaner[k].names BY <1>0, <1>1
<1> QED BY <1>0, <1>1, <1>3, <1>4, <1>5, GeneratedStay, CleanerMoves

LEMMA CleanerStepsSafe ==
  ASSUME ConvInv, NEW k \in Cleaners,
         DropAssets(k) \/ RemoveFile(k) \/ ForgetAsset(k) \/ CleanerEnds(k)
  PROVE  ConvInv'
<1>0. /\ cleaner[k] \in Cleaner /\ CleanerFits(cleaner[k], generated, recording, lost)
      /\ cleaner[k].names \subseteq Pictures /\ cleaner \in [Cleaners -> Cleaner]
      /\ UNCHANGED <<chats, generated, recording, backfill, lost>>
      /\ chats \subseteq Chats /\ asset \subseteq Pictures /\ lost \subseteq Pictures
      /\ asset' \subseteq asset /\ disk' \subseteq disk
  BY ConversationsTyped DEF DropAssets, RemoveFile, ForgetAsset, CleanerEnds, ConvInv
<1>1. CASE DropAssets(k) \/ RemoveFile(k)
  <2>1. PICK pc \in {"rows", "forget"} :
          /\ CleanerGoes(k, pc) /\ (pc = "forget" => cleaner[k].pc = "remove")
          /\ (pc = "rows" => cleaner[k].pc = "assets")
    BY <1>1 DEF DropAssets, RemoveFile
  <2>2. \A p \in disk \ disk' : cleaner[k].pc = "remove" /\ p = cleaner[k].file
    BY <1>1 DEF DropAssets, RemoveFile
  <2> DEFINE v == [cleaner[k] EXCEPT !.pc = pc]
  <2>3. /\ v \in Cleaner /\ v.pc = pc /\ v.names = cleaner[k].names
        /\ v.scope = cleaner[k].scope /\ v.file = cleaner[k].file
    BY <1>0 DEF Cleaner
  <2>4. cleaner' = [cleaner EXCEPT ![k] = v] BY <2>1 DEF CleanerGoes
  <2> HIDE DEF v
  <2>5. CleanerFits(v, generated', recording', lost') BY <1>0, <2>1, <2>3 DEF CleanerFits
  <2> QED BY <1>0, <2>2, <2>3, <2>4, <2>5, GeneratedStay, CleanerMoves
<1>2. CASE ForgetAsset(k)
  <2> DEFINE v == [cleaner[k] EXCEPT !.pc = "files", !.file = NoPicture]
  <2>1. /\ v \in Cleaner /\ v.pc = "files" /\ v.names = cleaner[k].names
        /\ v.scope = cleaner[k].scope /\ v.file = NoPicture
    BY <1>0 DEF Cleaner
  <2>2. cleaner' = [cleaner EXCEPT ![k] = v] /\ cleaner[k].pc = "forget" /\ UNCHANGED disk
    BY <1>0, <1>2 DEF ForgetAsset
  <2> HIDE DEF v
  <2>3. CleanerFits(v, generated', recording', lost') BY <1>0, <2>1, <2>2 DEF CleanerFits
  <2> QED BY <1>0, <2>1, <2>2, <2>3, GeneratedStay, CleanerMoves
<1>3. CASE CleanerEnds(k)
  <2>1. CleanerFits(IdleCleaner, generated', recording', lost') BY IdleCleanerFits DEF CleanerFits
  <2>2. cleaner' = [cleaner EXCEPT ![k] = IdleCleaner] /\ UNCHANGED disk
    BY <1>3 DEF CleanerEnds
  <2> HIDE DEF IdleCleaner
  <2> QED BY <1>0, <2>1, <2>2, IdleCleanerFits, GeneratedStay, CleanerMoves
<1> QED BY <1>1, <1>2, <1>3

\* A backfill knows of pictures of recorded generations only.
LEMMA BackfillSafe ==
  ASSUME ConvInv, ReadLegacy \/ \E p \in Pictures : BackfillAsset(p)
  PROVE  ConvInv'
<1>0. /\ UNCHANGED <<chats, generated, disk, recording, cleaner, lost>>
      /\ backfill \subseteq Pictures /\ asset \subseteq Pictures /\ disk \subseteq Pictures
      /\ cleaner \in [Cleaners -> Cleaner]
  BY ConversationsTyped DEF ReadLegacy, BackfillAsset
<1>1. /\ \A p \in asset' : p \in asset \/ p \in backfill
      /\ \A p \in backfill' : p \in backfill \/ (p \in disk /\ generated[p] = "saved")
  BY DEF ReadLegacy, BackfillAsset
<1>2. asset' \subseteq Pictures /\ backfill' \subseteq Pictures BY <1>0, <1>1
<1>3. ConversationsTypeOK' BY <1>0, <1>2, ConversationsTyped DEF ConversationsTypeOK, Cleaner
<1>4. UnwrittenAreUnknown' BY <1>0, <1>1 DEF ConvInv, UnwrittenAreUnknown
<1>5. \A k \in Cleaners : CleanerFits(cleaner'[k], generated', recording', lost') BY <1>0 DEF ConvInv, CleanerFits
<1>6. RecordingsHaveFiles' /\ SavedPicturesStay'
  BY <1>0 DEF ConvInv, RecordingsHaveFiles, Recording, SavedPicturesStay
<1> QED BY <1>3, <1>4, <1>5, <1>6, <1>0 DEF ConvInv, CleanerFits

-----------------------------------------------------------------------------

LEMMA ConversationsInitially == ConversationsInit => ConvInv
<1> SUFFICES ASSUME ConversationsInit PROVE ConvInv OBVIOUS
<1> USE DEF ConversationsInit
<1>1. \A k \in Cleaners : cleaner[k] = IdleCleaner OBVIOUS
<1> HIDE DEF IdleCleaner, Cleaner
<1>2. ConversationsTypeOK BY IdleCleanerFits DEF ConversationsTypeOK, RunSteps, Cleaner
<1>3. UnwrittenAreUnknown
  BY <1>1, IdleCleanerFits, ConversationsAssumption DEF UnwrittenAreUnknown
<1>4. RecordingsHaveFiles /\ SavedPicturesStay
  BY DEF RecordingsHaveFiles, Recording, SavedPicturesStay
<1> QED BY <1>1, <1>2, <1>3, <1>4, IdleCleanerFits DEF ConvInv

LEMMA ConversationsSteps == ConvInv /\ [ConversationsNext]_conversationVars => ConvInv'
<1> SUFFICES ASSUME ConvInv, [ConversationsNext]_conversationVars PROVE ConvInv' OBVIOUS
<1>1. CASE UNCHANGED conversationVars
  BY <1>1 DEF conversationVars, ConvInv, ConversationsTypeOK, UnwrittenAreUnknown,
              RecordingsHaveFiles, Recording, SavedPicturesStay, CleanerFits
<1>2. CASE ConversationsNext
  <2>1. \A c \in Chats : {c} \in SUBSET Chats OBVIOUS
  <2>2. Chats \in SUBSET Chats /\ FALSE \in BOOLEAN OBVIOUS
  <2> HIDE DEF ConvInv
  <2> QED BY <1>2, <2>1, <2>2, RecordingSafe, BackfillSafe, LookAtFileSafe,
             BeginCleaningSafe, DeleteRowsSafe, CleanerStepsSafe DEF ConversationsNext
<1> QED BY <1>1, <1>2

THEOREM ConversationsTypes == ConversationsSpec => []ConversationsTypeOK
<1>1. ConvInv => ConversationsTypeOK BY DEF ConvInv
<1> QED BY ConversationsInitially, ConversationsSteps, <1>1, PTL DEF ConversationsSpec

THEOREM SavedPicturesAreKept == ConversationsSpec => []SavedPicturesStay
<1>1. ConvInv => SavedPicturesStay BY DEF ConvInv
<1> QED BY ConversationsInitially, ConversationsSteps, <1>1, PTL DEF ConversationsSpec

\* A picture somebody still sees keeps its file: DeletedFiles and the cleaners of the server's
\* conversations, the saves and cleanups of the page's history.
THEOREM PicturesAreKept == ConversationsSpec /\ HistorySpec => []PicturesStay
BY SavedPicturesAreKept, HistoryIsKept, PTL DEF PicturesStay

-----------------------------------------------------------------------------
(***************************************************************************)
(* The settings and what a save of them moves.  At every step of a save    *)
(* that nothing has cut short or crossed it is known where the accounts    *)
(* and the pictures are, and what a restart would load.                    *)
(***************************************************************************)

\* Before the settings in use change, everything is where they say.
BeforeTheChange ==
  save.pc \in {"idle", "write", "bootstrap", "apply"} =>
    open = cfg.backend /\ stored[open] = known /\ pictures \subseteq images[cfg.dir]

\* What has been written of the new settings.
WrittenFits ==
  /\ save.pc \notin {"bootstrap", "apply"} => Saved = cfg /\ cfg.valid
  /\ save.pc \in {"write", "bootstrap", "apply"} => save.previous = cfg
  /\ save.pc \in {"bootstrap", "apply"} => remote = save.next /\ override.valid
  /\ save.pc = "apply" => override.configBackend = "redis"

\* Afterwards the store of before has the accounts until they are copied; a picture is in
\* one of the two directories, and then on the list or in the new one.
AfterTheChange ==
  /\ save.pc \in {"reload", "snapshot", "replace", "images"} =>
       pictures \subseteq images[save.previous.dir] \cup images[cfg.dir]
  /\ save.pc = "move" => pictures \subseteq save.files \cup images[cfg.dir]
  /\ save.pc \in {"reload", "snapshot", "replace"} => stored[open] = known
  /\ save.pc = "reload" => save.previous.backend = open
  /\ save.pc = "replace" => /\ save.snapshot \subseteq known /\ save.surplus \cap known = {}
                            /\ stored[cfg.backend] \subseteq known \cup save.surplus
                            /\ known \subseteq stored[cfg.backend] \cup save.snapshot
  /\ save.pc \in {"images", "move"} => stored[cfg.backend] = known

\* Whatever has been cut short: an account that is to be deleted from one backend is in
\* the other, and every picture is somewhere.
CutShortFits ==
  /\ ~astray => known \subseteq stored["file"] \cup stored["redis"]
  /\ ~astray /\ save.pc = "replace" =>
       /\ open = cfg.backend => save.surplus = {}
       /\ save.surplus \cap known \subseteq stored[open]
  /\ \A f \in pictures : \E d \in Dirs : f \in images[d]

ConfInv ==
  /\ RuntimeConfigTypeOK
  /\ ~up => save.pc = "idle"
  /\ \A d \in Dirs : images[d] \subseteq pictures
  /\ save.pc = "move" => save.files \subseteq pictures
  /\ calmSaves => BeforeTheChange /\ WrittenFits /\ AfterTheChange

\* The invariant says what is promised.
LEMMA InvKeepsData == ConfInv => CalmSavesKeepData
<1> SUFFICES ASSUME ConfInv, up, calmSaves, save.pc = "idle"
             PROVE  /\ open = cfg.backend /\ stored[open] = known
                    /\ images[cfg.dir] = pictures /\ Saved = cfg
  BY DEF CalmSavesKeepData
<1>1. cfg.dir \in Dirs BY DEF ConfInv, RuntimeConfigTypeOK, Config
<1> QED BY <1>1 DEF ConfInv, BeforeTheChange, WrittenFits

LEMMA TheOther ==
  /\ Other("file") = "redis" /\ Other("redis") = "file"
BY DEF Other, ConfiguredPlace

LEMMA ConfTyped ==
  ASSUME ConfInv
  PROVE  /\ override \in Config /\ cfg \in Config /\ save.next \in Config /\ save.previous \in Config
         /\ remote \in Config \cup {NoConfig} /\ Saved \in Config \cup {NoConfig}
         /\ open \in ConfiguredPlace /\ cfg.backend \in ConfiguredPlace
         /\ cfg.dir \in Dirs /\ save.previous.dir \in Dirs
         /\ save.next.valid \in BOOLEAN /\ calmSaves \in BOOLEAN
         /\ stored \in [ConfiguredPlace -> SUBSET StoredAccounts]
         /\ images \in [Dirs -> SUBSET Files] /\ save \in SaveInProgress
         /\ astray \in BOOLEAN
         /\ \A p \in ConfiguredPlace : /\ stored[p] \subseteq StoredAccounts
                                       /\ Opened(p) \in [ConfiguredPlace -> SUBSET StoredAccounts]
<1>1. /\ override \in Config /\ cfg \in Config /\ save.next \in Config /\ save.previous \in Config
      /\ remote \in Config \cup {NoConfig} /\ open \in ConfiguredPlace
      /\ stored \in [ConfiguredPlace -> SUBSET StoredAccounts]
      /\ images \in [Dirs -> SUBSET Files] /\ calmSaves \in BOOLEAN
      /\ save \in SaveInProgress /\ astray \in BOOLEAN
  BY DEF ConfInv, RuntimeConfigTypeOK, SaveInProgress
<1>2. \A p \in ConfiguredPlace : Other(p) \in ConfiguredPlace
  BY TheOther DEF ConfiguredPlace
<1>3. \A p \in ConfiguredPlace : stored[p] \in SUBSET StoredAccounts BY <1>1
<1>4. ASSUME NEW p \in ConfiguredPlace
      PROVE  Opened(p) \in [ConfiguredPlace -> SUBSET StoredAccounts]
  BY <1>1, <1>2, <1>3 DEF Opened
<1> QED BY <1>1, <1>3, <1>4 DEF Config, Saved

THEOREM ConfBegins == RuntimeConfigInit => ConfInv
<1> SUFFICES ASSUME RuntimeConfigInit PROVE ConfInv OBVIOUS
<1>1. /\ override \in Config /\ override.valid /\ override.backend = "file"
      /\ override.configBackend = "file" /\ override.dir \in Dirs
  BY DEF RuntimeConfigInit, Config, ConfiguredPlace
<1>2. cfg = override /\ remote = NoConfig /\ open = "file" /\ save.pc = "idle"
  BY DEF RuntimeConfigInit
<1>3. RuntimeConfigTypeOK
  <2>1. save = [pc |-> "idle", previous |-> cfg, next |-> cfg,
                snapshot |-> {}, surplus |-> {}, files |-> {}]
    BY DEF RuntimeConfigInit
  <2>2. save \in SaveInProgress BY <1>1, <1>2, <2>1 DEF SavePC, SaveInProgress
  <2>3. saves \in 0..MaxSaves BY RuntimeConfigAssumption DEF RuntimeConfigInit
  <2>4. /\ stored \in [ConfiguredPlace -> SUBSET StoredAccounts] /\ known \subseteq StoredAccounts
        /\ images \in [Dirs -> SUBSET Files] /\ pictures \subseteq Files
        /\ holding \subseteq StoredAccounts \X ConfiguredPlace /\ writing \subseteq Files \X Dirs
        /\ up \in BOOLEAN /\ calmSaves \in BOOLEAN /\ astray \in BOOLEAN
    BY DEF RuntimeConfigInit
  <2>5. remote \in Config \cup {NoConfig} /\ open \in ConfiguredPlace
    BY <1>2 DEF ConfiguredPlace
  <2> QED BY <1>1, <1>2, <2>2, <2>3, <2>4, <2>5 DEF RuntimeConfigTypeOK
<1>4. BeforeTheChange /\ WrittenFits /\ AfterTheChange
  BY <1>1, <1>2
  DEF RuntimeConfigInit, BeforeTheChange, WrittenFits, AfterTheChange, Saved, ConfiguredPlace
<1> QED BY <1>1, <1>2, <1>3, <1>4 DEF RuntimeConfigInit, ConfInv

\* The settings are written.
LEMMA SaveIsWritten ==
  ASSUME ConfInv,
         BeginSaveConfig \/ SaveOverrides \/ SaveRemote \/ PersistOverrideFile \/ ApplyOverrides
  PROVE  ConfInv'
<1>0. /\ override \in Config /\ cfg \in Config /\ save.next \in Config /\ save.previous \in Config
      /\ save.next.valid \in BOOLEAN /\ NoConfig.valid = FALSE /\ "valid" \in DOMAIN NoConfig
      /\ UNCHANGED <<up, open, astray, heldVars, dataVars>>
  BY ConfTyped
  DEF calmVars, NoConfig, BeginSaveConfig, SaveOverrides, SaveRemote, PersistOverrideFile, ApplyOverrides
<1>1. CASE BeginSaveConfig
  <2>1. PICK next \in Config :
          save' = [pc |-> "write", previous |-> cfg, next |-> next,
                   snapshot |-> {}, surplus |-> {}, files |-> {}]
    BY <1>1 DEF BeginSaveConfig
  <2>2. /\ save'.pc = "write" /\ save'.previous = cfg
        /\ save' \in SaveInProgress
    BY <1>0, <2>1 DEF SavePC, SaveInProgress
  <2>3. saves' \in 0..MaxSaves
    BY <1>1, RuntimeConfigAssumption DEF BeginSaveConfig, ConfInv, RuntimeConfigTypeOK
  <2>4. save.pc = "idle" /\ up /\ UNCHANGED <<override, remote, cfg, calmSaves>>
    BY <1>1 DEF BeginSaveConfig, calmVars
  <2> QED BY <1>0, <2>2, <2>3, <2>4
    DEF dataVars, heldVars, ConfInv, RuntimeConfigTypeOK, BeforeTheChange, WrittenFits, AfterTheChange, Saved
<1>2. CASE SaveOverrides
  <2>1. /\ save.pc = "write" /\ save.next.configBackend = "file" /\ override' = save.next
        /\ UNCHANGED <<remote, saves>>
    BY <1>2 DEF SaveOverrides
  <2>2. CASE save.next.valid
    <3>1. cfg' = save.next /\ save' = [save EXCEPT !.pc = "reload"] /\ calmSaves' = calmSaves
      BY <1>2, <2>2 DEF SaveOverrides, Continue
    <3>2. /\ save'.pc = "reload" /\ save'.previous = save.previous
          /\ save' \in SaveInProgress
      BY <3>1 DEF ConfInv, RuntimeConfigTypeOK, SavePC, SaveInProgress
    <3>3. Saved' = cfg' BY <2>1, <3>1 DEF Saved
    <3> QED BY <1>0, <2>1, <2>2, <3>1, <3>2, <3>3
      DEF dataVars, heldVars, ConfInv, RuntimeConfigTypeOK, BeforeTheChange, WrittenFits, AfterTheChange
  <2>3. CASE ~save.next.valid
    <3>1. cfg' = cfg /\ save' = [save EXCEPT !.pc = "idle"] /\ calmSaves' = FALSE
      BY <1>2, <2>3 DEF SaveOverrides, Continue
    <3>2. /\ save'.pc = "idle"
          /\ save' \in SaveInProgress
      BY <3>1 DEF ConfInv, RuntimeConfigTypeOK, SavePC, SaveInProgress
    <3> QED BY <1>0, <2>1, <3>1, <3>2 DEF dataVars, heldVars, ConfInv, RuntimeConfigTypeOK
  <2> QED BY <1>0, <2>2, <2>3
<1>3. CASE SaveRemote
  <2>1. /\ save.pc = "write" /\ remote' = save.next /\ save' = [save EXCEPT !.pc = "bootstrap"]
        /\ UNCHANGED <<override, cfg, saves, calmSaves>>
    BY <1>3 DEF SaveRemote, Continue, calmVars
  <2>2. /\ save'.pc = "bootstrap" /\ save'.previous = save.previous /\ save'.next = save.next
        /\ save' \in SaveInProgress
    BY <2>1 DEF ConfInv, RuntimeConfigTypeOK, SavePC, SaveInProgress
  <2>3. calmSaves => override.valid BY <2>1 DEF ConfInv, WrittenFits, Saved
  <2> QED BY <1>0, <2>1, <2>2, <2>3
    DEF dataVars, heldVars, ConfInv, RuntimeConfigTypeOK, BeforeTheChange, WrittenFits, AfterTheChange
<1>4. CASE PersistOverrideFile
  <2>1. /\ save.pc = "bootstrap" /\ override' = [override EXCEPT !.configBackend = "redis"]
        /\ save' = [save EXCEPT !.pc = "apply"] /\ UNCHANGED <<remote, cfg, saves, calmSaves>>
    BY <1>4 DEF PersistOverrideFile, Continue, calmVars
  <2>2. /\ save'.pc = "apply" /\ save'.previous = save.previous /\ save'.next = save.next
        /\ save' \in SaveInProgress
    BY <2>1 DEF ConfInv, RuntimeConfigTypeOK, SavePC, SaveInProgress
  <2>3. /\ override' \in Config /\ override'.configBackend = "redis"
        /\ override'.valid = override.valid
    BY <1>0, <2>1 DEF Config, ConfiguredPlace
  <2> QED BY <1>0, <2>1, <2>2, <2>3
    DEF dataVars, heldVars, ConfInv, RuntimeConfigTypeOK, BeforeTheChange, WrittenFits, AfterTheChange
<1>5. CASE ApplyOverrides
  <2>1. save.pc = "apply" /\ UNCHANGED <<override, remote, saves>>
    BY <1>5 DEF ApplyOverrides
  <2>2. CASE save.next.valid
    <3>1. cfg' = save.next /\ save' = [save EXCEPT !.pc = "reload"] /\ calmSaves' = calmSaves
      BY <1>5, <2>2 DEF ApplyOverrides, Continue
    <3>2. /\ save'.pc = "reload" /\ save'.previous = save.previous
          /\ save' \in SaveInProgress
      BY <3>1 DEF ConfInv, RuntimeConfigTypeOK, SavePC, SaveInProgress
    <3>3. calmSaves => Saved' = cfg'
      <4>1. save.next # NoConfig BY <1>0, <2>2
      <4> QED BY <2>1, <3>1, <4>1 DEF Saved, ConfInv, WrittenFits
    <3> QED BY <1>0, <2>1, <2>2, <3>1, <3>2, <3>3
      DEF dataVars, heldVars, ConfInv, RuntimeConfigTypeOK, BeforeTheChange, WrittenFits, AfterTheChange
  <2>3. CASE ~save.next.valid
    <3>1. cfg' = cfg /\ save' = [save EXCEPT !.pc = "idle"] /\ calmSaves' = FALSE
      BY <1>5, <2>3 DEF ApplyOverrides, Continue
    <3>2. /\ save'.pc = "idle"
          /\ save' \in SaveInProgress
      BY <3>1 DEF ConfInv, RuntimeConfigTypeOK, SavePC, SaveInProgress
    <3> QED BY <1>0, <2>1, <3>1, <3>2 DEF dataVars, heldVars, ConfInv, RuntimeConfigTypeOK
  <2> QED BY <1>0, <2>2, <2>3
<1> QED BY <1>1, <1>2, <1>3, <1>4, <1>5

LEMMA SaveTyped ==
  ASSUME ConfInv, NEW pc \in SavePC, Continue(pc)
  PROVE  /\ save'.pc = pc /\ save'.previous = save.previous /\ save'.next = save.next
         /\ save'.snapshot = save.snapshot /\ save'.surplus = save.surplus
         /\ save'.files = save.files
         /\ save' \in SaveInProgress
BY DEF ConfInv, RuntimeConfigTypeOK, SaveInProgress, Continue

\* What a start or a reopened store finds: with an account or without a revival, the
\* store that has everything is as it was.
LEMMA OpenedKeeps ==
  ASSUME NEW p \in ConfiguredPlace, NEW q \in ConfiguredPlace,
         stored \in [ConfiguredPlace -> SUBSET StoredAccounts],
         stored[q] = known, ~Revives(p)
  PROVE  Opened(p)[q] = known
<1>1. CASE known = {} BY <1>1 DEF Revives
<1>2. CASE known # {}
  <2>1. CASE p = q BY <1>2, <2>1 DEF Opened
  <2>2. CASE p # q BY <2>2 DEF Opened
  <2> QED BY <2>1, <2>2
<1> QED BY <1>1, <1>2

LEMMA StoreMoves ==
  ASSUME ConfInv,
         ReopenStore \/ TakeSnapshot \/ (\E a \in StoredAccounts : ReplaceOne(a)) \/ Replaced
           \/ SwapRuntime
  PROVE  ConfInv'
<1>0. /\ cfg.backend \in ConfiguredPlace /\ open \in ConfiguredPlace
      /\ cfg.dir \in Dirs /\ save.previous.dir \in Dirs /\ save \in SaveInProgress
      /\ stored \in [ConfiguredPlace -> SUBSET StoredAccounts]
      /\ Opened(cfg.backend) \in [ConfiguredPlace -> SUBSET StoredAccounts]
      /\ calmSaves \in BOOLEAN /\ astray \in BOOLEAN
      /\ {"idle", "snapshot", "images", "replace"} \subseteq SavePC
  BY ConfTyped DEF SavePC
<1>1. /\ UNCHANGED <<up, override, remote, cfg, saves, images, known, pictures, writing>>
      /\ Saved' = Saved
  BY DEF ReopenStore, TakeSnapshot, ReplaceOne, Replaced, SwapRuntime, dataVars, heldVars, Saved
<1>2. up BY DEF ConfInv, ReopenStore, TakeSnapshot, ReplaceOne, Replaced, SwapRuntime
<1>a. /\ holding' \subseteq StoredAccounts \X ConfiguredPlace /\ astray' \in BOOLEAN
  BY <1>0
  DEF ReopenStore, TakeSnapshot, ReplaceOne, Replaced, SwapRuntime, heldVars, calmVars, ConfInv,
      RuntimeConfigTypeOK
<1>3. CASE ReopenStore
  <2>1. save.pc = "reload" /\ open' = open BY <1>3 DEF ReopenStore
  <2>2. CASE StorageChanged
    <3>1. /\ stored' = Opened(cfg.backend) /\ calmSaves' = (calmSaves /\ ~Revives(cfg.backend))
          /\ Continue("snapshot")
      BY <1>3, <2>2 DEF ReopenStore
    <3>2. calmSaves' => stored'[open] = known
      BY <1>0, <2>1, <3>1, OpenedKeeps DEF ConfInv, AfterTheChange
    <3>3. calmSaves' \in BOOLEAN BY <1>0, <3>1 DEF Revives
    <3> QED BY <1>0, <1>1, <1>2, <1>a, <2>1, <3>1, <3>2, <3>3, SaveTyped
      DEF ConfInv, RuntimeConfigTypeOK, BeforeTheChange, WrittenFits, AfterTheChange
  <2>3. CASE ~StorageChanged
    <3>1. Continue("images") /\ UNCHANGED <<stored, calmSaves>>
      BY <1>3, <2>3 DEF ReopenStore
    <3>2. save.previous.backend = cfg.backend BY <2>3 DEF StorageChanged
    <3> QED BY <1>0, <1>1, <1>2, <1>a, <2>1, <3>1, <3>2, SaveTyped
      DEF ConfInv, RuntimeConfigTypeOK, BeforeTheChange, WrittenFits, AfterTheChange
  <2> QED BY <2>2, <2>3
<1>4. CASE TakeSnapshot
  <2> DEFINE surplus == ToDelete(stored[cfg.backend], stored[open])
  <2>1. /\ save.pc = "snapshot" /\ UNCHANGED <<open, stored, calmSaves>>
        /\ save' = [save EXCEPT !.pc = "replace", !.snapshot = stored[open], !.surplus = surplus]
    BY <1>4 DEF TakeSnapshot, dataVars
  <2>2. surplus = stored[cfg.backend] \ stored[open] BY DEF ToDelete
  <2>3. /\ save'.pc = "replace" /\ save'.previous = save.previous /\ save'.snapshot = stored[open]
        /\ save'.surplus = stored[cfg.backend] \ stored[open] /\ save' \in SaveInProgress
    BY <1>0, <2>1, <2>2 DEF SaveInProgress
  <2> QED BY <1>0, <1>1, <1>2, <1>a, <2>1, <2>3
    DEF ConfInv, RuntimeConfigTypeOK, BeforeTheChange, WrittenFits, AfterTheChange
<1>5. ASSUME NEW a \in StoredAccounts, ReplaceOne(a) PROVE ConfInv'
  <2> DEFINE b == cfg.backend
  <2>1. save.pc = "replace" /\ UNCHANGED <<open, calmSaves>> BY <1>5 DEF ReplaceOne, calmVars
  <2>2. \/ /\ a \in save.snapshot /\ save' = [save EXCEPT !.snapshot = save.snapshot \ {a}]
           /\ stored' = [stored EXCEPT ![b] = stored[b] \cup {a}]
        \/ /\ save.snapshot = {} /\ a \in save.surplus
           /\ save' = [save EXCEPT !.surplus = save.surplus \ {a}]
           /\ stored' = [stored EXCEPT ![b] = stored[b] \ {a}]
    BY <1>5 DEF ReplaceOne
  <2>3. /\ stored' \in [ConfiguredPlace -> SUBSET StoredAccounts]
        /\ save' \in SaveInProgress /\ save'.pc = "replace" /\ save'.previous = save.previous
    BY <1>0, <2>1, <2>2 DEF SaveInProgress
  <2>4. ASSUME calmSaves
        PROVE  /\ stored'[open] = known
               /\ save'.snapshot \subseteq known /\ save'.surplus \cap known = {}
               /\ stored'[b] \subseteq known \cup save'.surplus
               /\ known \subseteq stored'[b] \cup save'.snapshot
    <3>1. /\ stored[open] = known
          /\ save.snapshot \subseteq known /\ save.surplus \cap known = {}
          /\ stored[b] \subseteq known \cup save.surplus
          /\ known \subseteq stored[b] \cup save.snapshot
      BY <2>1, <2>4 DEF ConfInv, AfterTheChange
    <3>2. CASE /\ a \in save.snapshot /\ save' = [save EXCEPT !.snapshot = save.snapshot \ {a}]
               /\ stored' = [stored EXCEPT ![b] = stored[b] \cup {a}]
      <4>1. save'.snapshot = save.snapshot \ {a} /\ save'.surplus = save.surplus
        BY <1>0, <3>2 DEF SaveInProgress
      <4>2. stored'[b] = stored[b] \cup {a} /\ (open # b => stored'[open] = stored[open])
        BY <1>0, <3>2
      <4> QED BY <3>1, <3>2, <4>1, <4>2
    <3>3. CASE /\ save.snapshot = {} /\ a \in save.surplus
               /\ save' = [save EXCEPT !.surplus = save.surplus \ {a}]
               /\ stored' = [stored EXCEPT ![b] = stored[b] \ {a}]
      <4>1. save'.snapshot = save.snapshot /\ save'.surplus = save.surplus \ {a}
        BY <1>0, <3>3 DEF SaveInProgress
      <4>2. stored'[b] = stored[b] \ {a} /\ (open # b => stored'[open] = stored[open])
        BY <1>0, <3>3
      <4>3. a \notin known BY <3>1, <3>3
      <4> QED BY <3>1, <3>3, <4>1, <4>2, <4>3
    <3> QED BY <2>2, <3>2, <3>3
  <2>5. b = cfg'.backend BY <1>1
  <2> QED BY <1>0, <1>1, <1>2, <1>a, <2>1, <2>3, <2>4, <2>5
    DEF ConfInv, RuntimeConfigTypeOK, BeforeTheChange, WrittenFits, AfterTheChange
<1>6. CASE Replaced
  <2>1. /\ save.pc = "replace" /\ UNCHANGED <<open, stored, calmSaves>> /\ Continue("images")
        /\ save.snapshot = {} /\ save.surplus = {}
    BY <1>6 DEF Replaced, dataVars, calmVars
  <2>2. calmSaves => stored[cfg.backend] = known BY <2>1 DEF ConfInv, AfterTheChange
  <2> QED BY <1>0, <1>1, <1>2, <1>a, <2>1, <2>2, SaveTyped
    DEF ConfInv, RuntimeConfigTypeOK, BeforeTheChange, WrittenFits, AfterTheChange
<1>7. CASE SwapRuntime
  <2>1. /\ save.pc = "move" /\ open' = cfg.backend /\ UNCHANGED <<stored, calmSaves>>
        /\ Continue("idle") /\ save.files = {}
    BY <1>7 DEF SwapRuntime, dataVars, calmVars
  <2>2. calmSaves => pictures \subseteq images[cfg.dir] /\ stored[cfg.backend] = known
    BY <2>1 DEF ConfInv, AfterTheChange
  <2> QED BY <1>0, <1>1, <1>2, <1>a, <2>1, <2>2, SaveTyped
    DEF ConfInv, RuntimeConfigTypeOK, BeforeTheChange, WrittenFits, AfterTheChange
<1> QED BY <1>3, <1>4, <1>5, <1>6, <1>7

\* Pictures are listed, move and are written.
LEMMA PicturesMove ==
  ASSUME ConfInv,
         \/ ListImages
         \/ \E f \in Files : MoveImage(f) \/ OpenHistory(f) \/ \E d \in Dirs : SaveFile(f, d)
  PROVE  ConfInv'
<1>0. /\ cfg.dir \in Dirs /\ save.previous.dir \in Dirs /\ images \in [Dirs -> SUBSET Files]
      /\ save \in SaveInProgress /\ calmSaves \in BOOLEAN
      /\ UNCHANGED <<up, override, remote, cfg, open, saves, astray, stored, known, holding>>
      /\ Saved' = Saved
  BY ConfTyped
  DEF ListImages, MoveImage, OpenHistory, SaveFile, Saved, calmVars, heldVars, dataVars
<1>1. ASSUME NEW f \in Files, MoveImage(f) PROVE ConfInv'
  <2> DEFINE from == save.previous.dir
             to == cfg.dir
  <2>1. /\ save.pc = "move" /\ f \in save.files /\ UNCHANGED <<pictures, calmSaves, writing>>
        /\ images' = [images EXCEPT ![from] = @ \ {f}, ![to] = @ \cup {f}]
        /\ save' = [save EXCEPT !.files = save.files \ {f}]
    BY <1>1 DEF MoveImage, calmVars, heldVars
  <2>2. /\ images' \in [Dirs -> SUBSET Files]
        /\ images'[to] \subseteq images[to] \cup {f} /\ images[to] \subseteq images'[to]
        /\ f \in images'[to]
        /\ \A d \in Dirs : d # to => images'[d] \subseteq images[d]
    BY <1>0, <2>1
  <2>3. /\ save'.files = save.files \ {f} /\ save'.pc = "move" /\ save' \in SaveInProgress
        /\ save'.previous = save.previous
    BY <1>0, <2>1 DEF SaveInProgress
  <2>4. /\ \A d \in Dirs : images'[d] \subseteq pictures
        /\ save'.files \subseteq pictures
    <3>1. f \in pictures BY <2>1 DEF ConfInv
    <3>2. \A d \in Dirs : images[d] \subseteq pictures BY DEF ConfInv
    <3>3. save.files \subseteq pictures BY <2>1 DEF ConfInv
    <3> QED BY <1>0, <2>2, <2>3, <3>1, <3>2, <3>3
  <2>5. calmSaves => pictures \subseteq save'.files \cup images'[to]
    <3>1. calmSaves => pictures \subseteq save.files \cup images[to]
      BY <2>1 DEF ConfInv, AfterTheChange
    <3> QED BY <2>2, <2>3, <3>1
  <2> QED BY <1>0, <2>1, <2>2, <2>3, <2>4, <2>5
    DEF ConfInv, RuntimeConfigTypeOK, BeforeTheChange, WrittenFits, AfterTheChange
<1>2. ASSUME NEW f \in Files, NEW dir \in Dirs, SaveFile(f, dir) PROVE ConfInv'
  <2>1. /\ images' = [images EXCEPT ![dir] = images[dir] \cup {f}]
        /\ pictures' = pictures \cup {f} /\ save' = save
        /\ calmSaves' = (calmSaves /\ dir = cfg.dir)
        /\ writing' \subseteq writing
    BY <1>2 DEF SaveFile
  <2>2. /\ images' \in [Dirs -> SUBSET Files]
        /\ images'[dir] = images[dir] \cup {f}
        /\ \A d \in Dirs : d # dir => images'[d] = images[d]
        /\ \A d \in Dirs : images[d] \subseteq images'[d]
    BY <1>0, <2>1
  <2>3. \A d \in Dirs : images'[d] \subseteq pictures'
    BY <1>0, <2>1, <2>2 DEF ConfInv
  <2>4. calmSaves' \in BOOLEAN BY <1>0, <2>1
  <2> QED BY <1>0, <2>1, <2>2, <2>3, <2>4
    DEF ConfInv, RuntimeConfigTypeOK, BeforeTheChange, WrittenFits, AfterTheChange
<1>3. ASSUME NEW f \in Files, OpenHistory(f) PROVE ConfInv'
  <2>1. writing' = writing \cup {<<f, cfg.dir>>} /\ UNCHANGED <<save, images, pictures, calmSaves>>
    BY <1>3 DEF OpenHistory, calmVars, dataVars
  <2> QED BY <1>0, <2>1
    DEF ConfInv, RuntimeConfigTypeOK, BeforeTheChange, WrittenFits, AfterTheChange
<1>4. CASE ListImages
  <2> DEFINE files == IF save.previous.dir = cfg.dir THEN {} ELSE images[save.previous.dir]
  <2>1. /\ save.pc = "images" /\ save' = [save EXCEPT !.pc = "move", !.files = files]
        /\ UNCHANGED <<images, pictures, calmSaves, writing>>
    BY <1>4 DEF ListImages, calmVars, dataVars, heldVars
  <2>2. files \in SUBSET Files /\ files \subseteq pictures BY <1>0 DEF ConfInv
  <2>3. calmSaves => pictures \subseteq files \cup images[cfg.dir] /\ stored[cfg.backend] = known
    BY <2>1 DEF ConfInv, AfterTheChange
  <2> HIDE DEF files
  <2>4. /\ save'.files = files /\ save'.pc = "move" /\ save' \in SaveInProgress
        /\ save'.previous = save.previous
    BY <1>0, <2>1, <2>2 DEF SaveInProgress, SavePC
  <2> QED BY <1>0, <2>1, <2>2, <2>3, <2>4
    DEF ConfInv, RuntimeConfigTypeOK, BeforeTheChange, WrittenFits, AfterTheChange
<1> QED BY <1>1, <1>2, <1>3, <1>4

\* Accounts are added and deleted in the store that a request holds.
LEMMA AccountsChange ==
  ASSUME ConfInv,
         \/ RequestEnds
         \/ \E a \in StoredAccounts :
              HoldStore(a) \/ \E p \in ConfiguredPlace : AddAccounts(a, p) \/ DeleteAccounts(a, p)
  PROVE  ConfInv'
<1>0. /\ open \in ConfiguredPlace /\ stored \in [ConfiguredPlace -> SUBSET StoredAccounts]
      /\ calmSaves \in BOOLEAN /\ cfg.backend \in ConfiguredPlace
      /\ UNCHANGED <<up, override, remote, cfg, open, save, saves, images, pictures>>
      /\ Saved' = Saved
  BY ConfTyped DEF RequestEnds, HoldStore, AddAccounts, DeleteAccounts, ChangesStore, Saved, dataVars
<1>1. ASSUME NEW a \in StoredAccounts, NEW p \in ConfiguredPlace,
             AddAccounts(a, p) \/ DeleteAccounts(a, p)
      PROVE  ConfInv'
  <2>1. /\ stored' \in [ConfiguredPlace -> SUBSET StoredAccounts] /\ known' \subseteq StoredAccounts
        /\ p = open /\ stored[open] = known => stored'[open] = known'
        /\ astray' \in BOOLEAN
    <3>1. CASE AddAccounts(a, p)
      <4>1. /\ stored' = [stored EXCEPT ![p] = stored[p] \cup {a}]
            /\ known' = known \cup {a} /\ astray' = (astray \/ p # open)
        BY <3>1 DEF AddAccounts, ChangesStore
      <4> QED BY <1>0, <4>1 DEF ConfInv, RuntimeConfigTypeOK
    <3>2. CASE DeleteAccounts(a, p)
      <4>1. /\ stored' = [stored EXCEPT ![p] = stored[p] \ {a}]
            /\ known' = known \ {a} /\ astray' = astray
        BY <3>2 DEF DeleteAccounts, ChangesStore
      <4> QED BY <1>0, <4>1 DEF ConfInv, RuntimeConfigTypeOK
    <3> QED BY <1>1, <3>1, <3>2
  <2>2. /\ calmSaves' = (calmSaves /\ ~Copying /\ p = open) /\ holding' \subseteq holding
        /\ writing' = writing
    BY <1>1 DEF AddAccounts, DeleteAccounts, ChangesStore
  <2>3. calmSaves' => calmSaves /\ p = open /\ save.pc \notin {"replace", "images", "move"}
    BY <2>2 DEF Copying
  <2>4. calmSaves' \in BOOLEAN BY <1>0, <2>2 DEF Copying
  <2> QED BY <1>0, <2>1, <2>2, <2>3, <2>4
    DEF ConfInv, RuntimeConfigTypeOK, BeforeTheChange, WrittenFits, AfterTheChange
<1>2. ASSUME NEW a \in StoredAccounts, HoldStore(a) PROVE ConfInv'
  <2>1. /\ holding' = holding \cup {<<a, open>>}
        /\ UNCHANGED <<stored, known, calmSaves, astray, writing>>
    BY <1>2 DEF HoldStore, calmVars, dataVars
  <2> QED BY <1>0, <2>1
    DEF ConfInv, RuntimeConfigTypeOK, BeforeTheChange, WrittenFits, AfterTheChange
<1>3. CASE RequestEnds
  <2>1. /\ holding' \subseteq holding /\ writing' \subseteq writing
        /\ UNCHANGED <<stored, known, calmSaves, astray>>
    BY <1>3 DEF RequestEnds, calmVars, dataVars
  <2> QED BY <1>0, <2>1
    DEF ConfInv, RuntimeConfigTypeOK, BeforeTheChange, WrittenFits, AfterTheChange
<1> QED BY <1>1, <1>2, <1>3

\* A save fails, the process dies, or it starts.
LEMMA ProcessChanges ==
  ASSUME ConfInv, SaveFails \/ Crash \/ StartServer
  PROVE  ConfInv'
<1>0. /\ open \in ConfiguredPlace /\ stored \in [ConfiguredPlace -> SUBSET StoredAccounts]
      /\ calmSaves \in BOOLEAN /\ "idle" \in SavePC
      /\ UNCHANGED <<override, remote, saves, images, known, pictures, astray>>
      /\ Saved' = Saved /\ holding' \subseteq holding /\ writing' \subseteq writing
  BY ConfTyped DEF SaveFails, Crash, StartServer, dataVars, heldVars, Saved, SavePC
<1>1. CASE SaveFails
  <2>1. Continue("idle") /\ calmSaves' = FALSE /\ UNCHANGED <<up, cfg, open, stored>>
    BY <1>1 DEF SaveFails, dataVars
  <2> QED BY <1>0, <2>1, SaveTyped DEF ConfInv, RuntimeConfigTypeOK
<1>2. CASE Crash
  <2>1. /\ Continue("idle") /\ calmSaves' = (calmSaves /\ save.pc \in {"idle", "write"})
        /\ UNCHANGED <<cfg, open, stored>> /\ up' = FALSE
    BY <1>2 DEF Crash, dataVars
  <2> QED BY <1>0, <2>1, SaveTyped
    DEF ConfInv, RuntimeConfigTypeOK, BeforeTheChange, WrittenFits, AfterTheChange
<1>3. CASE StartServer
  <2>1. /\ ~up /\ up' = TRUE /\ Saved.valid /\ cfg' = Saved /\ open' = Saved.backend
        /\ stored' = Opened(Saved.backend) /\ save' = save
        /\ calmSaves' = (calmSaves /\ ~Revives(Saved.backend))
    BY <1>3 DEF StartServer
  <2>2. save.pc = "idle" BY <2>1 DEF ConfInv
  <2>3. Saved \in Config /\ Saved.backend \in ConfiguredPlace
    <3>1. Saved \in Config \cup {NoConfig} BY ConfTyped
    <3>2. Saved # NoConfig BY <2>1 DEF NoConfig
    <3> QED BY <3>1, <3>2 DEF Config
  <2>4. stored' \in [ConfiguredPlace -> SUBSET StoredAccounts] BY <2>1, <2>3, ConfTyped
  <2>5. calmSaves' \in BOOLEAN BY <1>0, <2>1 DEF Revives
  <2>6. ASSUME calmSaves'
        PROVE  /\ stored'[open'] = known /\ pictures \subseteq images[cfg'.dir]
               /\ cfg' = Saved /\ cfg'.valid /\ open' = cfg'.backend
    <3>1. /\ open = cfg.backend /\ stored[open] = known /\ Saved = cfg
          /\ pictures \subseteq images[cfg.dir] /\ ~Revives(Saved.backend)
      BY <2>1, <2>2, <2>6 DEF ConfInv, BeforeTheChange, WrittenFits
    <3> QED BY <1>0, <2>1, <2>3, <3>1, OpenedKeeps
  <2> QED BY <1>0, <2>1, <2>2, <2>3, <2>4, <2>5, <2>6
    DEF ConfInv, RuntimeConfigTypeOK, BeforeTheChange, WrittenFits, AfterTheChange
<1> QED BY <1>1, <1>2, <1>3

THEOREM ConfContinues ==
  ASSUME ConfInv, [RuntimeConfigNext]_runtimeVars
  PROVE  ConfInv'
<1>1. CASE RuntimeConfigNext
  BY <1>1, SaveIsWritten, StoreMoves, PicturesMove, AccountsChange, ProcessChanges
  DEF RuntimeConfigNext
<1>2. CASE UNCHANGED runtimeVars
  BY <1>2
  DEF runtimeVars, dataVars, heldVars, calmVars, ConfInv, RuntimeConfigTypeOK, BeforeTheChange, WrittenFits,
      AfterTheChange, Saved
<1> QED BY <1>1, <1>2

LEMMA CutShortBegins == RuntimeConfigInit => CutShortFits
BY DEF RuntimeConfigInit, CutShortFits

LEMMA InvLosesNothing == CutShortFits => CutShortSavesLoseNothing
BY DEF CutShortFits, CutShortSavesLoseNothing

\* The accounts, whatever a save or a request does to them.
LEMMA AccountsAreKept ==
  ASSUME ConfInv, CutShortFits, [RuntimeConfigNext]_runtimeVars, ~astray'
  PROVE  /\ known' \subseteq stored'["file"] \cup stored'["redis"]
         /\ save'.pc = "replace" => /\ open' = cfg'.backend => save'.surplus = {}
                                    /\ save'.surplus \cap known' \subseteq stored'[open']
<1>0. /\ open \in ConfiguredPlace /\ cfg.backend \in ConfiguredPlace
      /\ stored \in [ConfiguredPlace -> SUBSET StoredAccounts] /\ save \in SaveInProgress
      /\ astray \in BOOLEAN /\ ConfiguredPlace = {"file", "redis"}
  BY ConfTyped DEF ConfiguredPlace
<1>a. save.pc = "replace" => up BY DEF ConfInv
<1>1. CASE ReopenStore \/ StartServer
  <2>1. /\ \E p \in ConfiguredPlace : stored' = stored \/ stored' = Opened(p)
        /\ astray' = astray /\ known' = known /\ save'.pc # "replace"
    <3>1. CASE ReopenStore
      <4>1. Continue("snapshot") \/ Continue("images") BY <3>1 DEF ReopenStore
      <4>2. save'.pc \in {"snapshot", "images"}
        BY <1>0, <4>1 DEF SaveInProgress, Continue
      <4> QED BY <1>0, <3>1, <4>2 DEF ReopenStore
    <3>2. CASE StartServer
      <4>1. Saved \in Config BY <3>2, ConfTyped DEF StartServer, NoConfig
      <4>2. Saved.backend \in ConfiguredPlace BY <4>1 DEF Config
      <4> QED BY <1>a, <3>2, <4>2 DEF StartServer
    <3> QED BY <1>1, <3>1, <3>2
  <2>2. PICK p \in ConfiguredPlace : stored' = stored \/ stored' = Opened(p) BY <2>1
  <2>3. known \subseteq stored["file"] \cup stored["redis"] BY <2>1 DEF CutShortFits
  <2>4. stored["file"] \subseteq stored'["file"] /\ stored["redis"] \subseteq stored'["redis"]
    BY <1>0, <2>2 DEF Opened
  <2> QED BY <2>1, <2>3, <2>4
<1>2. CASE TakeSnapshot
  <2>1. /\ calmSaves /\ ~astray /\ UNCHANGED <<stored, known, open, cfg>> /\ save.pc = "snapshot"
        /\ save'.surplus = stored[cfg.backend] \ stored[open]
    BY <1>0, <1>2 DEF TakeSnapshot, dataVars, SaveInProgress, ToDelete
  <2>2. stored[open] = known BY <2>1 DEF ConfInv, AfterTheChange
  <2> QED BY <1>0, <2>1, <2>2 DEF CutShortFits
<1>3. ASSUME NEW a \in StoredAccounts, ReplaceOne(a)
      PROVE  /\ known' \subseteq stored'["file"] \cup stored'["redis"]
             /\ open' = cfg'.backend => save'.surplus = {}
             /\ save'.surplus \cap known' \subseteq stored'[open']
  <2> DEFINE b == cfg.backend
  <2>1. /\ save.pc = "replace" /\ UNCHANGED <<open, cfg, known, astray>>
    BY <1>3 DEF ReplaceOne, calmVars
  <2>2. /\ known \subseteq stored["file"] \cup stored["redis"]
        /\ open = b => save.surplus = {}
        /\ save.surplus \cap known \subseteq stored[open]
    BY <2>1 DEF CutShortFits
  <2>3. CASE /\ save' = [save EXCEPT !.snapshot = save.snapshot \ {a}]
             /\ stored' = [stored EXCEPT ![b] = stored[b] \cup {a}]
    <3>1. save'.surplus = save.surplus BY <1>0, <2>3 DEF SaveInProgress
    <3>2. \A p \in ConfiguredPlace : stored[p] \subseteq stored'[p] BY <1>0, <2>3
    <3> QED BY <1>0, <2>1, <2>2, <3>1, <3>2
  <2>4. CASE /\ a \in save.surplus /\ save' = [save EXCEPT !.surplus = save.surplus \ {a}]
             /\ stored' = [stored EXCEPT ![b] = stored[b] \ {a}]
    <3>1. save'.surplus = save.surplus \ {a} BY <1>0, <2>4 DEF SaveInProgress
    <3>2. open # b /\ stored'[open] = stored[open] /\ stored'[b] = stored[b] \ {a}
      BY <1>0, <2>2, <2>4
    <3>3. a \in known => a \in stored[open] BY <2>2, <2>4
    <3> QED BY <1>0, <2>1, <2>2, <3>1, <3>2, <3>3
  <2> QED BY <1>3, <2>3, <2>4 DEF ReplaceOne
<1>4. ASSUME NEW a \in StoredAccounts, NEW p \in ConfiguredPlace, AddAccounts(a, p)
      PROVE  /\ known' \subseteq stored'["file"] \cup stored'["redis"]
             /\ save'.pc = "replace" => /\ open' = cfg'.backend => save'.surplus = {}
                                        /\ save'.surplus \cap known' \subseteq stored'[open']
  <2>1. /\ ~astray /\ p = open /\ UNCHANGED <<open, cfg, save>> /\ known' = known \cup {a}
        /\ stored' = [stored EXCEPT ![p] = stored[p] \cup {a}]
    BY <1>0, <1>4 DEF AddAccounts, ChangesStore
  <2>2. stored'[open] = stored[open] \cup {a}
        /\ \A q \in ConfiguredPlace : stored[q] \subseteq stored'[q]
    BY <1>0, <2>1
  <2> QED BY <1>0, <2>1, <2>2 DEF CutShortFits
<1>5. ASSUME NEW a \in StoredAccounts, NEW p \in ConfiguredPlace, DeleteAccounts(a, p)
      PROVE  /\ known' \subseteq stored'["file"] \cup stored'["redis"]
             /\ save'.pc = "replace" => /\ open' = cfg'.backend => save'.surplus = {}
                                        /\ save'.surplus \cap known' \subseteq stored'[open']
  <2>1. /\ ~astray /\ UNCHANGED <<open, cfg, save>> /\ known' = known \ {a}
        /\ stored' = [stored EXCEPT ![p] = stored[p] \ {a}]
    BY <1>0, <1>5 DEF DeleteAccounts, ChangesStore
  <2>2. \A q \in ConfiguredPlace : stored[q] \ {a} \subseteq stored'[q]
    BY <1>0, <2>1
  <2> QED BY <1>0, <2>1, <2>2 DEF CutShortFits
<1>6. CASE /\ UNCHANGED <<stored, known, astray>>
           /\ \/ UNCHANGED <<save, open, cfg>>
              \/ save'.pc # "replace"
  BY <1>6 DEF CutShortFits
<1>7. CASE \/ BeginSaveConfig \/ SaveOverrides \/ SaveRemote \/ PersistOverrideFile
           \/ ApplyOverrides \/ Replaced \/ ListImages \/ SwapRuntime \/ SaveFails \/ Crash
  <2>1. /\ UNCHANGED <<stored, known, astray>>
    BY <1>7
    DEF BeginSaveConfig, SaveOverrides, SaveRemote, PersistOverrideFile, ApplyOverrides, Replaced,
        ListImages, SwapRuntime, SaveFails, Crash, dataVars, calmVars
  <2>2. save'.pc # "replace"
    <3>1. CASE BeginSaveConfig BY <3>1 DEF BeginSaveConfig
    <3>2. CASE ListImages BY <1>0, <3>2 DEF ListImages, SaveInProgress
    <3>3. CASE ~BeginSaveConfig /\ ~ListImages
      <4>1. \E pc \in {"bootstrap", "apply", "reload", "idle", "images"} : Continue(pc)
        BY <1>7, <3>3
        DEF SaveOverrides, SaveRemote, PersistOverrideFile, ApplyOverrides, Replaced,
            SwapRuntime, SaveFails, Crash
      <4> QED BY <1>0, <4>1 DEF Continue, SaveInProgress
    <3> QED BY <3>1, <3>2, <3>3
  <2> QED BY <1>6, <2>1, <2>2
<1>8. CASE \/ RequestEnds \/ UNCHANGED runtimeVars
           \/ \E a \in StoredAccounts : HoldStore(a)
           \/ \E f \in Files : OpenHistory(f) \/ \E d \in Dirs : SaveFile(f, d)
  BY <1>6, <1>8
  DEF RequestEnds, HoldStore, OpenHistory, SaveFile, runtimeVars, dataVars, calmVars
<1>9. ASSUME NEW f \in Files, MoveImage(f)
      PROVE  UNCHANGED <<stored, known, astray>> /\ save'.pc # "replace"
  BY <1>0, <1>9 DEF MoveImage, calmVars, SaveInProgress
<1>10. CASE \E a \in StoredAccounts : ReplaceOne(a)
  BY <1>3, <1>10
<1> QED BY <1>1, <1>2, <1>4, <1>5, <1>6, <1>7, <1>8, <1>9, <1>10 DEF RuntimeConfigNext

\* Every step leaves each picture somewhere.
LEMMA PicturesAreSomewhere ==
  ASSUME ConfInv, CutShortFits, [RuntimeConfigNext]_runtimeVars
  PROVE  \A f \in pictures' : \E d \in Dirs : f \in images'[d]
<1>0. /\ images \in [Dirs -> SUBSET Files] /\ cfg.dir \in Dirs /\ save.previous.dir \in Dirs
  BY ConfTyped
<1>1. \A f \in pictures : \E d \in Dirs : f \in images[d] BY DEF CutShortFits
<1>2. CASE UNCHANGED <<images, pictures>> BY <1>1, <1>2
<1>3. ASSUME NEW x \in Files, MoveImage(x)
      PROVE  \A f \in pictures' : \E d \in Dirs : f \in images'[d]
  <2>1. /\ pictures' = pictures
        /\ images' = [images EXCEPT ![save.previous.dir] = @ \ {x}, ![cfg.dir] = @ \cup {x}]
    BY <1>3 DEF MoveImage
  <2>2. /\ x \in images'[cfg.dir]
        /\ \A d \in Dirs : images[d] \ {x} \subseteq images'[d]
    BY <1>0, <2>1
  <2> QED BY <1>0, <1>1, <2>1, <2>2
<1>4. ASSUME NEW x \in Files, NEW dir \in Dirs, SaveFile(x, dir)
      PROVE  \A f \in pictures' : \E d \in Dirs : f \in images'[d]
  <2>1. /\ pictures' = pictures \cup {x}
        /\ images' = [images EXCEPT ![dir] = images[dir] \cup {x}]
    BY <1>4 DEF SaveFile
  <2>2. x \in images'[dir] /\ \A d \in Dirs : images[d] \subseteq images'[d]
    BY <1>0, <2>1
  <2> QED BY <1>1, <2>1, <2>2
<1>5. ASSUME NEW a \in StoredAccounts, ReplaceOne(a) \/ HoldStore(a)
      PROVE  UNCHANGED <<images, pictures>>
  BY <1>5 DEF ReplaceOne, HoldStore, dataVars
<1>6. ASSUME NEW a \in StoredAccounts, NEW p \in ConfiguredPlace,
             AddAccounts(a, p) \/ DeleteAccounts(a, p)
      PROVE  UNCHANGED <<images, pictures>>
  BY <1>6 DEF AddAccounts, DeleteAccounts, ChangesStore
<1>7. ASSUME NEW f \in Files, OpenHistory(f) PROVE UNCHANGED <<images, pictures>>
  BY <1>7 DEF OpenHistory, dataVars
<1>8. CASE \/ BeginSaveConfig \/ SaveOverrides \/ SaveRemote \/ PersistOverrideFile
           \/ ApplyOverrides \/ ReopenStore \/ TakeSnapshot \/ Replaced \/ ListImages
           \/ SwapRuntime \/ SaveFails \/ RequestEnds \/ Crash \/ StartServer
  BY <1>2, <1>8
  DEF BeginSaveConfig, SaveOverrides, SaveRemote, PersistOverrideFile, ApplyOverrides, Replaced,
      ReopenStore, TakeSnapshot, ListImages, SwapRuntime, SaveFails, RequestEnds, Crash,
      StartServer, dataVars
<1>9. CASE UNCHANGED runtimeVars BY <1>2, <1>9 DEF runtimeVars, dataVars
<1> QED BY <1>2, <1>3, <1>4, <1>5, <1>6, <1>7, <1>8, <1>9 DEF RuntimeConfigNext

THEOREM CutShortContinues ==
  ASSUME ConfInv, CutShortFits, [RuntimeConfigNext]_runtimeVars
  PROVE  CutShortFits'
BY AccountsAreKept, PicturesAreSomewhere DEF CutShortFits

\* The settings, the stores and the directories keep their types (RuntimeConfig).
THEOREM ConfTypes == RuntimeConfigSpec => []RuntimeConfigTypeOK
<1>1. ConfInv => RuntimeConfigTypeOK BY DEF ConfInv
<1> QED BY <1>1, ConfBegins, ConfContinues, PTL DEF RuntimeConfigSpec

\* Saves that nothing cuts short or refuses, and no request crosses with the store or the
\* directory of before, keep every account and every picture, through changes of backend
\* and directory and through restarts, for any number of accounts, pictures, directories,
\* requests and saves (saveConfigOverrides, reloadRuntimeDependencies, NewStore).
THEOREM ConfHolds == RuntimeConfigSpec => []CalmSavesKeepData
<1> QED BY InvKeepsData, ConfBegins, ConfContinues, PTL DEF RuntimeConfigSpec

\* A save that fails, that the process does not survive, or that changes of the accounts
\* cross, loses no account before a later save copies over it (TakeSnapshot, ReplaceOne),
\* and no picture ever (MoveImage, SaveFile); for any number of each.
THEOREM CutShortHolds == RuntimeConfigSpec => []CutShortSavesLoseNothing
BY InvLosesNothing, ConfBegins, ConfContinues, CutShortBegins, CutShortContinues, PTL
   DEF RuntimeConfigSpec

-----------------------------------------------------------------------------
(***************************************************************************)
(* A run of the synchronisation.  While nothing has failed and nobody else *)
(* has changed anything, every account is either arrived or still on the   *)
(* list of what there is to do.                                            *)
(***************************************************************************)

\* Both sides can hold a file of their service.
FileCopies == {c \in Copies({"file"}) : IF source = "cpa" THEN c.version = 1 ELSE ~c.disabled}

TaskFits(t) ==
  /\ t \in SyncTask /\ t.copy \in FileCopies
  /\ t.op \in {"export", "import"} <=> source # "cpa"
  /\ t.op \in {"upload", "export"} => syncRun.direction = "push"
  /\ t.op \in {"download", "import"} => syncRun.direction = "pull"

Untroubled == syncRun.ok /\ ~syncRun.failed /\ syncRun.quiet

Listed(n, ops) == \E t \in syncRun.todo : t.name = n /\ t.op \in ops

SameFlagSoon(n) ==
  source = "cpa" => here[n].disabled = there[n].disabled \/ Listed(n, {"align"})

Sent(n) ==
  \/ Listed(n, {"upload", "export"})
  \/ there[n].kind # "none" /\ SameFlagSoon(n)

PushFits ==
  /\ here = syncRun.seen
  /\ \A t \in syncRun.todo : /\ t.copy = syncRun.seen[t.name]
                             /\ t.op = "upload" => there[t.name].kind = "none"
  /\ \A n \in AccountNames : Syncable(n) => Sent(n)

Fetched(n) ==
  \/ Listed(n, {"download", "import"})
  \/ here[n].kind # "none" /\ here[n].version >= there[n].version /\ SameFlagSoon(n)

PullFits ==
  /\ \A t \in syncRun.todo : /\ t.copy = there[t.name]
                             /\ t.op = "download" => ~Syncable(t.name)
  /\ \A n \in AccountNames : /\ there[n].kind = "file" => Fetched(n)
                             /\ Syncable(n) => /\ here[n].kind = "file"
                                               /\ here[n].version >= syncRun.seen[n].version

SyncInv ==
  /\ AccountSyncTypeOK
  /\ \A t \in syncRun.todo : TaskFits(t)
  /\ \A n \in AccountNames : syncRun.seen[n] \in HereCopies
  /\ syncRun.pc = "list" /\ syncRun.quiet => here = syncRun.seen
  /\ syncRun.pc \in {"work", "over"} /\ Untroubled =>
       /\ syncRun.direction = "push" => PushFits
       /\ syncRun.direction = "pull" => PullFits
  /\ syncRun.pc = "over" /\ Untroubled => syncRun.todo = {}

LEMMA CopiesTyped ==
  ASSUME SyncInv
  PROVE  /\ here \in [AccountNames -> HereCopies] /\ there \in [AccountNames -> ThereCopies]
         /\ syncRun \in SyncRun /\ MaxVersion \in Nat /\ 1 \in 1..MaxVersion
         /\ synced \subseteq AccountNames /\ source \in {"cpa", "sub2api", "newapi"}
         /\ \A n \in AccountNames : /\ here[n] \in HereCopies /\ there[n] \in ThereCopies
                                    /\ here[n].version \in Nat /\ there[n].version \in Nat
                                    /\ syncRun.seen[n].version \in Nat
                                    /\ syncRun.seen[n] \in HereCopies
<1>1. MaxVersion \in Nat /\ 1 \in 1..MaxVersion BY AccountSyncAssumption
<1>2. \A c \in HereCopies \cup ThereCopies : c.version \in Nat
  BY <1>1 DEF HereCopies, ThereCopies, Copies, NoCopy
<1> QED BY <1>1, <1>2 DEF SyncInv, AccountSyncTypeOK

\* The invariant says what is promised.
LEMMA InvKeepsCopies == SyncInv => QuietSyncAgrees
<1> SUFFICES ASSUME SyncInv, syncRun.pc = "over", Untroubled, NEW n \in AccountNames
             PROVE  /\ syncRun.direction = "push" /\ here[n].kind = "file" =>
                         /\ there[n].kind # "none"
                         /\ source = "cpa" => here[n].disabled = there[n].disabled
                    /\ syncRun.direction = "pull" /\ there[n].kind = "file" =>
                         /\ here[n].kind # "none"
                         /\ source = "cpa" => here[n].disabled = there[n].disabled
                         /\ here[n].version >= there[n].version
                    /\ Syncable(n) => /\ here[n].kind = "file"
                                      /\ here[n].version >= syncRun.seen[n].version
  BY DEF QuietSyncAgrees, Untroubled
<1>1. syncRun.todo = {} /\ \A ops : ~Listed(n, ops) BY DEF SyncInv, Listed
<1>2. here[n].version \in Nat /\ syncRun.direction \in {"push", "pull"}
  BY CopiesTyped DEF SyncRun
<1>3. CASE syncRun.direction = "push"
  <2>1. PushFits BY <1>3 DEF SyncInv
  <2> QED BY <1>1, <1>2, <1>3, <2>1 DEF PushFits, Sent, SameFlagSoon, Syncable
<1>4. CASE syncRun.direction = "pull"
  <2>1. PullFits BY <1>4 DEF SyncInv
  <2> QED BY <1>1, <1>4, <2>1 DEF PullFits, Fetched, SameFlagSoon
<1> QED BY <1>2, <1>3, <1>4

THEOREM SyncBegins == AccountSyncInit => SyncInv
<1> SUFFICES ASSUME AccountSyncInit PROVE SyncInv OBVIOUS
<1>1. MaxVersion \in Nat /\ 1 \in 1..MaxVersion /\ 0 \in 0..MaxSyncChanges
  BY AccountSyncAssumption
<1>2. NoCopy \in HereCopies /\ NoCopy \in Copies({"none", "file", "token"})
  BY <1>1 DEF HereCopies, NoCopy, Copies
<1>3. /\ syncRun \in SyncRun /\ syncRun.pc = "read" /\ syncRun.todo = {}
      /\ syncRun.seen = [n \in AccountNames |-> NoCopy]
  BY <1>2 DEF AccountSyncInit, SyncRun
<1>4. \A n \in AccountNames : syncRun.seen[n] \in HereCopies BY <1>2, <1>3
<1>5. AccountSyncTypeOK BY <1>1, <1>3 DEF AccountSyncInit, AccountSyncTypeOK
<1> QED BY <1>3, <1>4, <1>5 DEF SyncInv

\* The run reads.
LEMMA ReadHereSafe ==
  ASSUME SyncInv, ReadHere
  PROVE  SyncInv'
<1>0. /\ syncRun.pc = "read" /\ syncRun' = [syncRun EXCEPT !.pc = "list", !.seen = here]
      /\ UNCHANGED <<source, here, there, synced, syncChanges>>
  BY DEF ReadHere
<1>1. here \in [AccountNames -> Copies({"none", "file", "token"})]
  <2>1. NoCopy \in Copies({"none", "file", "token"}) BY CopiesTyped DEF NoCopy, Copies
  <2>2. Copies({"file", "token"}) \subseteq Copies({"none", "file", "token"}) BY DEF Copies
  <2>3. HereCopies \subseteq Copies({"none", "file", "token"}) BY <2>1, <2>2 DEF HereCopies
  <2> QED BY <2>3, CopiesTyped
<1>2. /\ syncRun' \in SyncRun /\ syncRun'.pc = "list" /\ syncRun'.seen = here
      /\ syncRun'.todo = syncRun.todo /\ syncRun'.direction = syncRun.direction
  BY <1>0, <1>1, CopiesTyped DEF SyncRun
<1>3. AccountSyncTypeOK'
  BY <1>0, <1>2 DEF SyncInv, AccountSyncTypeOK, HereCopies, ThereCopies
<1>4. HereCopies' = HereCopies /\ FileCopies' = FileCopies BY <1>0 DEF HereCopies, FileCopies
<1> QED BY <1>0, <1>2, <1>3, <1>4, CopiesTyped DEF SyncInv, TaskFits

\* What a push lists, of CPA and of the others.
LEMMA PushTasks ==
  ASSUME SyncInv, syncRun.direction = "push",
         NEW t \in IF source = "cpa" THEN CPATasks ELSE OtherTasks
  PROVE  /\ TaskFits(t) /\ t.copy = syncRun.seen[t.name]
         /\ t.op = "upload" => there[t.name].kind = "none"
<1>1. PICK n \in AccountNames, op \in {"upload", "align", "export"} :
        /\ t = [op |-> op, name |-> n, copy |-> syncRun.seen[n]] /\ Syncable(n)
        /\ op = "export" <=> source # "cpa"
        /\ op = "upload" => there[n].kind = "none"
  BY DEF CPATasks, OtherTasks, Tasks, MissingThere, Seen
<1>2. syncRun.seen[n] \in FileCopies /\ FileCopies \subseteq Copies({"file", "token"})
  BY <1>1, CopiesTyped DEF Syncable, HereCopies, NoCopy, FileCopies, Copies
<1> QED BY <1>1, <1>2 DEF TaskFits, SyncTask

LEMMA PullTasks ==
  ASSUME SyncInv, syncRun.direction = "pull",
         NEW t \in IF source = "cpa" THEN CPATasks ELSE OtherTasks
  PROVE  /\ TaskFits(t) /\ t.copy = there[t.name]
         /\ t.op = "download" => ~Syncable(t.name)
<1>1. PICK n \in AccountNames, op \in {"download", "align", "import"} :
        /\ t = [op |-> op, name |-> n, copy |-> there[n]]
        /\ there[n].kind # "none" /\ (op = "import" <=> source # "cpa")
        /\ op = "import" => there[n].kind = "file"
        /\ op = "download" => ~Syncable(n)
  BY DEF CPATasks, OtherTasks, Tasks, SeenThere
<1>2. there[n] \in FileCopies /\ FileCopies \subseteq Copies({"file", "token"})
  BY <1>1, CopiesTyped DEF ThereCopies, NoCopy, FileCopies, Copies
<1> QED BY <1>1, <1>2 DEF TaskFits, SyncTask

\* The run has listed what there is to do.
LEMMA ListThereSafe ==
  ASSUME SyncInv, ListThere
  PROVE  SyncInv'
<1> DEFINE tasks == IF source = "cpa" THEN CPATasks ELSE OtherTasks
<1>0. /\ syncRun.pc = "list" /\ UNCHANGED <<source, here, there, synced, syncChanges>>
      /\ syncRun \in SyncRun /\ syncRun.direction \in {"push", "pull"}
      /\ HereCopies' = HereCopies /\ FileCopies' = FileCopies /\ ThereCopies' = ThereCopies
  BY CopiesTyped DEF ListThere, SyncRun, HereCopies, FileCopies, ThereCopies
<1>1. \A t \in tasks : TaskFits(t) BY <1>0, PushTasks, PullTasks
<1>2. CASE syncRun' = [syncRun EXCEPT !.pc = "over", !.ok = FALSE]
  <2>1. /\ syncRun' \in SyncRun /\ syncRun'.seen = syncRun.seen /\ syncRun'.pc = "over"
        /\ syncRun'.todo = syncRun.todo /\ syncRun'.direction = syncRun.direction
        /\ ~syncRun'.ok
    BY <1>0, <1>2 DEF SyncRun
  <2> QED BY <1>0, <2>1 DEF SyncInv, AccountSyncTypeOK, TaskFits, Untroubled
<1>3. CASE syncRun' = [syncRun EXCEPT !.pc = "work", !.todo = tasks]
  <2>1. tasks \in SUBSET SyncTask BY <1>1 DEF TaskFits
  <2>2. syncRun'.todo = tasks BY <1>0, <1>3 DEF SyncRun
  <2>3. \A n \in AccountNames : Syncable(n) <=> syncRun.seen[n].kind = "file" BY DEF Syncable
  <2>4. /\ syncRun.direction = "push" =>
             \A t \in tasks : /\ t.copy = syncRun.seen[t.name]
                              /\ t.op = "upload" => there[t.name].kind = "none"
        /\ syncRun.direction = "pull" =>
             \A t \in tasks : /\ t.copy = there[t.name]
                              /\ t.op = "download" => ~Syncable(t.name)
    BY PushTasks, PullTasks
  <2>5. ASSUME syncRun.direction = "push", here = syncRun.seen,
               NEW n \in AccountNames, Syncable(n)
        PROVE  \/ \E t \in tasks : t.name = n /\ t.op \in {"upload", "export"}
               \/ /\ there[n].kind # "none"
                  /\ source = "cpa" => \/ here[n].disabled = there[n].disabled
                                       \/ \E t \in tasks : t.name = n /\ t.op = "align"
    <3>1. CASE there[n].kind = "none"
      <4>1. n \in MissingThere BY <2>5, <3>1 DEF MissingThere
      <4>2. \A op : [op |-> op, name |-> n, copy |-> Seen(n)] \in Tasks(op, MissingThere, Seen)
        BY <4>1 DEF Tasks
      <4>3. \E op \in {"upload", "export"} : [op |-> op, name |-> n, copy |-> Seen(n)] \in tasks
        BY <2>5, <4>2 DEF CPATasks, OtherTasks
      <4> QED BY <3>1, <4>3
    <3>2. CASE there[n].kind # "none" /\ source = "cpa" /\ here[n].disabled # there[n].disabled
      <4>1. [op |-> "align", name |-> n, copy |-> Seen(n)] \in CPATasks
        BY <2>5, <3>2 DEF CPATasks, Tasks
      <4> QED BY <3>2, <4>1
    <3> QED BY <3>1, <3>2
  <2>6. ASSUME syncRun.direction = "pull", here = syncRun.seen,
               NEW n \in AccountNames, there[n].kind = "file"
        PROVE  \/ \E t \in tasks : t.name = n /\ t.op \in {"download", "import"}
               \/ /\ here[n].kind # "none" /\ here[n].version >= there[n].version
                  /\ source = "cpa" => \/ here[n].disabled = there[n].disabled
                                       \/ \E t \in tasks : t.name = n /\ t.op = "align"
    <3>1. CASE source # "cpa"
      <4>1. [op |-> "import", name |-> n, copy |-> SeenThere(n)] \in OtherTasks
        BY <2>6, <3>1 DEF OtherTasks, Tasks
      <4> QED BY <3>1, <4>1
    <3>2. CASE source = "cpa" /\ ~Syncable(n)
      <4>1. [op |-> "download", name |-> n, copy |-> SeenThere(n)] \in CPATasks
        BY <2>6, <3>2 DEF CPATasks, Tasks
      <4> QED BY <3>2, <4>1
    <3>3. CASE source = "cpa" /\ Syncable(n)
      <4>1. here[n].kind = "file" BY <2>6, <3>3 DEF Syncable
      <4>2. here[n].version = 1 /\ there[n].version = 1
        BY <3>3, CopiesTyped DEF HereCopies, ThereCopies, NoCopy
      <4>3. CASE here[n].disabled # there[n].disabled
        <5>1. [op |-> "align", name |-> n, copy |-> SeenThere(n)] \in CPATasks
          BY <2>6, <3>3, <4>3 DEF CPATasks, Tasks
        <5> QED BY <3>3, <4>1, <4>2, <5>1
      <4> QED BY <4>1, <4>2, <4>3
    <3> QED BY <3>1, <3>2, <3>3
  <2>7. ASSUME here = syncRun.seen, NEW n \in AccountNames, Syncable(n)
        PROVE  here[n].kind = "file" /\ here[n].version >= syncRun.seen[n].version
    BY <2>7, CopiesTyped DEF Syncable
  <2>8. Untroubled' => here = syncRun.seen
    <3>1. syncRun'.quiet = syncRun.quiet BY <1>0, <1>3 DEF SyncRun
    <3> QED BY <1>0, <3>1 DEF Untroubled, SyncInv
  <2> HIDE DEF tasks
  <2>9. /\ syncRun' \in SyncRun /\ syncRun'.seen = syncRun.seen /\ syncRun'.pc = "work"
        /\ syncRun'.direction = syncRun.direction
    BY <1>0, <1>3, <2>1 DEF SyncRun
  <2>10. AccountSyncTypeOK' BY <1>0, <2>9 DEF SyncInv, AccountSyncTypeOK
  <2>11. \A t \in syncRun'.todo : TaskFits(t)'
    BY <1>0, <1>1, <2>2, <2>9 DEF TaskFits
  <2>12. ASSUME Untroubled', syncRun.direction = "push" PROVE PushFits'
    BY <1>0, <2>2, <2>4, <2>5, <2>8, <2>9, <2>12
    DEF PushFits, Syncable, Sent, Listed, SameFlagSoon
  <2>13. ASSUME Untroubled', syncRun.direction = "pull" PROVE PullFits'
    BY <1>0, <2>2, <2>4, <2>6, <2>7, <2>8, <2>9, <2>13
    DEF PullFits, Syncable, Fetched, Listed, SameFlagSoon
  <2> QED BY <1>0, <2>9, <2>10, <2>11, <2>12, <2>13, CopiesTyped DEF SyncInv
<1> QED BY <1>2, <1>3 DEF ListThere

\* One thing is done, or failed.
LEMMA TaskSafe ==
  ASSUME SyncInv, syncRun.pc = "work", NEW t \in syncRun.todo, NEW r \in SyncRun, syncRun' = r,
         r.pc = "work", r.seen = syncRun.seen, r.direction = syncRun.direction,
         r.todo \subseteq syncRun.todo,
         r.ok /\ ~r.failed /\ r.quiet => Untroubled /\ r.todo = syncRun.todo \ {t},
         UNCHANGED <<source, syncChanges>>, synced' \subseteq AccountNames,
         here' \in [AccountNames -> HereCopies], there' \in [AccountNames -> ThereCopies],
         \A n \in AccountNames : n # t.name => here'[n] = here[n] /\ there'[n] = there[n],
         r.ok /\ ~r.failed /\ r.quiet =>
           /\ syncRun.direction = "push" =>
                /\ here' = here /\ there'[t.name].kind # "none"
                /\ t.op # "upload" /\ source = "cpa" => there[t.name].kind # "none"
                /\ source = "cpa" => here[t.name].disabled = there'[t.name].disabled
           /\ syncRun.direction = "pull" =>
                /\ there' = there /\ here'[t.name].kind # "none"
                /\ here'[t.name].version >= there[t.name].version
                /\ source = "cpa" => here'[t.name].disabled = there[t.name].disabled
                /\ Syncable(t.name) => /\ here'[t.name].kind = "file"
                                       /\ here'[t.name].version >= syncRun.seen[t.name].version
  PROVE  SyncInv'
<1>0. /\ HereCopies' = HereCopies /\ FileCopies' = FileCopies /\ ThereCopies' = ThereCopies
      /\ \A n \in AccountNames : Syncable(n)' <=> Syncable(n)
  BY DEF HereCopies, FileCopies, ThereCopies, Syncable
<1>1. AccountSyncTypeOK' BY <1>0 DEF SyncInv, AccountSyncTypeOK
<1>2. \A x \in syncRun'.todo : TaskFits(x)' BY <1>0 DEF SyncInv, TaskFits
<1>3. \A n \in AccountNames : syncRun'.seen[n] \in HereCopies' BY <1>0, CopiesTyped
<1>4. ASSUME Untroubled' PROVE Untroubled /\ syncRun'.todo = syncRun.todo \ {t}
  BY <1>4 DEF Untroubled
<1>5. ASSUME Untroubled', NEW n \in AccountNames, n # t.name, NEW ops
      PROVE  Listed(n, ops)' <=> Listed(n, ops)
  BY <1>4, <1>5 DEF Listed
<1>6. ASSUME Untroubled', syncRun.direction = "push" PROVE PushFits'
  <2>1. PushFits BY <1>4, <1>6 DEF SyncInv
  <2>2. /\ here' = here /\ there'[t.name].kind # "none"
        /\ source = "cpa" => here'[t.name].disabled = there'[t.name].disabled
    BY <1>6 DEF Untroubled
  <2>3. ASSUME NEW n \in AccountNames, Syncable(n) PROVE Sent(n)'
    <3>1. CASE n = t.name BY <2>2, <3>1 DEF Sent, SameFlagSoon
    <3>2. CASE n # t.name
      <4>1. Sent(n) BY <2>1, <2>3 DEF PushFits
      <4> QED BY <1>5, <1>6, <2>2, <3>2, <4>1 DEF Sent, SameFlagSoon
    <3> QED BY <3>1, <3>2
  <2>4. here' = syncRun'.seen BY <2>1, <2>2 DEF PushFits
  <2>5. ASSUME NEW x \in syncRun'.todo
        PROVE  /\ x.copy = syncRun'.seen[x.name]
               /\ x.op = "upload" => there'[x.name].kind = "none"
    <3>1. /\ x \in syncRun.todo /\ x # t /\ x.name \in AccountNames
          /\ x.copy = syncRun.seen[x.name] /\ t.copy = syncRun.seen[t.name]
          /\ x.op = "upload" => there[x.name].kind = "none"
      BY <1>4, <1>6, <2>1 DEF PushFits, SyncInv, TaskFits, SyncTask
    <3>2. ASSUME x.op = "upload" PROVE there'[x.name].kind = "none"
      <4>1. CASE x.name # t.name BY <3>1, <3>2, <4>1
      <4>2. CASE x.name = t.name
        <5>1. x \in SyncTask /\ t \in SyncTask BY <3>1 DEF SyncInv, TaskFits
        <5>2. t.op # "upload" BY <3>1, <3>2, <4>2, <5>1 DEF SyncTask
        <5>3. source = "cpa" BY <3>1, <3>2 DEF SyncInv, TaskFits
        <5>4. there[t.name].kind # "none" BY <1>6, <5>2, <5>3 DEF Untroubled
        <5> QED BY <3>1, <3>2, <4>2, <5>4
      <4> QED BY <4>1, <4>2
    <3> QED BY <3>1, <3>2
  <2> QED BY <1>0, <2>3, <2>4, <2>5 DEF PushFits
<1>7. ASSUME Untroubled', syncRun.direction = "pull" PROVE PullFits'
  <2>1. PullFits BY <1>4, <1>7 DEF SyncInv
  <2>2. /\ there' = there /\ here'[t.name].kind # "none"
        /\ here'[t.name].version >= there[t.name].version
        /\ source = "cpa" => here'[t.name].disabled = there'[t.name].disabled
        /\ Syncable(t.name) => /\ here'[t.name].kind = "file"
                               /\ here'[t.name].version >= syncRun.seen[t.name].version
    BY <1>7 DEF Untroubled
  <2>3. ASSUME NEW n \in AccountNames, there'[n].kind = "file" PROVE Fetched(n)'
    <3>1. CASE n = t.name BY <2>2, <3>1 DEF Fetched, SameFlagSoon
    <3>2. CASE n # t.name
      <4>1. Fetched(n) BY <2>1, <2>2, <2>3 DEF PullFits
      <4> QED BY <1>5, <1>7, <2>2, <3>2, <4>1 DEF Fetched, SameFlagSoon
    <3> QED BY <3>1, <3>2
  <2>4. ASSUME NEW n \in AccountNames, Syncable(n)
        PROVE  here'[n].kind = "file" /\ here'[n].version >= syncRun'.seen[n].version
    <3>1. CASE n = t.name BY <2>2, <2>4, <3>1
    <3>2. CASE n # t.name BY <2>1, <2>4, <3>2 DEF PullFits
    <3> QED BY <3>1, <3>2
  <2>5. \A x \in syncRun'.todo : /\ x.copy = there'[x.name]
                                 /\ x.op = "download" => ~Syncable(x.name)'
    <3>1. \A x \in syncRun.todo : x.name \in AccountNames
      BY DEF SyncInv, TaskFits, SyncTask
    <3> QED BY <1>0, <2>1, <2>2, <3>1 DEF PullFits
  <2> QED BY <1>0, <2>3, <2>4, <2>5 DEF PullFits
<1> QED BY <1>1, <1>2, <1>3, <1>6, <1>7 DEF SyncInv

\* A task that has failed is forgotten, and the run is not untroubled any more.
LEMMA TaskFailsSafe ==
  ASSUME SyncInv, syncRun.pc = "work", NEW t \in syncRun.todo,
         \/ TaskFailed(t)
         \/ syncRun' = [syncRun EXCEPT !.todo = @ \ {t}, !.failed = TRUE]
         \/ syncRun' = [syncRun EXCEPT !.todo = {}, !.ok = FALSE],
         UNCHANGED <<source, syncChanges>>, synced' \subseteq AccountNames,
         here' \in [AccountNames -> HereCopies], there' \in [AccountNames -> ThereCopies],
         \A n \in AccountNames : n # t.name => here'[n] = here[n] /\ there'[n] = there[n]
  PROVE  SyncInv'
<1>1. syncRun \in SyncRun /\ syncRun.todo \in SUBSET SyncTask
  BY CopiesTyped DEF SyncRun
<1>2. syncRun.todo \ {t} \in SUBSET SyncTask /\ {} \in SUBSET SyncTask BY <1>1
<1> HIDE DEF SyncTask
<1>3. /\ syncRun' \in SyncRun /\ syncRun'.pc = "work" /\ syncRun'.seen = syncRun.seen
      /\ syncRun'.direction = syncRun.direction /\ syncRun'.todo \subseteq syncRun.todo
      /\ ~(syncRun'.ok /\ ~syncRun'.failed /\ syncRun'.quiet)
  BY <1>1, <1>2 DEF SyncRun, TaskFailed
<1> QED BY <1>3, TaskSafe

\* A task is done.
LEMMA TaskDoneSafe ==
  ASSUME SyncInv, syncRun.pc = "work", NEW t \in syncRun.todo, TaskDone(t),
         UNCHANGED <<source, syncChanges>>, synced' \subseteq AccountNames,
         here' \in [AccountNames -> HereCopies], there' \in [AccountNames -> ThereCopies],
         \A n \in AccountNames : n # t.name => here'[n] = here[n] /\ there'[n] = there[n],
         Untroubled =>
           /\ syncRun.direction = "push" =>
                /\ here' = here /\ there'[t.name].kind # "none"
                /\ t.op # "upload" /\ source = "cpa" => there[t.name].kind # "none"
                /\ source = "cpa" => here[t.name].disabled = there'[t.name].disabled
           /\ syncRun.direction = "pull" =>
                /\ there' = there /\ here'[t.name].kind # "none"
                /\ here'[t.name].version >= there[t.name].version
                /\ source = "cpa" => here'[t.name].disabled = there[t.name].disabled
                /\ Syncable(t.name) => /\ here'[t.name].kind = "file"
                                       /\ here'[t.name].version >= syncRun.seen[t.name].version
  PROVE  SyncInv'
<1>1. syncRun \in SyncRun /\ syncRun.todo \in SUBSET SyncTask
  BY CopiesTyped DEF SyncRun
<1>2. syncRun.todo \ {t} \in SUBSET SyncTask BY <1>1
<1> HIDE DEF SyncTask
<1>3. /\ syncRun' \in SyncRun /\ syncRun'.pc = "work" /\ syncRun'.seen = syncRun.seen
      /\ syncRun'.direction = syncRun.direction /\ syncRun'.todo = syncRun.todo \ {t}
      /\ syncRun'.ok = syncRun.ok /\ syncRun'.failed = syncRun.failed
      /\ syncRun'.quiet = syncRun.quiet
  BY <1>1, <1>2 DEF SyncRun, TaskDone
<1> QED BY <1>3, TaskSafe DEF Untroubled

LEMMA TaskTyped ==
  ASSUME SyncInv, NEW t \in syncRun.todo
  PROVE  /\ TaskFits(t) /\ t.name \in AccountNames
         /\ t.copy \in FileCopies /\ t.copy.kind = "file" /\ t.copy.version \in Nat
         /\ t.copy \in HereCopies /\ t.copy \in ThereCopies
<1>1. TaskFits(t) /\ t.name \in AccountNames BY DEF SyncInv, TaskFits, SyncTask
<1>2. t.copy \in FileCopies BY <1>1 DEF TaskFits
<1>3. MaxVersion \in Nat BY AccountSyncAssumption
<1>4. t.copy.kind = "file" /\ t.copy.version \in Nat BY <1>2, <1>3 DEF FileCopies, Copies
<1>5. FileCopies \subseteq HereCopies /\ FileCopies \subseteq ThereCopies
  BY DEF FileCopies, HereCopies, ThereCopies, Copies
<1> QED BY <1>1, <1>2, <1>4, <1>5

LEMMA UploadSafe ==
  ASSUME SyncInv, syncRun.pc = "work", NEW t \in syncRun.todo, Upload(t),
         UNCHANGED <<source, syncChanges>>
  PROVE  SyncInv'
<1> DEFINE n == t.name
<1>0. /\ t.op = "upload" /\ here' = here /\ TaskFits(t) /\ n \in AccountNames
      /\ source = "cpa" /\ syncRun.direction = "push"
      /\ here \in [AccountNames -> HereCopies] /\ there \in [AccountNames -> ThereCopies]
      /\ synced \subseteq AccountNames
  BY TaskTyped, CopiesTyped DEF Upload, TaskFits
<1>1. CASE UNCHANGED <<there, synced>> /\ TaskFailed(t)
  BY <1>0, <1>1, TaskFailsSafe
<1>2. ASSUME here[n].kind # "none", NEW replaced \in BOOLEAN,
             there' = IF there[n].kind # "none" /\ ~replaced THEN there
                      ELSE [there EXCEPT ![n] = [here[n] EXCEPT !.kind = "file"]],
             \/ TaskDone(t) /\ synced' = synced \cup {n}
             \/ TaskFailed(t) /\ synced' = synced
      PROVE  SyncInv'
  <2> DEFINE sent == [here[n] EXCEPT !.kind = "file"]
  <2>1. sent \in ThereCopies /\ sent.kind = "file" /\ sent.disabled = here[n].disabled
    <3>1. here[n] \in HereCopies BY <1>0
    <3>2. here[n] \in Copies({"file", "token"}) /\ here[n].version = 1
      BY <1>0, <1>2, <3>1 DEF HereCopies, NoCopy
    <3>3. sent \in Copies({"file"}) /\ sent.version = 1 BY <3>2 DEF Copies
    <3>4. sent.kind = "file" /\ sent.disabled = here[n].disabled BY <3>2 DEF Copies
    <3> QED BY <1>0, <3>3, <3>4 DEF ThereCopies
  <2> HIDE DEF sent
  <2>2. there' = there \/ there' = [there EXCEPT ![n] = sent] BY <1>2 DEF sent
  <2>3. /\ there' \in [AccountNames -> ThereCopies]
        /\ \A x \in AccountNames : x # n => there'[x] = there[x]
        /\ synced' \subseteq AccountNames
    BY <1>0, <1>2, <2>1, <2>2
  <2>4. ASSUME Untroubled
        PROVE  there'[n].kind # "none" /\ here[n].disabled = there'[n].disabled
    <3>1. there[n].kind = "none" BY <1>0, <2>4 DEF SyncInv, PushFits
    <3>2. there' = [there EXCEPT ![n] = sent] BY <1>2, <3>1 DEF sent
    <3> QED BY <1>0, <2>1, <3>2
  <2>5. CASE TaskFailed(t) BY <1>0, <2>3, <2>5, TaskFailsSafe
  <2>6. CASE TaskDone(t) BY <1>0, <2>3, <2>4, <2>6, TaskDoneSafe
  <2> QED BY <1>2, <2>5, <2>6
<1> QED BY <1>1, <1>2 DEF Upload

LEMMA DownloadSafe ==
  ASSUME SyncInv, syncRun.pc = "work", NEW t \in syncRun.todo, Download(t),
         UNCHANGED <<source, syncChanges>>
  PROVE  SyncInv'
<1> DEFINE n == t.name
<1>0. /\ t.op = "download" /\ there' = there /\ TaskFits(t) /\ n \in AccountNames
      /\ source = "cpa" /\ syncRun.direction = "pull"
      /\ here \in [AccountNames -> HereCopies] /\ there \in [AccountNames -> ThereCopies]
      /\ synced \subseteq AccountNames /\ there[n].version \in Nat
  BY TaskTyped, CopiesTyped DEF Download, TaskFits
<1>1. CASE UNCHANGED <<here, synced>> /\ TaskFailed(t)
  BY <1>0, <1>1, TaskFailsSafe
<1>2. CASE /\ there[n].kind # "none" /\ here' = [here EXCEPT ![n] = there[n]]
           /\ synced' = synced \cup {n} /\ TaskDone(t)
  <2>1. there[n] \in HereCopies
    <3>1. there[n] \in ThereCopies BY <1>0
    <3>2. there[n] \in Copies({"file"}) /\ there[n].version = 1
      BY <1>0, <1>2, <3>1 DEF ThereCopies, NoCopy
    <3> QED BY <1>0, <3>2 DEF HereCopies, Copies
  <2>2. /\ here' \in [AccountNames -> HereCopies] /\ here'[n] = there[n]
        /\ \A x \in AccountNames : x # n => here'[x] = here[x]
        /\ synced' \subseteq AccountNames
    BY <1>0, <1>2, <2>1
  <2>3. Untroubled => ~Syncable(n) BY <1>0 DEF SyncInv, PullFits
  <2> QED BY <1>0, <1>2, <2>2, <2>3, TaskDoneSafe
<1> QED BY <1>1, <1>2 DEF Download

LEMMA AlignSafe ==
  ASSUME SyncInv, syncRun.pc = "work", NEW t \in syncRun.todo, Align(t),
         UNCHANGED <<source, syncChanges>>
  PROVE  SyncInv'
<1> DEFINE n == t.name
           push == syncRun.direction = "push"
<1>0. /\ t.op = "align" /\ TaskFits(t) /\ n \in AccountNames /\ source = "cpa"
      /\ syncRun.direction \in {"push", "pull"}
      /\ here \in [AccountNames -> HereCopies] /\ there \in [AccountNames -> ThereCopies]
      /\ here[n] \in HereCopies /\ there[n] \in ThereCopies
      /\ synced \subseteq AccountNames /\ there[n].version \in Nat
      /\ here[n].version = 1 /\ there[n].version = 1
      /\ t.copy.disabled \in BOOLEAN
  <2>1. source = "cpa" /\ t.op = "align" /\ TaskFits(t) BY TaskTyped DEF TaskFits, Align
  <2>2. t.copy.disabled \in BOOLEAN BY TaskTyped DEF FileCopies, Copies
  <2>3. here[n] \in HereCopies /\ there[n] \in ThereCopies BY TaskTyped, CopiesTyped
  <2>4. here[n].version = 1 /\ there[n].version = 1
    BY <2>1, <2>3 DEF HereCopies, ThereCopies, NoCopy
  <2>5. syncRun.direction \in {"push", "pull"} BY CopiesTyped DEF SyncRun
  <2> QED BY <2>1, <2>2, <2>3, <2>4, <2>5, TaskTyped, CopiesTyped
<1>1. CASE UNCHANGED <<here, there, synced>> /\ TaskFailed(t)
  BY <1>0, <1>1, TaskFailsSafe
<1>2. CASE push
  <2> DEFINE v == [there[n] EXCEPT !.disabled = t.copy.disabled]
  <2>1. CASE /\ there[n].kind # "none" /\ here' = here
             /\ there' = [there EXCEPT ![n].disabled = t.copy.disabled]
             /\ \/ TaskDone(t) /\ synced' = synced \cup {n}
                \/ TaskFailed(t) /\ synced' = synced
    <3>1. there' = [there EXCEPT ![n] = v] BY <2>1
    <3>2. v \in ThereCopies /\ v.kind = there[n].kind /\ v.disabled = t.copy.disabled
      <4>1. there[n] \in Copies({"file"}) /\ there[n].version = 1
        BY <1>0, <2>1 DEF ThereCopies, NoCopy
      <4>2. /\ v \in Copies({"file"}) /\ v.version = 1 /\ v.kind = there[n].kind
            /\ v.disabled = t.copy.disabled
        BY <1>0, <4>1 DEF Copies
      <4> QED BY <1>0, <4>2 DEF ThereCopies
    <3> HIDE DEF v
    <3>3. /\ there' \in [AccountNames -> ThereCopies] /\ there'[n] = v
          /\ \A x \in AccountNames : x # n => there'[x] = there[x]
          /\ synced' \subseteq AccountNames
      BY <1>0, <2>1, <3>1, <3>2
    <3>4. Untroubled => here[n].disabled = t.copy.disabled
      BY <1>2 DEF SyncInv, PushFits
    <3>5. CASE TaskFailed(t) BY <1>0, <2>1, <3>3, <3>5, TaskFailsSafe
    <3>6. CASE TaskDone(t)
      BY <1>0, <1>2, <2>1, <3>2, <3>3, <3>4, <3>6, TaskDoneSafe
    <3> QED BY <2>1, <3>5, <3>6
  <2> QED BY <1>1, <1>2, <2>1 DEF Align
<1>3. CASE ~push
  <2> DEFINE v == [here[n] EXCEPT !.disabled = t.copy.disabled]
  <2>1. CASE /\ here[n].kind # "none" /\ there' = there
             /\ here' = [here EXCEPT ![n].disabled = t.copy.disabled]
             /\ TaskDone(t) /\ synced' = synced \cup {n}
    <3>1. here' = [here EXCEPT ![n] = v] BY <2>1
    <3>2. v \in HereCopies /\ v.kind = here[n].kind /\ v.disabled = t.copy.disabled /\ v.version = 1
      <4>1. here[n] \in Copies({"file", "token"}) /\ here[n].version = 1
        BY <1>0, <2>1 DEF HereCopies, NoCopy
      <4>2. /\ v \in Copies({"file", "token"}) /\ v.version = 1 /\ v.kind = here[n].kind
            /\ v.disabled = t.copy.disabled
        BY <1>0, <4>1 DEF Copies
      <4> QED BY <1>0, <4>2 DEF HereCopies
    <3> HIDE DEF v
    <3>3. /\ here' \in [AccountNames -> HereCopies] /\ here'[n] = v
          /\ \A x \in AccountNames : x # n => here'[x] = here[x]
          /\ synced' \subseteq AccountNames
      BY <1>0, <2>1, <3>1, <3>2
    <3>4. Untroubled => /\ there[n].disabled = t.copy.disabled
                        /\ Syncable(n) => /\ here[n].kind = "file"
                                          /\ 1 >= syncRun.seen[n].version
      BY <1>0, <1>3 DEF SyncInv, PullFits
    <3> QED BY <1>0, <1>3, <2>1, <3>2, <3>3, <3>4, TaskDoneSafe
  <2> QED BY <1>1, <1>3, <2>1 DEF Align
<1> QED BY <1>2, <1>3

LEMMA ExportSafe ==
  ASSUME SyncInv, syncRun.pc = "work", NEW t \in syncRun.todo, Export(t),
         UNCHANGED <<source, syncChanges>>
  PROVE  SyncInv'
<1> DEFINE n == t.name
           sent == there' = [there EXCEPT ![n] = IF there[n].kind = "none" THEN t.copy ELSE there[n]]
<1>0. /\ t.op = "export" /\ here' = here /\ synced' = synced /\ n \in AccountNames
      /\ source # "cpa" /\ syncRun.direction = "push"
      /\ here \in [AccountNames -> HereCopies] /\ there \in [AccountNames -> ThereCopies]
      /\ synced \subseteq AccountNames /\ t.copy \in ThereCopies /\ t.copy.kind = "file"
  BY TaskTyped, CopiesTyped DEF Export, TaskFits
<1>1. sent \/ there' = there BY DEF Export
<1>2. /\ there' \in [AccountNames -> ThereCopies]
      /\ \A x \in AccountNames : x # n => there'[x] = there[x]
      /\ sent => there'[n].kind # "none"
  BY <1>0, <1>1
<1>3. CASE sent /\ TaskDone(t) BY <1>0, <1>2, <1>3, TaskDoneSafe
<1>4. CASE \/ syncRun' = [syncRun EXCEPT !.todo = @ \ {t}, !.failed = TRUE]
           \/ syncRun' = [syncRun EXCEPT !.todo = {}, !.ok = FALSE]
  BY <1>0, <1>2, <1>4, TaskFailsSafe
<1> QED BY <1>3, <1>4 DEF Export

LEMMA ImportSafe ==
  ASSUME SyncInv, syncRun.pc = "work", NEW t \in syncRun.todo, Import(t),
         UNCHANGED <<source, syncChanges>>
  PROVE  SyncInv'
<1> DEFINE n == t.name
<1>0. /\ t.op = "import" /\ there' = there /\ n \in AccountNames
      /\ source # "cpa" /\ syncRun.direction = "pull"
      /\ here \in [AccountNames -> HereCopies] /\ there \in [AccountNames -> ThereCopies]
      /\ synced \subseteq AccountNames /\ t.copy \in HereCopies /\ t.copy.kind = "file"
      /\ t.copy.version \in Nat /\ here[n].version \in Nat /\ syncRun.seen[n].version \in Nat
  BY TaskTyped, CopiesTyped DEF Import, TaskFits
<1>1. Untroubled => /\ t.copy = there[n]
                    /\ Syncable(n) => /\ here[n].kind = "file"
                                      /\ here[n].version >= syncRun.seen[n].version
  BY <1>0 DEF SyncInv, PullFits
<1>2. CASE /\ here[n].kind # "none" /\ t.copy.version <= here[n].version
           /\ TaskDone(t) /\ UNCHANGED <<here, synced>>
  BY <1>0, <1>1, <1>2, TaskDoneSafe
<1>3. CASE /\ here[n].kind = "none" \/ t.copy.version > here[n].version
           /\ here' = [here EXCEPT ![n] = t.copy] /\ synced' = synced \ {n} /\ TaskDone(t)
  <2>1. /\ here' \in [AccountNames -> HereCopies] /\ here'[n] = t.copy
        /\ \A x \in AccountNames : x # n => here'[x] = here[x]
        /\ synced' \subseteq AccountNames
    BY <1>0, <1>3
  <2>2. Untroubled /\ Syncable(n) => t.copy.version >= syncRun.seen[n].version
    BY <1>0, <1>1, <1>3
  <2> QED BY <1>0, <1>1, <1>3, <2>1, <2>2, TaskDoneSafe
<1>4. CASE /\ syncRun' = [syncRun EXCEPT !.todo = @ \ {t}, !.failed = TRUE]
           /\ UNCHANGED <<here, synced>>
  BY <1>0, <1>4, TaskFailsSafe
<1> QED BY <1>2, <1>3, <1>4 DEF Import

LEMMA EndRunSafe ==
  ASSUME SyncInv, EndRun
  PROVE  SyncInv'
<1>0. /\ syncRun.pc = "work" /\ syncRun.todo = {} /\ syncRun \in SyncRun
      /\ syncRun' = [syncRun EXCEPT !.pc = "over"]
      /\ UNCHANGED <<source, here, there, synced, syncChanges>>
  BY CopiesTyped DEF EndRun
<1>1. /\ syncRun' \in SyncRun /\ syncRun'.pc = "over" /\ syncRun'.seen = syncRun.seen
      /\ syncRun'.todo = syncRun.todo /\ syncRun'.direction = syncRun.direction
      /\ syncRun'.ok = syncRun.ok /\ syncRun'.failed = syncRun.failed
      /\ syncRun'.quiet = syncRun.quiet
  BY <1>0 DEF SyncRun
<1> QED BY <1>0, <1>1
  DEF SyncInv, AccountSyncTypeOK, HereCopies, ThereCopies, FileCopies, TaskFits, Untroubled,
      PushFits, PullFits, Syncable, Sent, Fetched, Listed, SameFlagSoon

\* Others change something: the run is not quiet any more.
LEMMA OthersChangeSafe ==
  ASSUME SyncInv, NEW n \in AccountNames,
         (\E copy \in HereCopies : ChangeHere(n, copy)) \/ (\E copy \in ThereCopies : ChangeThere(n, copy))
  PROVE  SyncInv'
<1>0. /\ syncRun \in SyncRun /\ syncRun' = [syncRun EXCEPT !.quiet = FALSE] /\ source' = source
      /\ here \in [AccountNames -> HereCopies] /\ there \in [AccountNames -> ThereCopies]
      /\ syncChanges < MaxSyncChanges /\ syncChanges' = syncChanges + 1
      /\ synced \subseteq AccountNames
  BY CopiesTyped DEF ChangeHere, ChangeThere, OthersChange
<1>1. /\ syncRun' \in SyncRun /\ syncRun'.seen = syncRun.seen
      /\ syncRun'.todo = syncRun.todo /\ syncRun'.direction = syncRun.direction
      /\ ~syncRun'.quiet
  BY <1>0 DEF SyncRun
<1>2. /\ here' \in [AccountNames -> HereCopies] /\ there' \in [AccountNames -> ThereCopies]
      /\ synced' \subseteq AccountNames
  BY <1>0 DEF ChangeHere, ChangeThere
<1>3. syncChanges' \in 0..MaxSyncChanges
  BY <1>0, AccountSyncAssumption DEF SyncInv, AccountSyncTypeOK
<1>4. HereCopies' = HereCopies /\ FileCopies' = FileCopies /\ ThereCopies' = ThereCopies
  BY <1>0 DEF HereCopies, FileCopies, ThereCopies
<1> QED BY <1>0, <1>1, <1>2, <1>3, <1>4 DEF SyncInv, AccountSyncTypeOK, TaskFits, Untroubled

THEOREM SyncContinues ==
  ASSUME SyncInv, [AccountSyncNext]_accountSyncVars
  PROVE  SyncInv'
<1>1. CASE AccountSyncNext
  <2>1. CASE DoTask
    <3>1. PICK t \in syncRun.todo : Upload(t) \/ Download(t) \/ Align(t) \/ Export(t) \/ Import(t)
      BY <2>1 DEF DoTask
    <3>2. syncRun.pc = "work" /\ UNCHANGED <<source, syncChanges>> BY <2>1 DEF DoTask
    <3> QED BY <3>1, <3>2, UploadSafe, DownloadSafe, AlignSafe, ExportSafe, ImportSafe
  <2> QED BY <1>1, <2>1, ReadHereSafe, ListThereSafe, EndRunSafe, OthersChangeSafe
          DEF AccountSyncNext
<1>2. CASE UNCHANGED accountSyncVars
  BY <1>2
  DEF accountSyncVars, SyncInv, AccountSyncTypeOK, HereCopies, ThereCopies, FileCopies, TaskFits,
      Untroubled, PushFits, PullFits, Syncable, Sent, Fetched, Listed, SameFlagSoon
<1> QED BY <1>1, <1>2

\* Both sides and the run keep their types (AccountSync).
THEOREM SyncTypes == AccountSyncSpec => []AccountSyncTypeOK
<1>1. SyncInv => AccountSyncTypeOK BY DEF SyncInv
<1> QED BY <1>1, SyncBegins, SyncContinues, PTL DEF AccountSyncSpec

\* A run that fails nowhere and that nobody crosses leaves the side it writes to with all
\* the other has, loses no account and makes none older, whatever the order of its tasks
\* and for any number of accounts (RunSync, runSub2APISync, runNewAPISync).
THEOREM SyncHolds == AccountSyncSpec => []QuietSyncAgrees
<1> QED BY InvKeepsCopies, SyncBegins, SyncContinues, PTL DEF AccountSyncSpec

\* What is copied arrives whole, by a run of the synchronisation or by a save that moves
\* the storage, and such a save loses nothing when it is cut short (Copies).
THEOREM CopiesArriveWhole ==
  AccountSyncSpec /\ RuntimeConfigSpec => []QuietCopiesAreWhole
<1>1. QuietSyncAgrees /\ CalmSavesKeepData /\ CutShortSavesLoseNothing => QuietCopiesAreWhole
  BY DEF QuietCopiesAreWhole
<1> QED BY <1>1, SyncHolds, ConfHolds, CutShortHolds, PTL

-----------------------------------------------------------------------------
(***************************************************************************)
(* The catalogue of models.  Changes that come one by one are in one of    *)
(* few places, and at each of them it is known which model is the default. *)
(***************************************************************************)

OneDefault(table) ==
  \E m \in Models : table[m].there /\ \A n \in Models : table[n].default <=> n = m

NoneThere(table) == \A m \in Models : ~table[m].there
NoDefault(table) == \A m \in Models : ~table[m].default
Settled(table) == NoneThere(table) \/ OneDefault(table)

\* What a change that goes on alone knows of the table.
EditFits(e, table) ==
  /\ e.pc = "mark" => /\ Settled(table)
                      /\ e.row.there /\ (e.row.enabled \/ e.row.default)
  /\ e.pc = "insert" => /\ e.row.there
                        /\ \/ NoDefault(table) /\ e.row.default
                           \/ OneDefault(table) /\ ~e.row.default
  /\ e.pc = "read" => /\ OneDefault(table)
                      /\ e.row.there /\ table[e.id].default => e.row.enabled
  /\ e.pc = "clear" => /\ OneDefault(table) /\ table[e.id].there
                       /\ e.row.there => e.row.default
  /\ e.pc = "update" =>
       /\ table[e.id].there
       /\ \/ /\ e.row.there => e.row.default
             /\ \A m \in Models : table[m].default => m = e.id
          \/ /\ e.row.there /\ ~e.row.default
             /\ OneDefault(table) /\ ~table[e.id].default

CalmCatalogue(table, changes) ==
  /\ \A m \in Models : table[m].default => table[m].there
  /\ \A a, b \in Editors : changes[a].pc # "idle" /\ changes[b].pc # "idle" => a = b
  /\ \A a \in Editors : EditFits(changes[a], table)
  /\ (\A a \in Editors : changes[a].pc = "idle") => Settled(table)

CatInv ==
  /\ CatalogueTypeOK
  /\ \A a \in Editors : editor[a].left <= Len(BuiltIn)
  /\ calm => CalmCatalogue(model, editor)

\* The invariant says what is promised.
LEMMA InvGivesDefault == CatInv => DefaultIsKept
<1> SUFFICES ASSUME CatInv, calm, ~Empty, \A a \in Editors : ~Busy(a)
             PROVE  \E m \in Models : IsThere(m) /\ {n \in Models : model[n].default} = {m}
  BY DEF DefaultIsKept
<1>1. OneDefault(model)
  BY DEF CatInv, CalmCatalogue, Busy, Settled, NoneThere, Empty, IsThere
<1>2. PICK m \in Models : model[m].there /\ \A n \in Models : model[n].default <=> n = m
  BY <1>1 DEF OneDefault
<1>3. {n \in Models : model[n].default} = {m} BY <1>2
<1> QED BY <1>2, <1>3 DEF IsThere

LEMMA IdleEditorFits ==
  /\ IdleEditor \in Editor /\ IdleEditor.pc = "idle" /\ IdleEditor.left = 0
  /\ NoModel \in ModelRow
<1>1. (CHOOSE m \in Models : TRUE) \in Models BY JobSubmissionAssumption
<1>2. NoModel \in ModelRow BY DEF NoModel, ModelRow
<1> QED BY <1>1, <1>2 DEF IdleEditor, Editor

LEMMA BuiltInFits ==
  /\ BuiltIn \in Seq(Models) /\ Len(BuiltIn) \in Nat
  /\ \A i \in 1..Len(BuiltIn) : BuiltIn[i] \in Models
  /\ \A first \in BOOLEAN : BuiltInRow(first) \in ModelRow
BY ModelCatalogueAssumption DEF BuiltInRow, ModelRow

THEOREM CatalogueBegins == CatalogueInit => CatInv
<1> SUFFICES ASSUME CatalogueInit PROVE CatInv OBVIOUS
<1>1. CASE model = [m \in Models |-> NoModel]
  <2>1. \A m \in Models : model[m] \in ModelRow /\ ~model[m].there /\ ~model[m].default
    BY <1>1 DEF NoModel, ModelRow
  <2>2. model \in [Models -> ModelRow] BY <1>1, <2>1
  <2> QED
    BY <2>1, <2>2, IdleEditorFits, BuiltInFits, ModelCatalogueAssumption
    DEF CatalogueInit, CatInv, CatalogueTypeOK, CalmCatalogue, EditFits, Settled, NoneThere
<1>2. CASE model = [m \in Models |-> IF \E i \in DOMAIN BuiltIn : BuiltIn[i] = m
                                     THEN BuiltInRow(m = BuiltIn[1]) ELSE NoModel]
  <2>1. \A m \in Models : model[m] \in ModelRow
    BY <1>2, BuiltInFits, IdleEditorFits
  <2>2. model \in [Models -> ModelRow] BY <1>2, <2>1
  <2>3. \A m \in Models : model[m].default => model[m].there
    BY <1>2 DEF BuiltInRow, NoModel
  <2>4. Settled(model)
    <3>1. CASE BuiltIn = <<>>
      BY <1>2, <3>1 DEF Settled, NoneThere, NoModel
    <3>2. CASE BuiltIn # <<>>
      <4>1. 1 \in DOMAIN BuiltIn /\ BuiltIn[1] \in Models BY <3>2, BuiltInFits
      <4>2. model[BuiltIn[1]] = BuiltInRow(TRUE) BY <1>2, <4>1
      <4>3. \A n \in Models : model[n].default <=> n = BuiltIn[1]
        BY <1>2, <4>1 DEF BuiltInRow, NoModel
      <4> QED BY <4>1, <4>2, <4>3 DEF Settled, OneDefault, BuiltInRow
    <3> QED BY <3>1, <3>2
  <2> QED
    BY <2>2, <2>3, <2>4, IdleEditorFits, BuiltInFits, ModelCatalogueAssumption
    DEF CatalogueInit, CatInv, CatalogueTypeOK, CalmCatalogue, EditFits
<1> QED BY <1>1, <1>2 DEF CatalogueInit

\* One change goes on, or begins, or ends.
LEMMA EditorBecomes ==
  ASSUME CatInv, NEW a \in Editors, NEW e \in Editor, EditorGoes(a, e),
         e.left <= Len(BuiltIn),
         model' \in [Models -> ModelRow], edits' \in 0..MaxEdits, calm' \in BOOLEAN,
         calm' => /\ \A m \in Models : model'[m].default => model'[m].there
                  /\ \A b \in Editors : b # a => editor[b].pc = "idle"
                  /\ EditFits(e, model')
                  /\ e.pc = "idle" => Settled(model')
  PROVE  CatInv'
<1>1. /\ editor' \in [Editors -> Editor] /\ editor'[a] = e
      /\ \A b \in Editors : b # a => editor'[b] = editor[b]
  BY DEF CatInv, CatalogueTypeOK, EditorGoes
<1>2. CatalogueTypeOK' BY <1>1 DEF CatalogueTypeOK
<1>3. \A b \in Editors : editor'[b].left <= Len(BuiltIn)
  BY <1>1 DEF CatInv
<1>4. calm' => CalmCatalogue(model', editor')
  <2> SUFFICES ASSUME calm' PROVE CalmCatalogue(model', editor') OBVIOUS
  <2>1. \A b \in Editors : EditFits(editor'[b], model') BY <1>1 DEF EditFits
  <2> QED BY <1>1, <2>1 DEF CalmCatalogue
<1> QED BY <1>2, <1>3, <1>4 DEF CatInv

\* A change that begins calmly begins alone, in a catalogue that is settled.
LEMMA CalmBeginning ==
  ASSUME CatInv, NEW asked \in BOOLEAN, Calmly(asked)
  PROVE  /\ calm' \in BOOLEAN
         /\ calm' => /\ asked /\ Settled(model)
                     /\ \A m \in Models : model[m].default => model[m].there
                     /\ \A b \in Editors : editor[b].pc = "idle"
<1>1. calm \in BOOLEAN BY DEF CatInv, CatalogueTypeOK
<1> QED BY <1>1 DEF CatInv, CalmCatalogue, Calmly, Busy

LEMMA CatalogueTyped ==
  ASSUME CatInv
  PROVE  /\ model \in [Models -> ModelRow] /\ editor \in [Editors -> Editor]
         /\ edits \in Nat /\ edits \in 0..MaxEdits /\ calm \in BOOLEAN /\ MaxEdits \in Nat
         /\ \A m \in Models : model[m] \in ModelRow
         /\ \A a \in Editors : /\ editor[a].id \in Models /\ editor[a].row \in ModelRow
                               /\ editor[a].left \in Nat /\ editor[a].left <= Len(BuiltIn)
                               /\ editor[a].row.price \in Nat
                               /\ editor[a] \in Editor
<1>1. \A a \in Editors : editor[a] \in Editor BY DEF CatInv, CatalogueTypeOK
<1>2. \A a \in Editors : /\ editor[a].id \in Models /\ editor[a].row \in ModelRow
                         /\ editor[a].left \in Nat
  BY <1>1 DEF Editor
<1>3. \A a \in Editors : editor[a].row.price \in Nat BY <1>2 DEF ModelRow
<1> QED BY <1>1, <1>2, <1>3, ModelCatalogueAssumption DEF CatInv, CatalogueTypeOK

LEMMA ChangeBegins ==
  ASSUME CatInv, NEW a \in Editors, NEW m \in Models,
         BeginSeed(a) \/ (\E r \in ModelInputs : BeginCreate(a, m, r) \/ BeginUpdate(a, m, r))
           \/ BeginSetDefault(a, m)
  PROVE  CatInv'
<1>0. /\ Begins(a) /\ model' = model /\ model' \in [Models -> ModelRow]
      /\ edits' \in 0..MaxEdits
  <2>1. Begins(a) BY DEF BeginSeed, BeginCreate, BeginUpdate, BeginSetDefault
  <2> QED BY <2>1, CatalogueTyped DEF Begins
<1>1. CASE BeginSeed(a)
  <2> DEFINE e == [pc |-> "mark", id |-> BuiltIn[1], row |-> BuiltInRow(TRUE),
                   left |-> Len(BuiltIn) - 1]
  <2>1. Len(BuiltIn) # 0 /\ BuiltIn[1] \in Models /\ Len(BuiltIn) - 1 \in Nat
        /\ Len(BuiltIn) - 1 <= Len(BuiltIn)
    <3>1. BuiltIn # <<>> BY <1>1 DEF BeginSeed
    <3> QED BY <3>1, BuiltInFits
  <2>2. BuiltInRow(TRUE) \in ModelRow /\ BuiltInRow(TRUE).there /\ BuiltInRow(TRUE).enabled
    BY BuiltInFits DEF BuiltInRow
  <2>3. /\ e \in Editor /\ e.pc = "mark" /\ e.row = BuiltInRow(TRUE)
        /\ e.left = Len(BuiltIn) - 1
    BY <2>1, <2>2 DEF Editor
  <2>4. EditorGoes(a, e) /\ Calmly(TRUE) BY <1>1 DEF BeginSeed
  <2> HIDE DEF e
  <2>5. calm' => EditFits(e, model') BY <1>0, <2>2, <2>3, <2>4, CalmBeginning DEF EditFits
  <2> QED BY <1>0, <2>1, <2>3, <2>4, <2>5, CalmBeginning, EditorBecomes
<1>2. ASSUME NEW r \in ModelInputs, BeginCreate(a, m, r) PROVE CatInv'
  <2> DEFINE e == [pc |-> "mark", id |-> m, row |-> r, left |-> 0]
  <2>1. r \in ModelRow /\ (r.enabled \/ r.default) \in BOOLEAN /\ r.there
    BY ModelCatalogueAssumption DEF ModelRow
  <2>2. e \in Editor /\ e.pc = "mark" /\ e.row = r /\ e.left = 0 BY <2>1 DEF Editor
  <2>3. EditorGoes(a, e) /\ Calmly(r.enabled \/ r.default) BY <1>2 DEF BeginCreate
  <2> HIDE DEF e
  <2>4. calm' => EditFits(e, model') BY <1>0, <2>1, <2>2, <2>3, CalmBeginning DEF EditFits
  <2>5. e.left <= Len(BuiltIn) BY <2>2, BuiltInFits
  <2> QED BY <1>0, <2>1, <2>2, <2>3, <2>4, <2>5, CalmBeginning, EditorBecomes
<1>3. ASSUME NEW r \in ModelInputs, BeginUpdate(a, m, r) PROVE CatInv'
  <2> DEFINE e == [pc |-> "read", id |-> m, row |-> r, left |-> 0]
             asked == ~(model[m].default /\ ~r.enabled)
  <2>1. r \in ModelRow /\ asked \in BOOLEAN
    BY ModelCatalogueAssumption DEF ModelRow
  <2>2. e \in Editor /\ e.pc = "read" /\ e.row = r /\ e.left = 0 /\ e.id = m
    BY <2>1 DEF Editor
  <2>3. EditorGoes(a, e) /\ Calmly(asked) /\ ~Empty BY <1>3 DEF BeginUpdate
  <2> HIDE DEF e
  <2>4. calm' => EditFits(e, model')
    BY <1>0, <2>1, <2>2, <2>3, CalmBeginning DEF EditFits, Settled, NoneThere, Empty, IsThere
  <2>5. e.left <= Len(BuiltIn) BY <2>2, BuiltInFits
  <2> QED BY <1>0, <2>1, <2>2, <2>3, <2>4, <2>5, CalmBeginning, EditorBecomes
<1>4. CASE BeginSetDefault(a, m)
  <2> DEFINE e == [pc |-> "read", id |-> m, row |-> NoModel, left |-> 0]
  <2>1. NoModel \in ModelRow /\ ~NoModel.there BY IdleEditorFits DEF NoModel
  <2>2. e \in Editor /\ e.pc = "read" /\ e.row = NoModel /\ e.left = 0 BY <2>1 DEF Editor
  <2>3. EditorGoes(a, e) /\ Calmly(TRUE) /\ ~Empty BY <1>4 DEF BeginSetDefault
  <2> HIDE DEF e
  <2>4. calm' => EditFits(e, model')
    BY <1>0, <2>1, <2>2, <2>3, CalmBeginning DEF EditFits, Settled, NoneThere, Empty, IsThere
  <2>5. e.left <= Len(BuiltIn) BY <2>2, BuiltInFits
  <2> QED BY <1>0, <2>2, <2>3, <2>4, <2>5, CalmBeginning, EditorBecomes
<1> QED BY <1>1, <1>2, <1>3, <1>4

\* A calm change that goes on is alone and knows its table.
LEMMA CalmGoesOn ==
  ASSUME CatInv, calm, NEW a \in Editors, editor[a].pc # "idle"
  PROVE  /\ EditFits(editor[a], model)
         /\ \A m \in Models : model[m].default => model[m].there
         /\ \A b \in Editors : b # a => editor[b].pc = "idle"
BY DEF CatInv, CalmCatalogue

LEMMA MarkNewSafe ==
  ASSUME CatInv, NEW a \in Editors, MarkNew(a)
  PROVE  CatInv'
<1> DEFINE old == editor[a]
           r == old.row
           row == [r EXCEPT !.default = r.default \/ (r.enabled /\ ~HasDefault)]
           e == [old EXCEPT !.pc = "insert",
                   !.row.default = r.default \/ (r.enabled /\ ~HasDefault)]
<1>0. /\ old \in Editor /\ r \in ModelRow /\ old.pc = "mark"
      /\ edits' \in 0..MaxEdits /\ calm' = calm /\ calm' \in BOOLEAN /\ old.left <= Len(BuiltIn)
  BY CatalogueTyped DEF MarkNew
<1>1. /\ row \in ModelRow /\ row.there = r.there
      /\ row.default = (r.default \/ (r.enabled /\ ~HasDefault))
  <2>1. (r.default \/ (r.enabled /\ ~HasDefault)) \in BOOLEAN BY <1>0 DEF ModelRow, HasDefault
  <2> QED BY <1>0, <2>1 DEF ModelRow
<1>2. e = [old EXCEPT !.pc = "insert", !.row = row] OBVIOUS
<1> HIDE DEF row
<1>3. /\ e \in Editor /\ e.pc = "insert" /\ e.row = row /\ e.left = old.left
  BY <1>0, <1>1, <1>2 DEF Editor
<1>4. EditorGoes(a, e) BY DEF MarkNew
<1> HIDE DEF e
<1>5. CASE r.default
  <2>1. model' = [m \in Models |-> [model[m] EXCEPT !.default = FALSE]] BY <1>5 DEF MarkNew
  <2>2. \A m \in Models : [model[m] EXCEPT !.default = FALSE] \in ModelRow
    BY CatalogueTyped DEF ModelRow
  <2>3. model' \in [Models -> ModelRow] BY <2>1, <2>2
  <2>4. \A m \in Models : ~model'[m].default BY <2>1, CatalogueTyped DEF ModelRow
  <2>5. calm => EditFits(e, model')
    BY <1>0, <1>1, <1>3, <1>5, <2>4, CalmGoesOn DEF EditFits, NoDefault
  <2> QED BY <1>0, <1>3, <1>4, <2>3, <2>4, <2>5, CalmGoesOn, EditorBecomes
<1>6. CASE ~r.default
  <2>1. model' = model BY <1>6 DEF MarkNew
  <2>2. ASSUME calm PROVE EditFits(e, model')
    <3>1. Settled(model) /\ r.there /\ r.enabled BY <1>0, <1>6, <2>2, CalmGoesOn DEF EditFits
    <3>2. CASE OneDefault(model)
      <4>1. HasDefault BY <3>2 DEF OneDefault, HasDefault
      <4> QED BY <1>1, <1>3, <1>6, <2>1, <3>1, <3>2, <4>1 DEF EditFits
    <3>3. CASE NoneThere(model)
      <4>1. NoDefault(model)
        BY <1>0, <2>2, <3>3, CalmGoesOn DEF NoneThere, NoDefault
      <4>2. ~HasDefault BY <4>1 DEF NoDefault, HasDefault
      <4> QED BY <1>1, <1>3, <1>6, <2>1, <3>1, <4>1, <4>2 DEF EditFits
    <3> QED BY <3>1, <3>2, <3>3 DEF Settled
  <2> QED BY <1>0, <1>3, <1>4, <2>1, <2>2, CalmGoesOn, CatalogueTyped, EditorBecomes
<1> QED BY <1>5, <1>6

LEMMA SeedGoesOn ==
  ASSUME CatInv, NEW a \in Editors
  PROVE  /\ NextSeed(a) \in Editor /\ NextSeed(a).left <= Len(BuiltIn)
         /\ \/ NextSeed(a).pc = "idle"
            \/ /\ NextSeed(a).pc = "mark"
               /\ NextSeed(a).row.there /\ NextSeed(a).row.enabled
<1> DEFINE n == editor[a].left
<1>1. n \in Nat /\ n <= Len(BuiltIn) /\ Len(BuiltIn) \in Nat BY CatalogueTyped, BuiltInFits
<1>2. CASE n = 0 BY <1>1, <1>2, IdleEditorFits DEF NextSeed
<1>3. CASE n # 0
  <2>1. /\ Len(BuiltIn) + 1 - n \in 1..Len(BuiltIn) /\ n - 1 \in Nat
        /\ n - 1 <= Len(BuiltIn)
    BY <1>1, <1>3
  <2>2. BuiltIn[Len(BuiltIn) + 1 - n] \in Models BY <2>1, BuiltInFits
  <2>3. (n = Len(BuiltIn)) \in BOOLEAN OBVIOUS
  <2>4. BuiltInRow(n = Len(BuiltIn)) \in ModelRow BY <2>3, BuiltInFits
  <2>5. /\ BuiltInRow(n = Len(BuiltIn)).there = TRUE
        /\ BuiltInRow(n = Len(BuiltIn)).enabled = TRUE
    BY DEF BuiltInRow
  <2>6. NextSeed(a) = [pc |-> "mark", id |-> BuiltIn[Len(BuiltIn) + 1 - n],
                       row |-> BuiltInRow(n = Len(BuiltIn)), left |-> n - 1]
    BY <1>3 DEF NextSeed
  <2> QED BY <2>1, <2>2, <2>4, <2>5, <2>6 DEF Editor
<1> QED BY <1>2, <1>3

LEMMA InsertSafe ==
  ASSUME CatInv, NEW a \in Editors, Insert(a)
  PROVE  CatInv'
<1> DEFINE e == editor[a]
           refused == IsThere(e.id) \/ (e.row.default /\ HasDefault)
<1>0. /\ e \in Editor /\ e.id \in Models /\ e.row \in ModelRow /\ e.pc = "insert"
      /\ edits' \in 0..MaxEdits /\ model \in [Models -> ModelRow] /\ calm \in BOOLEAN
  BY CatalogueTyped DEF Insert
<1>1. CASE refused
  <2>1. EditorGoes(a, IdleEditor) /\ calm' = FALSE /\ model' = model BY <1>1 DEF Insert
  <2>2. IdleEditor \in Editor /\ IdleEditor.left <= Len(BuiltIn)
    BY IdleEditorFits, BuiltInFits
  <2>3. model' \in [Models -> ModelRow] /\ calm' \in BOOLEAN /\ ~calm' BY <1>0, <2>1
  <2> HIDE DEF e, refused
  <2> QED BY <1>0, <2>1, <2>2, <2>3, EditorBecomes
<1>2. CASE ~refused
  <2> DEFINE next == NextSeed(a)
  <2>1. EditorGoes(a, next) /\ calm' = calm /\ model' = [model EXCEPT ![e.id] = e.row]
    BY <1>2 DEF Insert
  <2>2. /\ model' \in [Models -> ModelRow] /\ model'[e.id] = e.row
        /\ \A m \in Models : m # e.id => model'[m] = model[m]
    BY <1>0, <2>1
  <2>3. ASSUME calm PROVE OneDefault(model') /\ \A m \in Models : model'[m].default => model'[m].there
    <3>1. e.row.there BY <1>0, <2>3, CalmGoesOn DEF EditFits
    <3>2. CASE NoDefault(model) /\ e.row.default
      <4>1. \A m \in Models : model'[m].default <=> m = e.id
        BY <2>2, <3>2 DEF NoDefault
      <4> QED BY <1>0, <2>2, <3>1, <4>1 DEF OneDefault
    <3>3. CASE OneDefault(model) /\ ~e.row.default
      <4>1. PICK m \in Models : model[m].there /\ \A n \in Models : model[n].default <=> n = m
        BY <3>3 DEF OneDefault
      <4>2. m # e.id BY <1>2, <4>1 DEF IsThere
      <4>3. \A n \in Models : model'[n].default <=> n = m BY <2>2, <3>3, <4>1, <4>2
      <4> QED BY <2>2, <4>1, <4>2, <4>3 DEF OneDefault
    <3> QED BY <1>0, <2>3, <3>2, <3>3, CalmGoesOn DEF EditFits
  <2>4. calm => EditFits(next, model') /\ Settled(model')
    BY <2>3, SeedGoesOn DEF EditFits, Settled
  <2>5. calm => \A b \in Editors : b # a => editor[b].pc = "idle" BY <1>0, CalmGoesOn
  <2> QED BY <1>0, <2>1, <2>2, <2>3, <2>4, <2>5, SeedGoesOn, EditorBecomes
<1> QED BY <1>1, <1>2

LEMMA ReadModelSafe ==
  ASSUME CatInv, NEW a \in Editors, ReadModel(a)
  PROVE  CatInv'
<1> DEFINE e == editor[a]
           old == model[e.id]
           setting == ~e.row.there
<1>0. /\ e \in Editor /\ e.id \in Models /\ e.row \in ModelRow /\ e.pc = "read"
      /\ old \in ModelRow /\ e.left <= Len(BuiltIn)
      /\ edits' \in 0..MaxEdits /\ model' = model /\ model \in [Models -> ModelRow]
      /\ calm' = calm /\ calm \in BOOLEAN
  BY CatalogueTyped DEF ReadModel
<1>1. calm => /\ OneDefault(model) /\ Settled(model)
              /\ (e.row.there /\ old.default => e.row.enabled)
              /\ \A m \in Models : model[m].default => model[m].there
              /\ \A b \in Editors : b # a => editor[b].pc = "idle"
  BY <1>0, CalmGoesOn DEF EditFits, Settled
<1>2. CASE ~old.there \/ (setting /\ ~old.enabled)
  <2>1. EditorGoes(a, IdleEditor) BY <1>2 DEF ReadModel
  <2>2. EditFits(IdleEditor, model') BY IdleEditorFits DEF EditFits
  <2> QED BY <1>0, <1>1, <2>1, <2>2, IdleEditorFits, BuiltInFits, EditorBecomes
<1>3. CASE ~(~old.there \/ (setting /\ ~old.enabled)) /\ (setting \/ e.row.default)
  <2> DEFINE v == [e EXCEPT !.pc = "clear"]
  <2>1. EditorGoes(a, v) BY <1>3 DEF ReadModel
  <2>2. /\ v \in Editor /\ v.pc = "clear" /\ v.row = e.row /\ v.id = e.id /\ v.left = e.left
    BY <1>0 DEF Editor
  <2> HIDE DEF v
  <2>3. calm => EditFits(v, model') BY <1>0, <1>1, <1>3, <2>2 DEF EditFits
  <2> QED BY <1>0, <1>1, <2>1, <2>2, <2>3, EditorBecomes
<1>4. CASE ~(~old.there \/ (setting /\ ~old.enabled)) /\ ~(setting \/ e.row.default)
  <2> DEFINE keeps == KeepsDefault(old, e.row)
             row == [e.row EXCEPT !.default = keeps]
             v == [e EXCEPT !.pc = "update", !.row.default = keeps]
  <2>1. EditorGoes(a, v) BY <1>4 DEF ReadModel
  <2>2. keeps \in BOOLEAN BY <1>0 DEF KeepsDefault, ModelRow
  <2> HIDE DEF keeps
  <2>3. row \in ModelRow /\ row.there = e.row.there /\ row.default = keeps
    BY <1>0, <2>2 DEF ModelRow
  <2>4. v = [e EXCEPT !.pc = "update", !.row = row] OBVIOUS
  <2> HIDE DEF row
  <2>5. /\ v \in Editor /\ v.pc = "update" /\ v.row = row /\ v.id = e.id /\ v.left = e.left
    BY <1>0, <2>3, <2>4 DEF Editor
  <2> HIDE DEF v
  <2>6. ASSUME calm PROVE EditFits(v, model')
    <3>1. old.there /\ e.row.there BY <1>4
    <3>2. PICK m \in Models : \A n \in Models : model[n].default <=> n = m
      BY <1>1, <2>6 DEF OneDefault
    <3>3. CASE old.default
      <4>1. keeps BY <1>0, <1>1, <2>6, <3>1, <3>3 DEF keeps, KeepsDefault
      <4>2. \A n \in Models : model[n].default => n = e.id BY <1>0, <3>2, <3>3
      <4> QED BY <1>0, <2>3, <2>5, <3>1, <4>1, <4>2 DEF EditFits
    <3>4. CASE ~old.default
      <4>1. ~keeps BY <1>4, <3>1, <3>4 DEF keeps, KeepsDefault
      <4> QED BY <1>0, <1>1, <2>3, <2>5, <2>6, <3>1, <3>4, <4>1 DEF EditFits
    <3> QED BY <3>3, <3>4
  <2> QED BY <1>0, <1>1, <2>1, <2>5, <2>6, EditorBecomes
<1> QED BY <1>2, <1>3, <1>4

LEMMA ClearDefaultSafe ==
  ASSUME CatInv, NEW a \in Editors, ClearDefaultExcept(a)
  PROVE  CatInv'
<1> DEFINE e == editor[a]
           v == [e EXCEPT !.pc = "update"]
<1>0. /\ e \in Editor /\ e.id \in Models /\ e.row \in ModelRow /\ e.pc = "clear"
      /\ e.left <= Len(BuiltIn) /\ EditorGoes(a, v)
      /\ edits' \in 0..MaxEdits /\ calm' = calm /\ calm \in BOOLEAN
  BY CatalogueTyped DEF ClearDefaultExcept
<1>1. v \in Editor /\ v.pc = "update" /\ v.row = e.row /\ v.id = e.id /\ v.left = e.left
  BY <1>0 DEF Editor
<1> HIDE DEF v
<1>2. model' = [m \in Models |-> IF m = e.id THEN model[m]
                                 ELSE [model[m] EXCEPT !.default = FALSE]]
  BY DEF ClearDefaultExcept
<1>3. \A m \in Models : model[m] \in ModelRow /\ [model[m] EXCEPT !.default = FALSE] \in ModelRow
  BY CatalogueTyped DEF ModelRow
<1>4. model' \in [Models -> ModelRow] BY <1>2, <1>3
<1>5. /\ model'[e.id] = model[e.id]
      /\ \A m \in Models : m # e.id => model'[m].there = model[m].there /\ ~model'[m].default
  BY <1>0, <1>2, <1>3 DEF ModelRow
<1>6. calm => EditFits(v, model') BY <1>0, <1>1, <1>5, CalmGoesOn DEF EditFits
<1>7. calm => \A m \in Models : model'[m].default => model'[m].there
  BY <1>0, <1>5, CalmGoesOn
<1> QED BY <1>0, <1>1, <1>4, <1>6, <1>7, CalmGoesOn, EditorBecomes

LEMMA UpdateModelSafe ==
  ASSUME CatInv, NEW a \in Editors, UpdateModel(a)
  PROVE  CatInv'
<1> DEFINE e == editor[a]
           setting == ~e.row.there
           makes == setting \/ e.row.default
           second == makes /\ \E m \in Models \ {e.id} : model[m].default
           row == IF setting THEN [model[e.id] EXCEPT !.default = TRUE] ELSE e.row
<1>0. /\ e \in Editor /\ e.id \in Models /\ e.row \in ModelRow /\ e.pc = "update"
      /\ EditorGoes(a, IdleEditor) /\ edits' \in 0..MaxEdits
      /\ calm' = (calm /\ ~second) /\ calm' \in BOOLEAN
      /\ model \in [Models -> ModelRow] /\ model[e.id] \in ModelRow
  BY CatalogueTyped DEF UpdateModel
<1>1. model' = IF ~IsThere(e.id) \/ second THEN model ELSE [model EXCEPT ![e.id] = row]
  BY DEF UpdateModel
<1>2. /\ row \in ModelRow
      /\ row.default = makes
      /\ row.there = (~setting \/ model[e.id].there)
  BY <1>0 DEF ModelRow
<1> HIDE DEF row
<1>3. model' \in [Models -> ModelRow] BY <1>0, <1>1, <1>2
<1>4. ASSUME calm' PROVE OneDefault(model') /\ \A m \in Models : model'[m].default => model'[m].there
  <2>1. calm /\ ~second BY <1>0, <1>4
  <2>2. EditFits(e, model) /\ model[e.id].there
        /\ \A m \in Models : model[m].default => model[m].there
    BY <1>0, <2>1, CalmGoesOn DEF EditFits
  <2>3. /\ model'[e.id] = row /\ row.there
        /\ \A m \in Models : m # e.id => model'[m] = model[m]
    BY <1>0, <1>1, <1>2, <2>1, <2>2 DEF IsThere
  <2>4. CASE makes
    <3>1. \A m \in Models : model'[m].default <=> m = e.id
      BY <1>2, <2>1, <2>3, <2>4
    <3> QED BY <1>0, <2>2, <2>3, <3>1 DEF OneDefault
  <2>5. CASE ~makes
    <3>1. OneDefault(model) /\ ~model[e.id].default BY <1>0, <2>2, <2>5 DEF EditFits
    <3>2. PICK m \in Models : model[m].there /\ \A n \in Models : model[n].default <=> n = m
      BY <3>1 DEF OneDefault
    <3>3. m # e.id BY <3>1, <3>2
    <3>4. \A n \in Models : model'[n].default <=> n = m BY <1>2, <2>3, <2>5, <3>2, <3>3
    <3> QED BY <2>2, <2>3, <3>2, <3>3, <3>4 DEF OneDefault
  <2> QED BY <2>4, <2>5
<1>5. calm' => EditFits(IdleEditor, model') /\ Settled(model')
  BY <1>4, IdleEditorFits DEF EditFits, Settled
<1>6. calm' => \A b \in Editors : b # a => editor[b].pc = "idle" BY <1>0, CalmGoesOn
<1> QED BY <1>0, <1>3, <1>4, <1>5, <1>6, IdleEditorFits, BuiltInFits, EditorBecomes

LEMMA DeleteModelSafe ==
  ASSUME CatInv, NEW a \in Editors, NEW m \in Models, DeleteModel(a, m)
  PROVE  CatInv'
<1>0. /\ model' = [model EXCEPT ![m] = NoModel] /\ editor' = editor
      /\ edits' \in 0..MaxEdits /\ Calmly(~model[m].default)
  BY CatalogueTyped DEF DeleteModel
<1>1. /\ model' \in [Models -> ModelRow] /\ ~model'[m].there /\ ~model'[m].default
      /\ \A n \in Models : n # m => model'[n] = model[n]
  BY <1>0, IdleEditorFits, CatalogueTyped DEF NoModel
<1>2. (~model[m].default) \in BOOLEAN OBVIOUS
<1>3. /\ calm' \in BOOLEAN
      /\ calm' => /\ ~model[m].default /\ Settled(model)
                  /\ \A n \in Models : model[n].default => model[n].there
                  /\ \A b \in Editors : editor[b].pc = "idle"
  BY <1>0, <1>2, CalmBeginning
<1>4. CatalogueTypeOK' BY <1>0, <1>1, <1>3, CatalogueTyped DEF CatalogueTypeOK
<1>5. ASSUME calm' PROVE CalmCatalogue(model', editor')
  <2>1. Settled(model')
    <3>1. CASE NoneThere(model) BY <1>1, <3>1 DEF NoneThere, Settled
    <3>2. CASE OneDefault(model)
      <4>1. PICK d \in Models : model[d].there /\ \A n \in Models : model[n].default <=> n = d
        BY <3>2 DEF OneDefault
      <4>2. d # m BY <1>3, <1>5, <4>1
      <4>3. \A n \in Models : model'[n].default <=> n = d BY <1>1, <4>1, <4>2
      <4> QED BY <1>1, <4>1, <4>2, <4>3 DEF OneDefault, Settled
    <3> QED BY <1>3, <1>5, <3>1, <3>2 DEF Settled
  <2> QED BY <1>0, <1>1, <1>3, <1>5, <2>1 DEF CalmCatalogue, EditFits
<1> QED BY <1>0, <1>4, <1>5 DEF CatInv

THEOREM CatalogueContinues ==
  ASSUME CatInv, CatalogueNext \/ UNCHANGED catalogueVars
  PROVE  CatInv'
<1>1. CASE CatalogueNext
  <2> SUFFICES ASSUME NEW a \in Editors,
                      \/ BeginSeed(a)
                      \/ \E m \in Models, r \in ModelInputs : BeginCreate(a, m, r) \/ BeginUpdate(a, m, r)
                      \/ \E m \in Models : BeginSetDefault(a, m) \/ DeleteModel(a, m)
                      \/ MarkNew(a) \/ Insert(a) \/ ReadModel(a)
                      \/ ClearDefaultExcept(a) \/ UpdateModel(a)
               PROVE  CatInv'
    BY <1>1 DEF CatalogueNext
  <2>1. AskedModel \in Models BY JobSubmissionAssumption
  <2> QED BY <2>1, ChangeBegins, DeleteModelSafe, MarkNewSafe, InsertSafe, ReadModelSafe,
             ClearDefaultSafe, UpdateModelSafe
<1>2. CASE UNCHANGED catalogueVars
  BY <1>2 DEF catalogueVars, CatInv, CatalogueTypeOK
<1> QED BY <1>1, <1>2

-----------------------------------------------------------------------------
(***************************************************************************)
(* A job and its submissions.                                              *)
(***************************************************************************)

\* A submission that has written the row had these tags.
SavedWith(t) == \E q \in Requests : request[q].saved /\ t = request[q].tier

RequestFits(r) ==
  /\ r.saved => r.pc \in {"place", "recordFailed", "over"}
  /\ r.pc # "over" => r.answer = "none"

TagsFit ==
  /\ jobRow.status = "queued" => SavedWith(jobRow.tier)
  /\ run.pc # "idle" => SavedWith(run.tier)

PricesFit ==
  /\ run.pc # "idle" => ResolvedPrices(AskedModel, run.price) \subseteq offered
  /\ run.pc \in {"select", "reserve", "generate", "finish"} => run.price \in offered
  /\ run.pc = "resolve" => ~run.charged

\* Nothing has crossed, nothing crosses now, and everybody has been heard.
Undisturbed ==
  /\ ~crossed
  /\ \A q \in Requests : GoesOn(q) => ~Others(q)
  /\ \A q \in Requests : request[q].answer \notin {"gone", "refused"}

ViewsAgree ==
  /\ \A q \in Requests : /\ request[q].pc = "place" => jobRow.status = "queued"
                         /\ request[q].pc = "recordFailed" /\ request[q].saved =>
                              jobRow.status = "failed"
  /\ (\A q \in Requests : ~GoesOn(q)) =>
       /\ run.pc = "idle" /\ ~run.skips => shown = jobRow.status
       /\ run.pc = "finish" /\ ~run.skips => shown = run.outcome

SubInv ==
  /\ CatInv /\ SubmissionTypeOK
  /\ \A q \in Requests : RequestFits(request[q])
  /\ TagsFit /\ PricesFit
  /\ Undisturbed => ViewsAgree

\* The invariant says what is promised.
LEMMA InvKeepsSubmissions == SubInv => SubmissionsAreKept
<1> SUFFICES ASSUME SubInv PROVE SubmissionsAreKept OBVIOUS
<1>1. ChargesAreCurrent
  <2>1. run \in Run BY DEF SubInv, SubmissionTypeOK
  <2>2. run.pc = "resolve" => ~run.charged BY DEF SubInv, PricesFit
  <2> QED BY <2>1, <2>2 DEF ChargesAreCurrent, SubInv, PricesFit, Run
<1>2. TagsAreSubmitted BY DEF TagsAreSubmitted, SubInv, TagsFit, SavedWith
<1>3. JobsAgree BY DEF JobsAgree, SubInv, Undisturbed, ViewsAgree, GoesOn, Others
<1>4. DefaultIsKept BY InvGivesDefault DEF SubInv
<1> QED BY <1>1, <1>2, <1>3, <1>4 DEF SubmissionsAreKept

THEOREM SubmissionBegins == SubmissionInit => SubInv
<1> SUFFICES ASSUME SubmissionInit PROVE SubInv OBVIOUS
<1>1. CatInv BY CatalogueBegins DEF SubmissionInit
<1>2. NewRequest.tier \in Tiers BY DEF SubmissionInit, NewRequest
<1>3. /\ NewRequest \in Request /\ NewRequest.pc = "new" /\ ~NewRequest.saved
      /\ NewRequest.answer = "none"
  BY <1>2 DEF NewRequest, Request
<1>4. NoRun \in Run /\ NoRun.pc = "idle" /\ ~NoRun.skips BY <1>2 DEF NoRun, Run
<1>5. \A q \in Requests : request[q] = NewRequest BY DEF SubmissionInit
<1>6. jobRow \in JobRow /\ jobRow.status = "none" BY <1>2 DEF SubmissionInit, JobRow
<1>7. SubmissionTypeOK
  <2>1. request \in [Requests -> Request] BY <1>3 DEF SubmissionInit
  <2>2. 0 \in 0..MaxTierMoves BY JobSubmissionAssumption
  <2> QED BY <1>1, <1>4, <1>6, <2>1, <2>2 DEF SubmissionInit, SubmissionTypeOK, CatInv
<1>8. TagsFit /\ PricesFit BY <1>4, <1>6 DEF SubmissionInit, TagsFit, PricesFit
<1>9. \A q \in Requests : RequestFits(request[q]) BY <1>3, <1>5 DEF RequestFits
<1>10. ViewsAgree BY <1>3, <1>4, <1>5, <1>6 DEF SubmissionInit, ViewsAgree
<1> QED BY <1>1, <1>7, <1>8, <1>9, <1>10 DEF SubInv

\* What a submission or a run may be charged for the model is a price.
LEMMA PricesAreNumbers ==
  ASSUME CatalogueTypeOK, NEW p \in Nat
  PROVE  ResolvedPrices(AskedModel, p) \subseteq Nat
<1>1. \A m \in Models : model[m].price \in Nat BY DEF CatalogueTypeOK, ModelRow
<1>2. AskedModel \in Models /\ BuiltInPrice \in Nat
  BY JobSubmissionAssumption, ModelCatalogueAssumption
<1> QED BY <1>1, <1>2 DEF ResolvedPrices, FallbackPrice, FoundByName, Named, IsThere

LEMMA OfferedGrows ==
  ASSUME offered \subseteq Nat, CatalogueTypeOK', run' \in Run, OfferedNext
  PROVE  /\ offered' \subseteq Nat
         /\ run'.pc # "idle" => ResolvedPrices(AskedModel, run.price)' \subseteq offered'
         /\ run.pc # "idle" /\ run'.pc # "idle" => offered \subseteq offered'
<1>1. run'.price \in Nat BY DEF Run
<1>2. ResolvedPrices(AskedModel, run.price)' \subseteq Nat
  <2>1. \A m \in Models : model'[m].price \in Nat BY DEF CatalogueTypeOK, ModelRow
  <2>2. AskedModel \in Models /\ BuiltInPrice \in Nat
    BY JobSubmissionAssumption, ModelCatalogueAssumption
  <2> QED BY <1>1, <2>1, <2>2 DEF ResolvedPrices, FallbackPrice, FoundByName, Named, IsThere
<1> QED BY <1>2 DEF OfferedNext

\* Who crosses now has crossed for ever.
LEMMA UndisturbedBefore ==
  ASSUME ~crossed', CrossedNext
  PROVE  ~crossed /\ \A q \in Requests : GoesOn(q) => ~Others(q)
BY DEF CrossedNext

\* A submission goes on.
LEMMA RequestSafe ==
  ASSUME SubInv, CatInv', OfferedNext, CrossedNext, NEW q \in Requests, NEW r \in Request,
         RequestGoes(q, r), request[q].pc # "over", RequestFits(r),
         r.pc # "new", request[q].pc = "new" /\ r.pc = "over" => r.answer = "refused",
         request[q].saved => r.saved /\ r.tier = request[q].tier,
         UNCHANGED <<tier, tierMoves, run>>,
         jobRow' \in JobRow, shown' \in {"none", "queued", "failed", "succeeded"},
         jobRow'.status = "queued" =>
           \/ r.saved /\ jobRow'.tier = r.tier
           \/ jobRow.status = "queued" /\ jobRow'.tier = jobRow.tier,
         Undisturbed /\ r.answer \notin {"gone", "refused"} =>
           /\ r.pc = "place" => jobRow'.status = "queued"
           /\ r.pc = "recordFailed" /\ r.saved => jobRow'.status = "failed"
           /\ r.pc = "over" => shown' = jobRow'.status
  PROVE  SubInv'
<1>0. /\ request \in [Requests -> Request] /\ run \in Run /\ offered \subseteq Nat
      /\ CatalogueTypeOK' /\ run' = run /\ crossed \in BOOLEAN
  BY DEF SubInv, SubmissionTypeOK, CatInv
<1>1. /\ request' \in [Requests -> Request] /\ request'[q] = r
      /\ \A x \in Requests : x # q => request'[x] = request[x]
  BY <1>0 DEF RequestGoes
<1>2. /\ offered' \subseteq Nat
      /\ run.pc # "idle" => ResolvedPrices(AskedModel, run.price)' \subseteq offered'
      /\ run.pc # "idle" => offered \subseteq offered'
  BY <1>0, OfferedGrows
<1>3. SubmissionTypeOK'
  <2>1. crossed' \in BOOLEAN BY <1>0 DEF CrossedNext
  <2> QED BY <1>0, <1>1, <1>2, <2>1 DEF SubInv, SubmissionTypeOK
<1>4. \A x \in Requests : RequestFits(request'[x]) BY <1>1 DEF SubInv
<1>5. TagsFit'
  <2>1. \A t : SavedWith(t) => \E x \in Requests : request'[x].saved /\ t = request'[x].tier
    BY <1>1 DEF SavedWith
  <2> QED BY <1>0, <1>1, <2>1 DEF SubInv, TagsFit, SavedWith
<1>6. PricesFit' BY <1>0, <1>2 DEF SubInv, PricesFit
<1>7. ASSUME Undisturbed' PROVE ViewsAgree'
  <2>1. ~crossed /\ \A x \in Requests : GoesOn(x) => ~Others(x)
    BY <1>7, UndisturbedBefore DEF Undisturbed
  <2>2. \A x \in Requests : request'[x].answer \notin {"gone", "refused"}
    BY <1>7 DEF Undisturbed
  <2>3. \A x \in Requests : request[x].answer \notin {"gone", "refused"}
    <3>1. request[q].answer = "none" BY DEF SubInv, RequestFits
    <3> QED BY <1>1, <2>2, <3>1
  <2>4. Undisturbed BY <2>1, <2>3 DEF Undisturbed
  <2>5. ViewsAgree BY <2>4 DEF SubInv
  <2>6. \A x \in Requests : GoesOn(x)' => ~Others(x)' BY <1>7 DEF Undisturbed
  <2>7. r.answer \notin {"gone", "refused"} BY <1>1, <2>2
  <2>8. CASE r.pc = "over"
    <3>1. request[q].pc # "new" BY <2>7, <2>8
    <3>2. run.pc = "idle" /\ \A x \in Requests : x # q => ~GoesOn(x)
      BY <2>1, <3>1 DEF GoesOn, Others
    <3>3. \A x \in Requests : x # q => request[x].pc \notin {"place", "recordFailed"}
      BY <3>2 DEF GoesOn
    <3>4. shown' = jobRow'.status BY <2>4, <2>7, <2>8
    <3> QED BY <1>0, <1>1, <2>8, <3>2, <3>3, <3>4 DEF ViewsAgree
  <2>9. CASE r.pc # "over"
    <3>1. GoesOn(q)' BY <1>1, <2>9 DEF GoesOn
    <3>2. \A x \in Requests : x # q => ~GoesOn(x)' BY <2>6, <3>1 DEF Others
    <3>3. \A x \in Requests : x # q => request'[x].pc \notin {"place", "recordFailed"}
      BY <3>2 DEF GoesOn
    <3> QED BY <1>1, <2>4, <2>7, <3>1, <3>3 DEF ViewsAgree
  <2> QED BY <2>8, <2>9
<1> QED BY <1>3, <1>4, <1>5, <1>6, <1>7 DEF SubInv

\* Anything else happens: a run goes on, or the tags of the user or the catalogue change.
LEMMA RunSafe ==
  ASSUME SubInv, CatInv', OfferedNext, CrossedNext, NEW r \in Run, run' = r,
         UNCHANGED request, tier' \in Tiers, tierMoves' \in 0..MaxTierMoves,
         jobRow' \in JobRow, shown' \in {"none", "queued", "failed", "succeeded"},
         jobRow'.status = "queued" => jobRow.status = "queued" /\ jobRow'.tier = jobRow.tier,
         r.pc # "idle" => SavedWith(r.tier),
         r.pc \in {"select", "reserve", "generate", "finish"} =>
           run.pc # "idle" /\ r.price \in offered,
         r.pc = "resolve" => ~r.charged,
         Undisturbed /\ (\A q \in Requests : ~GoesOn(q)) =>
           /\ r.pc = "idle" /\ ~r.skips => shown' = jobRow'.status
           /\ r.pc = "finish" /\ ~r.skips => shown' = r.outcome,
         Undisturbed /\ (\E q \in Requests : GoesOn(q)) =>
           r.pc # "idle" \/ jobRow' = jobRow
  PROVE  SubInv'
<1>0. /\ request \in [Requests -> Request] /\ request' = request /\ offered \subseteq Nat
      /\ CatalogueTypeOK' /\ run' \in Run /\ crossed \in BOOLEAN
  BY DEF SubInv, SubmissionTypeOK, CatInv
<1>1. /\ offered' \subseteq Nat
      /\ run'.pc # "idle" => ResolvedPrices(AskedModel, run.price)' \subseteq offered'
      /\ run.pc # "idle" /\ run'.pc # "idle" => offered \subseteq offered'
  BY <1>0, OfferedGrows
<1>2. SubmissionTypeOK'
  <2>1. crossed' \in BOOLEAN BY <1>0 DEF CrossedNext
  <2> QED BY <1>0, <1>1, <2>1 DEF SubmissionTypeOK
<1>3. \A q \in Requests : RequestFits(request'[q]) BY <1>0 DEF SubInv
<1>4. TagsFit' BY <1>0 DEF SubInv, TagsFit, SavedWith
<1>5. PricesFit' BY <1>0, <1>1 DEF PricesFit
<1>6. ASSUME Undisturbed' PROVE ViewsAgree'
  <2>1. ~crossed /\ \A q \in Requests : GoesOn(q) => ~Others(q)
    BY <1>6, UndisturbedBefore DEF Undisturbed
  <2>2. Undisturbed BY <1>0, <1>6, <2>1 DEF Undisturbed
  <2>3. ViewsAgree BY <2>2 DEF SubInv
  <2>4. \A q \in Requests : GoesOn(q)' <=> GoesOn(q) BY <1>0 DEF GoesOn
  <2>5. CASE \A q \in Requests : ~GoesOn(q)
    <3>1. \A q \in Requests : request'[q].pc \notin {"place", "recordFailed"}
      BY <1>0, <2>5 DEF GoesOn
    <3> QED BY <1>0, <2>2, <2>5, <3>1 DEF ViewsAgree
  <2>6. ASSUME NEW q \in Requests, GoesOn(q) PROVE ViewsAgree'
    <3>1. run'.pc = "idle" BY <1>6, <2>4, <2>6 DEF Undisturbed, Others
    <3>2. jobRow' = jobRow BY <2>2, <2>6, <3>1
    <3> QED BY <1>0, <2>3, <2>4, <2>6, <3>2 DEF ViewsAgree
  <2> QED BY <2>5, <2>6
<1> QED BY <1>2, <1>3, <1>4, <1>5, <1>6 DEF SubInv

LEMMA SubmissionTyped ==
  ASSUME SubInv
  PROVE  /\ run \in Run /\ jobRow \in JobRow /\ tier \in Tiers /\ tierMoves \in 0..MaxTierMoves
         /\ shown \in {"none", "queued", "failed", "succeeded"}
         /\ \A q \in Requests : /\ request[q] \in Request /\ RequestFits(request[q])
                                /\ request[q].price \in Nat /\ request[q].tier \in Tiers
         /\ run.price \in Nat /\ NoRun \in Run /\ MaxTierMoves \in Nat /\ CatalogueTypeOK
<1>1. \A q \in Requests : request[q] \in Request BY DEF SubInv, SubmissionTypeOK
<1>2. \A q \in Requests : request[q].price \in Nat /\ request[q].tier \in Tiers
  BY <1>1 DEF Request
<1>3. run \in Run /\ run.price \in Nat BY DEF SubInv, SubmissionTypeOK, Run
<1>4. tier \in Tiers BY DEF SubInv, SubmissionTypeOK
<1>5. NewRequest.tier \in Tiers BY <1>4 DEF NewRequest
<1>6. NoRun \in Run BY <1>5 DEF NoRun, Run
<1> QED BY <1>1, <1>2, <1>3, <1>6, JobSubmissionAssumption DEF SubInv, SubmissionTypeOK

\* The steps before the row is written change the submission alone.
LEMMA RequestPrepares ==
  ASSUME SubInv, CatInv', OfferedNext, CrossedNext, NEW q \in Requests,
         \/ Submit(q) \/ ResolveModel(q) \/ EnrichTags(q) \/ SelectProvider(q)
         \/ CheckPayload(q) \/ LeaveRequest(q)
  PROVE  SubInv'
<1> DEFINE old == request[q]
<1>0. /\ old \in Request /\ RequestFits(old) /\ jobRow' = jobRow /\ shown' = shown
      /\ jobRow \in JobRow /\ shown \in {"none", "queued", "failed", "succeeded"}
      /\ UNCHANGED <<tier, tierMoves, run>> /\ tier \in Tiers /\ old.price \in Nat
      /\ CatalogueTypeOK
  BY SubmissionTyped
  DEF Submit, ResolveModel, EnrichTags, SelectProvider, CheckPayload, LeaveRequest
<1>1. ASSUME NEW r \in Request, RequestGoes(q, r), old.pc \notin {"over", "place"},
             r.pc \notin {"new", "over", "place"}, r.saved = old.saved, ~old.saved,
             r.answer = "none"
      PROVE  SubInv'
  BY <1>0, <1>1, RequestSafe DEF RequestFits
<1>2. ASSUME NEW a \in {"gone", "refused"}, RequestGoes(q, Answers(q, a)), old.pc # "over",
             old.pc = "new" => a = "refused"
      PROVE  SubInv'
  <2> DEFINE r == Answers(q, a)
  <2>1. /\ r \in Request /\ r.pc = "over" /\ r.answer = a /\ r.saved = old.saved
        /\ r.tier = old.tier
    BY <1>0 DEF Answers, Request
  <2> HIDE DEF r
  <2>2. RequestFits(r) BY <2>1 DEF RequestFits
  <2>3. RequestGoes(q, r) BY <1>2 DEF r
  <2> QED BY <1>0, <1>2, <2>1, <2>2, <2>3, RequestSafe
<1>3. CASE Submit(q)
  <2>1. old.pc = "new" BY <1>3 DEF Submit, AtRequest
  <2> DEFINE r == [old EXCEPT !.pc = "resolve"]
  <2>2. CASE RequestGoes(q, r)
    <3>1. r \in Request /\ r.pc = "resolve" /\ r.saved = old.saved /\ r.answer = old.answer
      BY <1>0 DEF Request
    <3> HIDE DEF r
    <3> QED BY <1>0, <1>1, <2>1, <2>2, <3>1 DEF RequestFits
  <2> QED BY <1>2, <1>3, <2>1, <2>2 DEF Submit
<1>4. CASE ResolveModel(q)
  <2>1. old.pc = "resolve" BY <1>4 DEF ResolveModel, AtRequest
  <2>2. PICK p \in ResolvedPrices(AskedModel, old.price) :
          RequestGoes(q, [old EXCEPT !.pc = "tags", !.price = p])
    BY <1>4 DEF ResolveModel
  <2>3. p \in Nat BY <1>0, <2>2, PricesAreNumbers
  <2> DEFINE r == [old EXCEPT !.pc = "tags", !.price = p]
  <2>4. r \in Request /\ r.pc = "tags" /\ r.saved = old.saved /\ r.answer = old.answer
    BY <1>0, <2>3 DEF Request
  <2>5. RequestGoes(q, r) BY <2>2
  <2> HIDE DEF r
  <2> QED BY <1>0, <1>1, <2>1, <2>4, <2>5 DEF RequestFits
<1>5. CASE EnrichTags(q)
  <2> DEFINE r == [old EXCEPT !.pc = "select", !.tier = tier]
  <2>1. old.pc = "tags" /\ RequestGoes(q, r) BY <1>5 DEF EnrichTags, AtRequest
  <2>2. r \in Request /\ r.pc = "select" /\ r.saved = old.saved /\ r.answer = old.answer
    BY <1>0 DEF Request
  <2> HIDE DEF r
  <2> QED BY <1>0, <1>1, <2>1, <2>2 DEF RequestFits
<1>6. CASE SelectProvider(q) \/ CheckPayload(q)
  <2>1. /\ old.pc \in {"select", "check"}
        /\ \E pc \in {"check", "recordFailed", "saveFailed", "save"} :
             RequestGoes(q, [old EXCEPT !.pc = pc])
    BY <1>6 DEF SelectProvider, CheckPayload, AtRequest
  <2>2. PICK pc \in {"check", "recordFailed", "saveFailed", "save"} :
          RequestGoes(q, [old EXCEPT !.pc = pc])
    BY <2>1
  <2> DEFINE r == [old EXCEPT !.pc = pc]
  <2>3. r \in Request /\ r.pc = pc /\ r.saved = old.saved /\ r.answer = old.answer
    BY <1>0 DEF Request
  <2>4. RequestGoes(q, r) BY <2>2
  <2> HIDE DEF r
  <2> QED BY <1>0, <1>1, <2>1, <2>3, <2>4 DEF RequestFits
<1>7. CASE LeaveRequest(q)
  <2>1. old.pc \in {"save", "place", "saveFailed", "recordFailed"} /\ RequestGoes(q, Answers(q, "gone"))
    BY <1>7 DEF LeaveRequest
  <2> QED BY <1>2, <2>1
<1> QED BY <1>3, <1>4, <1>5, <1>6, <1>7

LEMMA SaveQueuedJobSafe ==
  ASSUME SubInv, CatInv', OfferedNext, CrossedNext, NEW q \in Requests, SaveQueuedJob(q)
  PROVE  SubInv'
<1> DEFINE old == request[q]
<1>0. /\ old \in Request /\ RequestFits(old) /\ shown' = shown /\ old.pc = "save"
      /\ jobRow \in JobRow /\ shown \in {"none", "queued", "failed", "succeeded"}
      /\ UNCHANGED <<tier, tierMoves, run>> /\ old.price \in Nat /\ old.tier \in Tiers
      /\ ~old.saved
  BY SubmissionTyped DEF SaveQueuedJob, AtRequest, RequestFits
<1>1. CASE RequestGoes(q, [old EXCEPT !.pc = "recordFailed"]) /\ UNCHANGED jobRow
  <2> DEFINE r == [old EXCEPT !.pc = "recordFailed"]
  <2>1. r \in Request /\ r.pc = "recordFailed" /\ r.saved = old.saved /\ r.answer = old.answer
    BY <1>0 DEF Request
  <2>2. RequestGoes(q, r) BY <1>1
  <2> HIDE DEF r
  <2>3. RequestFits(r) BY <1>0, <2>1 DEF RequestFits
  <2> QED BY <1>0, <1>1, <2>1, <2>2, <2>3, RequestSafe
<1>2. CASE /\ RequestGoes(q, [old EXCEPT !.pc = "place", !.saved = TRUE])
           /\ jobRow' = [status |-> "queued", claimed |-> FALSE,
                         price |-> old.price, tier |-> old.tier]
  <2> DEFINE r == [old EXCEPT !.pc = "place", !.saved = TRUE]
  <2>1. r \in Request /\ r.pc = "place" /\ r.saved /\ r.answer = old.answer /\ r.tier = old.tier
    BY <1>0 DEF Request
  <2>2. RequestGoes(q, r) BY <1>2
  <2> HIDE DEF r
  <2>3. RequestFits(r) BY <1>0, <2>1 DEF RequestFits
  <2>4. jobRow' \in JobRow /\ jobRow'.status = "queued" /\ jobRow'.tier = old.tier
    BY <1>0, <1>2 DEF JobRow
  <2> QED BY <1>0, <2>1, <2>2, <2>3, <2>4, RequestSafe
<1> QED BY <1>1, <1>2 DEF SaveQueuedJob

LEMMA PlaceQueuedSafe ==
  ASSUME SubInv, CatInv', OfferedNext, CrossedNext, NEW q \in Requests, PlaceQueued(q)
  PROVE  SubInv'
<1> DEFINE old == request[q]
           r == Answers(q, "accepted")
<1>0. /\ old \in Request /\ shown' = "queued" /\ old.pc = "place" /\ jobRow' = jobRow
      /\ jobRow \in JobRow /\ UNCHANGED <<tier, tierMoves, run>> /\ RequestGoes(q, r)
  BY SubmissionTyped DEF PlaceQueued, AtRequest
<1>1. /\ r \in Request /\ r.pc = "over" /\ r.saved = old.saved /\ r.answer = "accepted"
      /\ r.tier = old.tier
  BY <1>0 DEF Request, Answers
<1> HIDE DEF r
<1>2. RequestFits(r) BY <1>1 DEF RequestFits
<1>3. Undisturbed => jobRow.status = "queued" BY <1>0 DEF SubInv, ViewsAgree
<1> QED BY <1>0, <1>1, <1>2, <1>3, RequestSafe

LEMMA SaveFailedJobSafe ==
  ASSUME SubInv, CatInv', OfferedNext, CrossedNext, NEW q \in Requests, SaveFailedJob(q)
  PROVE  SubInv'
<1> DEFINE old == request[q]
           r == [old EXCEPT !.pc = "recordFailed", !.saved = TRUE]
<1>0. /\ old \in Request /\ RequestFits(old) /\ shown' = shown /\ old.pc = "saveFailed"
      /\ jobRow \in JobRow /\ UNCHANGED <<tier, tierMoves, run>> /\ RequestGoes(q, r)
      /\ shown \in {"none", "queued", "failed", "succeeded"}
      /\ jobRow' = [jobRow EXCEPT !.status = "failed", !.claimed = FALSE]
  BY SubmissionTyped DEF SaveFailedJob, AtRequest
<1>1. /\ r \in Request /\ r.pc = "recordFailed" /\ r.saved /\ r.answer = old.answer
      /\ r.tier = old.tier
  BY <1>0 DEF Request
<1> HIDE DEF r
<1>2. RequestFits(r) BY <1>0, <1>1 DEF RequestFits
<1>3. jobRow' \in JobRow /\ jobRow'.status = "failed" BY <1>0 DEF JobRow
<1> QED BY <1>0, <1>1, <1>2, <1>3, RequestSafe

LEMMA RecordFailedSafe ==
  ASSUME SubInv, CatInv', OfferedNext, CrossedNext, NEW q \in Requests, RecordFailed(q)
  PROVE  SubInv'
<1> DEFINE old == request[q]
           a == IF old.saved THEN "refusedJob" ELSE "refused"
           r == Answers(q, a)
<1>0. /\ old \in Request /\ old.pc = "recordFailed" /\ jobRow' = jobRow
      /\ jobRow \in JobRow /\ UNCHANGED <<tier, tierMoves, run>> /\ RequestGoes(q, r)
      /\ shown' = "failed" \/ (~old.saved /\ shown' = shown)
      /\ shown \in {"none", "queued", "failed", "succeeded"}
  BY SubmissionTyped DEF RecordFailed, AtRequest
<1>1. /\ r \in Request /\ r.pc = "over" /\ r.saved = old.saved /\ r.answer = a
      /\ r.tier = old.tier
  BY <1>0 DEF Request, Answers
<1> HIDE DEF r
<1>2. RequestFits(r) BY <1>1 DEF RequestFits
<1>3. Undisturbed /\ old.saved => jobRow.status = "failed" BY <1>0 DEF SubInv, ViewsAgree
<1> QED BY <1>0, <1>1, <1>2, <1>3, RequestSafe

\* A run.
LEMMA RunGoesOn ==
  ASSUME SubInv, CatInv', OfferedNext, CrossedNext,
         ResolveAgain \/ SelectAgain \/ ReserveCredits \/ RecordGeneration
  PROVE  SubInv'
<1>0. /\ run \in Run /\ run.pc # "idle" /\ SavedWith(run.tier) /\ jobRow \in JobRow
      /\ UNCHANGED <<request, tier, tierMoves, jobRow>>
      /\ tier \in Tiers /\ tierMoves \in 0..MaxTierMoves
      /\ shown \in {"none", "queued", "failed", "succeeded"}
  BY SubmissionTyped
  DEF SubInv, TagsFit, ResolveAgain, SelectAgain, ReserveCredits, RecordGeneration
<1>1. Undisturbed => \A q \in Requests : ~GoesOn(q) BY <1>0 DEF Undisturbed, Others
<1>2. ASSUME NEW r \in Run, run' = r, r.tier = run.tier, r.price \in offered,
             r.pc \in {"select", "reserve", "generate", "finish"},
             shown' \in {"none", "queued", "failed", "succeeded"},
             r.pc = "finish" /\ ~r.skips => shown' = r.outcome
      PROVE  SubInv'
  BY <1>0, <1>1, <1>2, RunSafe
<1>3. CASE ResolveAgain
  <2>1. PICK p \in ResolvedPrices(AskedModel, run.price) :
          run' = [run EXCEPT !.pc = "select", !.price = p]
    BY <1>3 DEF ResolveAgain, RunPrices, RunGoes
  <2> DEFINE r == [run EXCEPT !.pc = "select", !.price = p]
  <2>2. p \in offered BY <1>0, <2>1 DEF SubInv, PricesFit
  <2>3. p \in Nat BY <2>2 DEF SubInv, SubmissionTypeOK
  <2>4. r \in Run /\ r.pc = "select" /\ r.tier = run.tier /\ r.price = p
    BY <1>0, <2>3 DEF Run
  <2>5. run' = r /\ shown' = shown BY <1>3, <2>1 DEF ResolveAgain
  <2> HIDE DEF r
  <2> QED BY <1>0, <1>2, <2>2, <2>4, <2>5
<1>4. CASE SelectAgain
  <2>1. run.pc = "select" /\ run.price \in offered /\ shown' = shown
    BY <1>4 DEF SelectAgain, SubInv, PricesFit
  <2>2. PICK r \in {[run EXCEPT !.pc = "reserve", !.tier = RunTier],
                    [run EXCEPT !.pc = "finish", !.skips = TRUE],
                    [run EXCEPT !.pc = "generate", !.outcome = "failed"]} : run' = r
    BY <1>4 DEF SelectAgain, RunGoes
  <2>3. /\ r \in Run /\ r.tier = run.tier /\ r.price = run.price
        /\ r.pc \in {"reserve", "generate", "finish"} /\ (r.pc = "finish" => r.skips)
    BY <1>0, <2>2 DEF Run, RunTier
  <2> QED BY <1>0, <1>2, <2>1, <2>2, <2>3
<1>5. CASE ReserveCredits
  <2>1. run.pc = "reserve" /\ run.price \in offered /\ shown' = shown
    BY <1>5 DEF ReserveCredits, SubInv, PricesFit
  <2>2. PICK o \in {"failed", "succeeded"} :
          run' = [run EXCEPT !.pc = "generate", !.charged = TRUE, !.outcome = o]
    BY <1>5 DEF ReserveCredits, RunGoes
  <2> DEFINE r == [run EXCEPT !.pc = "generate", !.charged = TRUE, !.outcome = o]
  <2>3. r \in Run /\ r.tier = run.tier /\ r.price = run.price /\ r.pc = "generate"
    BY <1>0 DEF Run
  <2>4. run' = r BY <2>2
  <2> HIDE DEF r
  <2> QED BY <1>0, <1>2, <2>1, <2>3, <2>4
<1>6. CASE RecordGeneration
  <2> DEFINE r == [run EXCEPT !.pc = "finish"]
  <2>1. run.pc = "generate" /\ run.price \in offered /\ shown' = run.outcome /\ run' = r
    BY <1>6 DEF RecordGeneration, RunGoes, SubInv, PricesFit
  <2>2. /\ r \in Run /\ r.tier = run.tier /\ r.price = run.price /\ r.pc = "finish"
        /\ r.outcome = run.outcome /\ run.outcome \in {"failed", "succeeded"}
    BY <1>0 DEF Run
  <2> HIDE DEF r
  <2> QED BY <1>0, <1>2, <2>1, <2>2
<1> QED BY <1>3, <1>4, <1>5, <1>6

LEMMA ClaimJobSafe ==
  ASSUME SubInv, CatInv', OfferedNext, CrossedNext, ClaimJob
  PROVE  SubInv'
<1> DEFINE r == [NoRun EXCEPT !.pc = "resolve", !.price = jobRow.price, !.tier = jobRow.tier]
<1>0. /\ jobRow \in JobRow /\ run' = r /\ jobRow.status = "queued" /\ NoRun \in Run
      /\ jobRow' = [jobRow EXCEPT !.claimed = TRUE]
      /\ UNCHANGED <<request, tier, tierMoves, shown>>
      /\ tier \in Tiers /\ tierMoves \in 0..MaxTierMoves
      /\ shown \in {"none", "queued", "failed", "succeeded"}
  BY SubmissionTyped DEF ClaimJob, RunGoes
<1>1. jobRow' \in JobRow /\ jobRow'.tier = jobRow.tier BY <1>0 DEF JobRow
<1>2. r \in Run /\ r.pc = "resolve" /\ ~r.charged /\ r.tier = jobRow.tier
  BY <1>0 DEF Run, JobRow, NoRun
<1>3. SavedWith(jobRow.tier) BY <1>0 DEF SubInv, TagsFit
<1> HIDE DEF r
<1> QED BY <1>0, <1>1, <1>2, <1>3, RunSafe

LEMMA FinishRunSafe ==
  ASSUME SubInv, CatInv', OfferedNext, CrossedNext, FinishRun
  PROVE  SubInv'
<1> DEFINE r == [run EXCEPT !.pc = "idle"]
<1>0. /\ jobRow \in JobRow /\ run' = r /\ run \in Run /\ run.pc = "finish"
      /\ jobRow' = [jobRow EXCEPT !.status = run.outcome, !.claimed = FALSE]
      /\ UNCHANGED <<request, tier, tierMoves, shown>>
      /\ tier \in Tiers /\ tierMoves \in 0..MaxTierMoves
      /\ shown \in {"none", "queued", "failed", "succeeded"}
  BY SubmissionTyped DEF FinishRun, RunGoes
<1>1. /\ jobRow' \in JobRow /\ jobRow'.status = run.outcome
      /\ run.outcome \in {"failed", "succeeded"}
  BY <1>0 DEF JobRow, Run
<1>2. r \in Run /\ r.pc = "idle" /\ r.skips = run.skips BY <1>0 DEF Run
<1>3. Undisturbed => /\ \A q \in Requests : ~GoesOn(q)
                     /\ ~run.skips => shown = run.outcome
  BY <1>0 DEF Undisturbed, Others, SubInv, ViewsAgree
<1> HIDE DEF r
<1> QED BY <1>0, <1>1, <1>2, <1>3, RunSafe

\* The tags of the user or the catalogue change.
LEMMA OthersSafe ==
  ASSUME SubInv, CatInv', OfferedNext, CrossedNext, UNCHANGED <<request, jobRow, shown, run>>,
         (\E t \in Tiers : TierMoves(t)) \/ UNCHANGED <<tier, tierMoves>>
  PROVE  SubInv'
<1>0. /\ run \in Run /\ jobRow \in JobRow /\ shown \in {"none", "queued", "failed", "succeeded"}
      /\ tier' \in Tiers /\ tierMoves' \in 0..MaxTierMoves
  BY SubmissionTyped DEF TierMoves
<1> QED BY <1>0, RunSafe DEF SubInv, TagsFit, PricesFit, ViewsAgree

THEOREM SubmissionContinues ==
  ASSUME SubInv, [SubmissionNext]_<<catalogueVars, submissionVars>>
  PROVE  SubInv'
<1>1. CASE SubmissionNext
  <2>1. CatInv'
    BY <1>1, CatalogueContinues DEF SubmissionNext, SubmissionStep, SubInv
  <2>2. OfferedNext /\ CrossedNext BY <1>1 DEF SubmissionNext
  <2>3. CASE CatalogueNext /\ UNCHANGED jobVars
    BY <2>1, <2>2, <2>3, OthersSafe DEF jobVars
  <2>4. CASE SubmissionStep
    <3>1. ASSUME NEW q \in Requests,
                 \/ Submit(q) \/ ResolveModel(q) \/ EnrichTags(q) \/ SelectProvider(q)
                 \/ CheckPayload(q) \/ SaveQueuedJob(q) \/ PlaceQueued(q)
                 \/ SaveFailedJob(q) \/ RecordFailed(q) \/ LeaveRequest(q)
          PROVE  SubInv'
      BY <2>1, <2>2, <3>1, RequestPrepares, SaveQueuedJobSafe, PlaceQueuedSafe,
         SaveFailedJobSafe, RecordFailedSafe
    <3>2. CASE ClaimJob \/ ResolveAgain \/ SelectAgain \/ ReserveCredits
               \/ RecordGeneration \/ FinishRun
      BY <2>1, <2>2, <3>2, ClaimJobSafe, RunGoesOn, FinishRunSafe
    <3>3. ASSUME NEW t \in Tiers, TierMoves(t) PROVE SubInv'
      BY <2>1, <2>2, <3>3, OthersSafe DEF TierMoves
    <3> QED BY <2>4, <3>1, <3>2, <3>3 DEF SubmissionStep
  <2> QED BY <1>1, <2>3, <2>4 DEF SubmissionNext
<1>2. CASE UNCHANGED <<catalogueVars, submissionVars>>
  <2>1. CatInv' BY <1>2, CatalogueContinues DEF SubInv
  <2> QED BY <1>2, <2>1
    DEF catalogueVars, submissionVars, jobVars, SubInv, SubmissionTypeOK, CatalogueTypeOK,
        RequestFits, TagsFit, SavedWith, PricesFit, ResolvedPrices, FallbackPrice, FoundByName,
        Named, IsThere, Seeding, Empty, Undisturbed, ViewsAgree, GoesOn, Others
<1> QED BY <1>1, <1>2

\* Rows, requests and runs keep their types (JobSubmission, ModelCatalogue).
THEOREM SubmissionTypes == SubmissionSpec => []SubmissionTypeOK
<1>1. SubInv => SubmissionTypeOK BY DEF SubInv
<1> QED BY <1>1, SubmissionBegins, SubmissionContinues, PTL DEF SubmissionSpec

\* A run charges a price its model had while it went on, with the tags of a submission;
\* row and generation of a job whose submissions and runs do not cross say the same; and
\* a catalogue that is changed calmly keeps one default, for any number of submissions,
\* administrators, models and prices (resolveBusinessImageModel, createQueuedProviderImageJob).
THEOREM SubmissionsHold == SubmissionSpec => []SubmissionsAreKept
<1> QED BY InvKeepsSubmissions, SubmissionBegins, SubmissionContinues, PTL DEF SubmissionSpec

=============================================================================
