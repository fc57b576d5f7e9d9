---------------------------- MODULE RiskControl ----------------------------
(***************************************************************************)
(* The moderation of prompts: the configuration and the policies that      *)
(* override it, read one after the other, the chain of moderators, and the *)
(* administrators who read and write the settings meanwhile.               *)
(*                                                                         *)
(* "mode" stands for each setting that a policy may override (the mode,    *)
(* the message, the risk level with its thresholds): what a policy leaves  *)
(* empty is kept.                                                          *)
(***************************************************************************)
EXTENDS Naturals, Sequences, FiniteSets

CONSTANTS
  Moderators,     \* openai and aliyun
  TextOnly,       \* the ones that refuse images
  Chains,         \* the orders that the configuration may ask them in
  Scopes,         \* 1 .. n, from global to the API key
  RiskChecks,     \* prompts that are checked
  RiskAdmins,
  MaxRiskChanges  \* bound: changes of the settings

ASSUME RiskControlAssumption ==
  /\ TextOnly \subseteq Moderators
  /\ Chains # {} /\ \A q \in Chains : q \in Seq(Moderators) /\ q # <<>>
  /\ IsFiniteSet(Scopes) /\ Scopes = 1 .. Cardinality(Scopes)
  /\ MaxRiskChanges \in Nat

VARIABLES
  riskConfig,   \* the row of business_system_settings
  riskPolicy,   \* business_risk_control_policies, for the scopes of one user
  riskEdit,     \* what an administrator has read
  riskChanges,
  riskCheck,
  disturbed     \* history: the checks since whose beginning a setting was written

riskSettings == <<riskConfig, riskPolicy, riskEdit, riskChanges>>
riskVars == <<riskSettings, riskCheck, disturbed>>

Modes == {"observe", "block"}

RiskConfigs == [on: BOOLEAN, mode: Modes, open: BOOLEAN,
                chain: Chains, keys: SUBSET Moderators]

NoPolicy == [state |-> "none", mode |-> ""]

Policies == {NoPolicy} \cup [state: {"off", "on"}, mode: Modes \cup {""}]

ModeratorAnswers == {"none", "failed", "clean", "flagged"}

RiskControlTypeOK ==
  /\ riskConfig \in RiskConfigs
  /\ riskPolicy \in [Scopes -> Policies]
  /\ riskEdit \in [RiskAdmins -> [of: Scopes \cup {0}, config: RiskConfigs, policy: Policies,
                                  open: BOOLEAN]]
  /\ riskChanges \in 0 .. MaxRiskChanges
  /\ riskCheck \in [RiskChecks ->
       [pc: {"idle", "config", "policies", "moderate", "over"}, images: BOOLEAN,
        config: RiskConfigs, scope: Nat, asked: Nat,
        heard: [Moderators -> ModeratorAnswers],
        decision: {"none", "allow", "block", "error"}]]
  /\ disturbed \subseteq RiskChecks

NoEdit == [of |-> 0, config |-> riskConfig, policy |-> NoPolicy, open |-> FALSE]

RiskControlInit ==
  /\ riskConfig \in {c \in RiskConfigs : c.keys = Moderators /\ c.on /\ ~c.open}
  /\ riskPolicy \in [Scopes -> {NoPolicy} \cup [state: {"on"}, mode: Modes]]
  /\ riskEdit = [a \in RiskAdmins |-> NoEdit]
  /\ riskChanges = 0
  /\ riskCheck = [c \in RiskChecks |->
       [pc |-> "idle", images |-> FALSE, config |-> riskConfig, scope |-> 0, asked |-> 0,
        heard |-> [m \in Moderators |-> "none"], decision |-> "none"]]
  /\ disturbed = {}

-----------------------------------------------------------------------------
(* Settings.                                                               *)

\* UpdateConfig and UpsertPolicy read the row ...
ReadSettings(a, of) ==
  /\ ~riskEdit[a].open
  /\ riskEdit' = [riskEdit EXCEPT ![a] =
       [of |-> of, config |-> riskConfig, open |-> TRUE,
        policy |-> IF of = 0 THEN NoPolicy ELSE riskPolicy[of]]]
  /\ UNCHANGED <<riskConfig, riskPolicy, riskChanges, riskCheck, disturbed>>

\* ... and write it whole, with what is changed, whatever it is by then.
SettingWritten(a) ==
  /\ riskChanges < MaxRiskChanges
  /\ riskChanges' = riskChanges + 1
  /\ disturbed' = disturbed \cup {c \in RiskChecks : riskCheck[c].pc # "idle"}
  /\ riskEdit' = [riskEdit EXCEPT ![a].open = FALSE]
  /\ UNCHANGED riskCheck

WriteConfig(a) ==
  LET c == riskEdit[a].config
  IN  /\ riskEdit[a].open /\ riskEdit[a].of = 0
      /\ riskConfig' \in {[c EXCEPT !.on = ~c.on], [c EXCEPT !.open = ~c.open]}
           \cup {[c EXCEPT !.mode = m] : m \in Modes}
           \cup {[c EXCEPT !.chain = q] : q \in Chains}
           \cup {[c EXCEPT !.keys = c.keys \ {m}] : m \in Moderators}
           \cup {[c EXCEPT !.keys = c.keys \cup {m}] : m \in Moderators}
      /\ SettingWritten(a)
      /\ UNCHANGED riskPolicy

\* A new policy is enabled.
WritePolicy(a) ==
  LET p == riskEdit[a].policy
      q == IF p.state = "none" THEN [p EXCEPT !.state = "on"] ELSE p
  IN  /\ riskEdit[a].open /\ riskEdit[a].of # 0
      /\ \E state \in {"off", "on"}, mode \in Modes \cup {""} :
           /\ state = q.state \/ mode = q.mode
           /\ riskPolicy' = [riskPolicy EXCEPT ![riskEdit[a].of] = [state |-> state, mode |-> mode]]
      /\ SettingWritten(a)
      /\ UNCHANGED riskConfig

DeletePolicy(a, s) ==
  /\ ~riskEdit[a].open
  /\ riskPolicy[s] # NoPolicy
  /\ riskPolicy' = [riskPolicy EXCEPT ![s] = NoPolicy]
  /\ SettingWritten(a)
  /\ UNCHANGED riskConfig

-----------------------------------------------------------------------------
(* A check.                                                                *)

CheckBecomes(c, r) ==
  /\ riskCheck' = [riskCheck EXCEPT ![c] = r]
  /\ UNCHANGED <<riskSettings, disturbed>>

Decides(c, decision) ==
  CheckBecomes(c, [riskCheck[c] EXCEPT !.pc = "over", !.decision = decision])

BeginCheck(c) ==
  /\ riskCheck[c].pc = "idle"
  /\ \E images \in BOOLEAN :
       CheckBecomes(c, [riskCheck[c] EXCEPT !.pc = "config", !.images = images])

\* GetConfig
ReadConfig(c) ==
  /\ riskCheck[c].pc = "config"
  /\ CheckBecomes(c, [riskCheck[c] EXCEPT !.pc = "policies", !.config = riskConfig, !.scope = 1])

\* (Variation: a policy that is switched off applies.)
AnyPolicy(cfg, p) == IF p.mode # "" THEN [cfg EXCEPT !.mode = p.mode] ELSE cfg

\* applyPolicyToConfig, of an enabled policy
Applied(cfg, p) == IF p.state = "on" /\ p.mode # "" THEN [cfg EXCEPT !.mode = p.mode] ELSE cfg

\* ResolvePolicy: the policies are read and applied one by one, the most
\* specific one last.
ReadPolicy(c) ==
  LET r == riskCheck[c]
  IN  /\ r.pc = "policies"
      /\ IF r.scope \in Scopes
         THEN CheckBecomes(c, [r EXCEPT !.config = Applied(r.config, riskPolicy[r.scope]),
                                        !.scope = r.scope + 1])
         ELSE IF r.config.on
         THEN CheckBecomes(c, [r EXCEPT !.pc = "moderate", !.asked = 1])
         ELSE Decides(c, "allow")

\* A moderator answers, or fails: it has no key, takes no images, or cannot be
\* reached in time.
Hears(c, m, answer) ==
  /\ answer = "failed" \/ (m \in riskCheck[c].config.keys
                           /\ ~(riskCheck[c].images /\ m \in TextOnly))
  /\ LET r == [riskCheck[c] EXCEPT !.heard[m] = answer]
         blocked == answer = "flagged" /\ r.config.mode = "block"
     IN  CheckBecomes(c, IF answer = "failed" THEN [r EXCEPT !.asked = r.asked + 1]
                         ELSE [r EXCEPT !.pc = "over",
                                        !.decision = IF blocked THEN "block" ELSE "allow"])

\* moderate: the first one that answers decides.
Moderate(c) ==
  LET r == riskCheck[c]
  IN  /\ r.pc = "moderate"
      /\ \/ /\ r.asked <= Len(r.config.chain)
            /\ \E answer \in ModeratorAnswers \ {"none"} : Hears(c, r.config.chain[r.asked], answer)
         \/ /\ r.asked > Len(r.config.chain)
            /\ Decides(c, IF r.config.open THEN "allow" ELSE "error")

\* The settings cannot be read: the prompt is refused.
CheckFails(c) ==
  /\ riskCheck[c].pc \in {"config", "policies"}
  /\ disturbed' = disturbed \cup {c}
  /\ riskCheck' = [riskCheck EXCEPT ![c].pc = "over", ![c].decision = "error"]
  /\ UNCHANGED riskSettings

-----------------------------------------------------------------------------

RiskControlNext ==
  \/ \E a \in RiskAdmins :
       \/ \E of \in Scopes \cup {0} : ReadSettings(a, of)
       \/ WriteConfig(a) \/ WritePolicy(a)
       \/ \E s \in Scopes : DeletePolicy(a, s)
  \/ \E c \in RiskChecks :
       BeginCheck(c) \/ ReadConfig(c) \/ ReadPolicy(c) \/ Moderate(c) \/ CheckFails(c)

RiskControlSpec == RiskControlInit /\ [][RiskControlNext]_riskVars

-----------------------------------------------------------------------------

\* The policies that say something.
Speaking == {s \in Scopes : riskPolicy[s].state = "on" /\ riskPolicy[s].mode # ""}

EffectiveMode ==
  IF Speaking = {} THEN riskConfig.mode
  ELSE riskPolicy[CHOOSE s \in Speaking : \A r \in Speaking : r <= s].mode

HeardBy(c, answers) == {m \in Moderators : riskCheck[c].heard[m] \in answers}

\* A check during which nobody writes a setting decides by the most specific
\* policy that says something: a flagged prompt is refused exactly when that
\* asks for it, and a prompt that no moderator of the chain has judged is let
\* through only where failures are to be.
QuietChecksFollowPolicy ==
  \A c \in RiskChecks \ disturbed :
    LET r == riskCheck[c]
    IN  r.pc = "over" =>
          \/ ~r.config.on /\ r.decision = "allow" /\ HeardBy(c, ModeratorAnswers) = HeardBy(c, {"none"})
          \/ /\ HeardBy(c, {"clean", "flagged"}) = {}
             /\ \A i \in DOMAIN r.config.chain : r.heard[r.config.chain[i]] = "failed"
             /\ r.decision = IF r.config.open THEN "allow" ELSE "error"
          \/ \E m \in HeardBy(c, {"clean", "flagged"}) :
               /\ HeardBy(c, {"clean", "flagged"}) = {m}
               /\ r.decision = "block" <=> EffectiveMode = "block" /\ r.heard[m] = "flagged"

=============================================================================
