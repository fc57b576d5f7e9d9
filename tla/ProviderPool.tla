---------------------------- MODULE ProviderPool ----------------------------
(***************************************************************************)
(* The provider pools: groups with a default per platform, their members   *)
(* and the counters of their failures, and the API providers a request     *)
(* falls back on.  Administrators change them and requests select, acquire *)
(* and report members, on several instances and without transactions: each *)
(* step is one statement.                                                  *)
(*                                                                         *)
(* Ids are random and never used again.                                    *)
(***************************************************************************)
EXTENDS Integers, FiniteSets

CONSTANTS
  Groups, ApiProviders,  \* ids of business_provider_groups, business_api_providers
  Members,          \* ids of business_provider_members
  Platforms, Tags,
  EntryInputs,      \* bound: what administrators write into groups and providers
  RequestTags,      \* bound: sets of tags that requests come with
  PoolCallers,      \* bound: calls that go on at one time
  MaxPoolCalls,     \* bound
  FailureThreshold

ASSUME ProviderPoolAssumption ==
  /\ FailureThreshold \in Nat \ {0} /\ MaxPoolCalls \in Nat
  /\ Groups \cap ApiProviders = {}
  /\ Groups # {} /\ Members # {} /\ Platforms # {}

Entries == Groups \cup ApiProviders

\* "new": an id that was not given out yet; "gone": one without a row
Entry == [state: {"new", "there", "gone"}, platform: Platforms, enabled: BOOLEAN,
          default: BOOLEAN, mode: {"fallback", "any", "all"}, tags: SUBSET Tags]

Member == [state: {"new", "there", "gone"}, group: Groups, platform: Platforms,
           enabled: BOOLEAN, status: {"active", "limited", "unavailable"},
           cooling: BOOLEAN, failures: Nat, streak: Nat]

ASSUME EntryInputsAssumption ==
  EntryInputs \subseteq {e \in Entry : e.state = "there"}

VARIABLES
  entry,       \* both tables
  member,
  poolCaller,  \* a call of the store in progress
  poolCalls    \* calls that have begun

poolVars == <<entry, member, poolCaller, poolCalls>>

\* A call: what it does next, the row it is about, what it will write there, and
\* for a report of a failure the streak it has read.
PoolCall == [pc: {"idle", "members", "clear", "check", "insert", "update", "enable",
                  "insertMember", "updateMember", "select", "acquire", "reload",
                  "using", "fail"},
             id: Entries, next: Entry, member: Members, nextMember: Member,
             creating: BOOLEAN, tagged: SUBSET Groups, fallback: SUBSET Groups,
             streak: Nat]

SomeEntry == [state |-> "new", platform |-> CHOOSE p \in Platforms : TRUE, enabled |-> FALSE,
              default |-> FALSE, mode |-> "fallback", tags |-> {}]

SomeMember == [state |-> "new", group |-> CHOOSE g \in Groups : TRUE,
               platform |-> CHOOSE p \in Platforms : TRUE, enabled |-> FALSE,
               status |-> "active", cooling |-> FALSE, failures |-> 0, streak |-> 0]

IdleCall == [pc |-> "idle", id |-> CHOOSE e \in Entries : TRUE, next |-> SomeEntry,
             member |-> CHOOSE m \in Members : TRUE, nextMember |-> SomeMember,
             creating |-> FALSE, tagged |-> {}, fallback |-> {}, streak |-> 0]

There(e) == entry[e].state = "there"
MemberThere(m) == member[m].state = "there"
SameTable(e, f) == (e \in Groups) = (f \in Groups)

\* A call begins with this for its next step.
PoolBegins(c, call) ==
  /\ poolCaller[c].pc = "idle"
  /\ poolCalls < MaxPoolCalls
  /\ poolCalls' = poolCalls + 1
  /\ poolCaller' = [poolCaller EXCEPT ![c] = call]

PoolGoesOn(c, call) == poolCaller' = [poolCaller EXCEPT ![c] = call] /\ UNCHANGED poolCalls
PoolGoes(c, pc) == PoolGoesOn(c, [poolCaller[c] EXCEPT !.pc = pc])
PoolReturns(c) == PoolGoesOn(c, IdleCall)

-----------------------------------------------------------------------------
(* Groups and API providers.  Their tables differ in two points: the       *)
(* unique index on defaults, and that a group with members keeps its       *)
(* platform.                                                               *)

\* Create, CreateGroup
BeginCreateEntry(c, e, in) ==
  /\ entry[e].state = "new"
  /\ entry' = [entry EXCEPT ![e].state = "gone"]  \* the id is taken
  /\ PoolBegins(c, [IdleCall EXCEPT !.id = e, !.next = in, !.creating = TRUE, !.pc =
       IF in.default THEN "clear" ELSE IF in.enabled THEN "check" ELSE "insert"])
  /\ UNCHANGED member

\* EnsureConfigProvider, at the start: without an enabled API provider of the
\* platform, the configured one becomes the default.
EnsureConfigProvider(c, e, in) ==
  /\ e \in ApiProviders /\ in.default /\ in.enabled
  /\ ~\E f \in ApiProviders : There(f) /\ entry[f].enabled /\ entry[f].platform = in.platform
  /\ BeginCreateEntry(c, e, in)

\* clearDefault, clearDefaultGroup
ClearDefault(c) ==
  LET call == poolCaller[c]
  IN  /\ call.pc = "clear"
      /\ entry' = [e \in Entries |->
           IF SameTable(e, call.id) /\ entry[e].platform = call.next.platform
           THEN [entry[e] EXCEPT !.default = FALSE] ELSE entry[e]]
      /\ PoolGoes(c, IF call.creating THEN "insert" ELSE "update")
      /\ UNCHANGED member

\* hasDefault, hasDefaultGroup: the first enabled row becomes the default.
CheckDefault(c) ==
  LET call == poolCaller[c]
      has == \E e \in Entries : /\ SameTable(e, call.id) /\ There(e)
                                /\ entry[e].platform = call.next.platform
                                /\ entry[e].enabled /\ entry[e].default
  IN  /\ call.pc = "check"
      /\ PoolGoesOn(c, [call EXCEPT !.pc = "insert", !.next.default = ~has])
      /\ UNCHANGED <<entry, member>>

\* (Variation: only the clearing before it keeps the default group single.)
ClearingAllows(e, next) == TRUE

\* idx_business_provider_groups_default
IndexAllows(e, next) ==
  e \in Groups /\ next.default =>
    \A f \in Groups \ {e} : ~(There(f) /\ entry[f].default /\ entry[f].platform = next.platform)

\* The insert, or an error of the index: then the defaults stay cleared.
InsertEntry(c) ==
  LET call == poolCaller[c]
  IN  /\ call.pc = "insert"
      /\ entry' = IF IndexAllows(call.id, call.next)
                  THEN [entry EXCEPT ![call.id] = call.next] ELSE entry
      /\ PoolReturns(c)
      /\ UNCHANGED member

\* What Update and UpdateGroup write for a row they have read.
Updated(e, in) ==
  IF ~in.default /\ entry[e].default /\ in.enabled
     /\ (e \in Groups => in.platform = entry[e].platform)
  THEN [in EXCEPT !.default = TRUE] ELSE in

BeginUpdateEntry(c, e, in) ==
  /\ There(e)
  /\ PoolBegins(c, [IdleCall EXCEPT !.id = e, !.next = Updated(e, in), !.pc =
       IF e \in Groups /\ in.platform # entry[e].platform THEN "members"
       ELSE IF in.default THEN "clear" ELSE "update"])
  /\ UNCHANGED <<entry, member>>

\* groupHasMembers: its platform cannot change.
CheckMembers(c) ==
  LET call == poolCaller[c]
  IN  /\ call.pc = "members"
      /\ IF \E m \in Members : MemberThere(m) /\ member[m].group = call.id
         THEN PoolReturns(c)
         ELSE PoolGoes(c, IF call.next.default THEN "clear" ELSE "update")
      /\ UNCHANGED <<entry, member>>

\* A row that was deleted in the meantime is not updated.
UpdateEntry(c) ==
  LET call == poolCaller[c]
  IN  /\ call.pc = "update"
      /\ entry' = IF There(call.id) /\ IndexAllows(call.id, call.next)
                  THEN [entry EXCEPT ![call.id] = call.next] ELSE entry
      /\ PoolReturns(c)
      /\ UNCHANGED member

\* SetDefault, SetDefaultGroup
BeginSetDefaultProvider(c, e) ==
  /\ There(e)
  /\ entry' = [f \in Entries |->
       IF SameTable(e, f) /\ entry[f].platform = entry[e].platform
       THEN [entry[f] EXCEPT !.default = FALSE] ELSE entry[f]]
  /\ PoolBegins(c, [IdleCall EXCEPT !.id = e, !.pc = "enable"])
  /\ UNCHANGED member

EnableDefault(c) ==
  LET call == poolCaller[c]
      next == [entry[call.id] EXCEPT !.enabled = TRUE, !.default = TRUE]
  IN  /\ call.pc = "enable"
      /\ entry' = IF There(call.id) /\ IndexAllows(call.id, next)
                  THEN [entry EXCEPT ![call.id] = next] ELSE entry
      /\ PoolReturns(c)
      /\ UNCHANGED member

\* Delete, DeleteGroup; members go with their group (ON DELETE CASCADE).
DeleteEntry(e) ==
  /\ There(e)
  /\ entry' = [entry EXCEPT ![e].state = "gone"]
  /\ member' = [m \in Members |->
       IF MemberThere(m) /\ member[m].group = e
       THEN [member[m] EXCEPT !.state = "gone"] ELSE member[m]]
  /\ UNCHANGED <<poolCaller, poolCalls>>

-----------------------------------------------------------------------------
(* Members.                                                                *)

\* A member has the platform of the group that is read first.
MemberInput(g, enabled, status) ==
  [state |-> "there", group |-> g, platform |-> entry[g].platform, enabled |-> enabled,
   status |-> status, cooling |-> FALSE, failures |-> 0, streak |-> 0]

BeginCreateMember(c, m, in) ==
  /\ There(in.group)
  /\ member[m].state = "new"
  /\ member' = [member EXCEPT ![m].state = "gone"]
  /\ PoolBegins(c, [IdleCall EXCEPT !.pc = "insertMember", !.member = m, !.nextMember = in])
  /\ UNCHANGED entry

\* The foreign key refuses a group that was deleted in the meantime.
InsertMember(c) ==
  LET call == poolCaller[c]
  IN  /\ call.pc = "insertMember"
      /\ member' = IF There(call.nextMember.group)
                   THEN [member EXCEPT ![call.member] = call.nextMember] ELSE member
      /\ PoolReturns(c)
      /\ UNCHANGED entry

BeginUpdateMember(c, m, in) ==
  /\ There(in.group) /\ MemberThere(m)
  /\ PoolBegins(c, [IdleCall EXCEPT !.pc = "updateMember", !.member = m, !.nextMember = in])
  /\ UNCHANGED <<entry, member>>

\* The counters and the cooldown of the row stay.
UpdateMember(c) ==
  LET call == poolCaller[c]
      next == call.nextMember
  IN  /\ call.pc = "updateMember"
      /\ member' =
           IF There(next.group) /\ MemberThere(call.member)
           THEN [member EXCEPT ![call.member] =
                   [member[call.member] EXCEPT
                      !.group = next.group, !.platform = next.platform,
                      !.enabled = next.enabled, !.status = next.status]]
           ELSE member
      /\ PoolReturns(c)
      /\ UNCHANGED entry

DeleteMember(m) ==
  /\ MemberThere(m)
  /\ member' = [member EXCEPT ![m].state = "gone"]
  /\ UNCHANGED <<entry, poolCaller, poolCalls>>

RecoverMember(m) ==
  /\ MemberThere(m)
  /\ member' = [member EXCEPT ![m].status = "active", ![m].enabled = TRUE,
                              ![m].cooling = FALSE, ![m].streak = 0]
  /\ UNCHANGED <<entry, poolCaller, poolCalls>>

CooldownEnds(m) ==
  /\ member[m].cooling
  /\ member' = [member EXCEPT ![m].cooling = FALSE]
  /\ UNCHANGED <<entry, poolCaller, poolCalls>>

-----------------------------------------------------------------------------
(* Selection.                                                              *)

Fallback(g) == entry[g].mode = "fallback" \/ entry[g].tags = {}

\* groupMatchesTags
MatchesTags(g, tags) ==
  IF entry[g].mode = "all" THEN entry[g].tags \subseteq tags
                           ELSE entry[g].tags \cap tags # {}

Considered(platform) == {g \in Groups : There(g) /\ entry[g].enabled /\ entry[g].platform = platform}

\* selectGroupScopesForPolicy (tags of the form "pool:id" are left out)
TaggedGroups(platform, tags) ==
  {g \in Considered(platform) : ~Fallback(g) /\ tags # {} /\ MatchesTags(g, tags)}

FallbackGroups(platform) == {g \in Considered(platform) : Fallback(g)}

\* The conditions of selectMemberFromGroupIDs.  busy: the members with
\* max_concurrent running jobs.
Eligible(platform, groups, busy) ==
  {m \in Members \ busy :
     /\ MemberThere(m) /\ member[m].enabled
     /\ member[m].status # "unavailable" /\ ~member[m].cooling
     /\ member[m].group \in groups \cap Considered(platform)
     /\ member[m].platform = platform}

\* The default group comes first; priorities and weights choose the rest.
Preferred(members) ==
  IF \E m \in members : entry[member[m].group].default
  THEN {m \in members : entry[member[m].group].default} ELSE members

\* imageProviderProxyConfig: the pools are listed ...
BeginSelect(c, platform, tags) ==
  /\ PoolBegins(c, [IdleCall EXCEPT !.pc = "select", !.next.platform = platform,
       !.tagged = TaggedGroups(platform, tags), !.fallback = FallbackGroups(platform)])
  /\ UNCHANGED <<entry, member>>

\* ... and the tagged scope is asked before the fallback scope.
SelectedFrom(call, busy) ==
  LET tagged == Eligible(call.next.platform, call.tagged, busy)
  IN  Preferred(IF tagged # {} THEN tagged
                ELSE Eligible(call.next.platform, call.fallback, busy))

SelectMember(c) ==
  /\ poolCaller[c].pc = "select"
  /\ \E busy \in SUBSET Members :
       LET found == SelectedFrom(poolCaller[c], busy)
       IN  \/ \E m \in found : PoolGoesOn(c, [IdleCall EXCEPT !.pc = "acquire", !.member = m])
           \/ found = {} /\ PoolReturns(c)  \* it takes an API provider or fails
  /\ UNCHANGED <<entry, member>>

\* MarkMemberAcquired, whatever has happened to the member since.
MarkMemberAcquired(c) ==
  LET m == poolCaller[c].member
  IN  /\ poolCaller[c].pc = "acquire"
      /\ member' = IF MemberThere(m)
                   THEN [member EXCEPT ![m].status = "active", ![m].cooling = FALSE]
                   ELSE member
      /\ PoolGoes(c, "reload")
      /\ UNCHANGED entry

\* The execution reads the member it was given again, and selects another
\* provider when it cannot have it any more.
ReloadMember(c) ==
  LET m == poolCaller[c].member
      usable == /\ MemberThere(m) /\ member[m].enabled
                /\ member[m].status # "unavailable" /\ ~member[m].cooling
  IN  /\ poolCaller[c].pc = "reload"
      /\ IF usable THEN PoolGoes(c, "using") ELSE PoolReturns(c)
      /\ UNCHANGED <<entry, member>>

\* reportProviderPoolRelease, of a request that ends before the provider is called
ReleaseMember(c) ==
  LET m == poolCaller[c].member
  IN  /\ poolCaller[c].pc \in {"reload", "using"}
      /\ member' = IF MemberThere(m) /\ member[m].status # "unavailable"
                   THEN [member EXCEPT ![m].status = "active", ![m].cooling = FALSE]
                   ELSE member
      /\ PoolReturns(c)
      /\ UNCHANGED entry

ReportMemberSuccess(c) ==
  LET m == poolCaller[c].member
  IN  /\ poolCaller[c].pc = "using"
      /\ member' = IF MemberThere(m)
                   THEN [member EXCEPT ![m].status = "active", ![m].cooling = FALSE,
                                       ![m].streak = 0]
                   ELSE member
      /\ PoolReturns(c)
      /\ UNCHANGED entry

\* ReportMemberFailure reads the row ...
ReadFailures(c) ==
  LET m == poolCaller[c].member
  IN  /\ poolCaller[c].pc = "using"
      /\ IF MemberThere(m)
         THEN PoolGoesOn(c, [poolCaller[c] EXCEPT !.pc = "fail", !.streak = member[m].streak])
         ELSE PoolReturns(c)
      /\ UNCHANGED <<entry, member>>

\* ... and its update counts all failures in place, but the streak as read + 1.
StoredFailure(row, read, status, cooling) ==
  [row EXCEPT !.failures = row.failures + 1, !.streak = read + 1,
              !.status = status, !.cooling = cooling]

\* The provider refused the key, asked to slow down (429), or failed.
ReportMemberFailure(c) ==
  LET m == poolCaller[c].member
      read == poolCaller[c].streak
  IN  /\ poolCaller[c].pc = "fail"
      /\ \E status \in {"limited", "unavailable"}, cooling \in BOOLEAN :
           /\ read + 1 >= FailureThreshold => status = "unavailable"
           /\ cooling => status = "limited"
           /\ member' = IF MemberThere(m)
                        THEN [member EXCEPT ![m] = StoredFailure(member[m], read, status, cooling)]
                        ELSE member
      /\ PoolReturns(c)
      /\ UNCHANGED entry

\* The process dies, or the request is cancelled, between two statements.
CallEnds(c) ==
  /\ poolCaller[c].pc # "idle"
  /\ PoolReturns(c)
  /\ UNCHANGED <<entry, member>>

-----------------------------------------------------------------------------
(* What the preview of the administration says of a request, computed by   *)
(* code of its own.                                                        *)

\* businessProviderPreviewPoolMatch
PreviewTakes(g, platform, tags) ==
  /\ entry[g].platform = platform /\ entry[g].enabled
  /\ \/ Fallback(g)
     \/ entry[g].mode = "all" /\ entry[g].tags \ tags = {}
     \/ entry[g].mode # "all" /\ \E t \in entry[g].tags : t \in tags

\* businessProviderPreviewMember
PreviewAvailable(m, platform, busy) ==
  /\ member[m].platform = platform /\ member[m].enabled
  /\ member[m].status \notin {"unavailable", "limited"}
  /\ ~member[m].cooling /\ m \notin busy

\* businessProviderDispatchPreviewExplain: the members it counts as available
PreviewMembers(platform, tags, busy) ==
  {m \in Members : /\ MemberThere(m) /\ There(member[m].group)
                   /\ PreviewTakes(member[m].group, platform, tags)
                   /\ PreviewAvailable(m, platform, busy)}

-----------------------------------------------------------------------------

PoolInit ==
  /\ entry = [e \in Entries |-> SomeEntry]
  /\ member = [m \in Members |-> SomeMember]
  /\ poolCaller = [c \in PoolCallers |-> IdleCall]
  /\ poolCalls = 0

MemberInputs == {MemberInput(g, enabled, "active") : g \in Groups, enabled \in BOOLEAN}

PoolNext ==
  \/ \E c \in PoolCallers, e \in Entries, in \in EntryInputs :
       BeginCreateEntry(c, e, in) \/ EnsureConfigProvider(c, e, in) \/ BeginUpdateEntry(c, e, in)
  \/ \E c \in PoolCallers, e \in Entries : BeginSetDefaultProvider(c, e)
  \/ \E c \in PoolCallers, m \in Members, in \in MemberInputs :
       BeginCreateMember(c, m, in) \/ BeginUpdateMember(c, m, in)
  \/ \E c \in PoolCallers, p \in Platforms, tags \in RequestTags : BeginSelect(c, p, tags)
  \/ \E c \in PoolCallers :
       \/ ClearDefault(c) \/ CheckDefault(c) \/ InsertEntry(c) \/ CheckMembers(c)
       \/ UpdateEntry(c) \/ EnableDefault(c) \/ InsertMember(c) \/ UpdateMember(c)
       \/ SelectMember(c) \/ MarkMemberAcquired(c) \/ ReloadMember(c) \/ ReleaseMember(c)
       \/ ReportMemberSuccess(c) \/ ReadFailures(c) \/ ReportMemberFailure(c)
       \/ CallEnds(c)
  \/ \E e \in Entries : DeleteEntry(e)
  \/ \E m \in Members : DeleteMember(m) \/ RecoverMember(m) \/ CooldownEnds(m)

PoolSpec == PoolInit /\ [][PoolNext]_poolVars

-----------------------------------------------------------------------------

PoolTypeOK ==
  /\ entry \in [Entries -> Entry]
  /\ member \in [Members -> Member]
  /\ poolCaller \in [PoolCallers -> PoolCall]
  /\ poolCalls \in 0..MaxPoolCalls

\* However the clearing of defaults and the writing of one interleave, a
\* platform has at most one default group.
OneDefaultGroup ==
  \A g, h \in Groups :
    There(g) /\ There(h) /\ entry[g].default /\ entry[h].default
      /\ entry[g].platform = entry[h].platform => g = h

\* A member belongs to a group that exists, whatever was deleted while it was written.
MembersHaveGroups == \A m \in Members : MemberThere(m) => There(member[m].group)

\* Failures in a row are failures: reports that overlap lose counts of the
\* streak but never make it longer than what has failed.
StreakWithinFailures == \A m \in Members : member[m].streak <= member[m].failures

\* A request for which the preview shows an available member gets a member.
PreviewKeepsItsWord ==
  \A p \in Platforms, tags \in RequestTags, busy \in SUBSET Members :
    PreviewMembers(p, tags, busy) # {} =>
      Eligible(p, TaggedGroups(p, tags) \cup FallbackGroups(p), busy) # {}

PoolConsistent ==
  OneDefaultGroup /\ MembersHaveGroups /\ StreakWithinFailures /\ PreviewKeepsItsWord

=============================================================================
