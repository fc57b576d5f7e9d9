----------------------------- MODULE AccountPool -----------------------------
(***************************************************************************)
(* The accounts of the older image endpoints (/v1/chat/completions and     *)
(* /v1/responses): which account a request gets and for how long, what its *)
(* result does to the account's state, the refresh of that state from      *)
(* upstream, and the administration of accounts in between.                *)
(*                                                                         *)
(* The store keeps the states and the leases under one mutex, so a step is *)
(* a passage through it.  One account has one token and one file; the plan *)
(* "Pro", which has a quota of its own when upstream names none, and a     *)
(* quota typed in by an administrator are left out, and so is the order of *)
(* preference among candidates.                                            *)
(***************************************************************************)
EXTENDS Integers, FiniteSets

CONSTANTS
  Accounts,
  InitialAccounts,
  InSelectedGroups,  \* accounts in the groups that a routing policy enables
  ReservePercent,
  DefaultQuota,
  MaxQuota,
  Reported,          \* bound: quotas that upstream reports
  StatusesSet,       \* bound: what administrators set the status to
  AllowDisabled,     \* chatgpt.studioAllowDisabledImageAccounts
  ImageRequests,     \* bound: each is made once
  MaxChanges,        \* bound: changes by administrators
  NoAccount

ASSUME AccountPoolAssumption ==
  /\ InSelectedGroups \subseteq Accounts /\ InitialAccounts \subseteq Accounts
  /\ NoAccount \notin Accounts \cup ImageRequests
  /\ ReservePercent \in 0..100 /\ DefaultQuota \in Nat /\ MaxQuota \in Nat
  /\ Reported \subseteq 0..MaxQuota
  /\ StatusesSet \subseteq {"normal", "limited", "abnormal", "disabled"}
  /\ DefaultQuota <= MaxQuota /\ AllowDisabled \in BOOLEAN /\ MaxChanges \in Nat
  /\ IsFiniteSet(Accounts)

VARIABLES
  auth,       \* the auth files: "none", "enabled" or "disabled"
  state,      \* the runtime states
  lease,      \* imageLeases: who holds the account's lease
  touched,    \* history: accounts whose state an administrator or a refresh has
              \* set since a request last checked them
  work,       \* the requests
  admin,      \* an administrator's update or a refresh that goes on
  changes

accountPoolVars == <<auth, state, lease, touched, work, admin, changes>>

\* known: QuotaKnown; window: LimitsProgress has the image quota; base: the
\* largest quota first seen in a window, 0 if none.
AccountStatuses == {"normal", "limited", "abnormal", "disabled"}

AccountState == [status: AccountStatuses, known: BOOLEAN,
          window: BOOLEAN, quota: 0..MaxQuota, base: 0..MaxQuota]

NewAccountState == [status |-> "normal", known |-> FALSE, window |-> FALSE,
             quota |-> DefaultQuota, base |-> 0]

NoWork == [pc |-> "over", account |-> NoAccount, policy |-> FALSE, applied |-> FALSE,
           preferred |-> FALSE, attempted |-> {}]

ImageWork == [pc: {"idle", "over", "acquire", "refresh", "check", "run", "limit", "invalid"},
         account: Accounts \cup {NoAccount}, policy: BOOLEAN, applied: BOOLEAN,
         preferred: BOOLEAN, attempted: SUBSET Accounts]

NoAdminWork == [account |-> NoAccount, kind |-> "none", state |-> NewAccountState]

-----------------------------------------------------------------------------
(* What an account looks like: buildPublicAccount.                         *)

AccountStatus(a) == IF auth[a] = "disabled" THEN "disabled" ELSE state[a].status

AccountUsable(a) ==
  /\ AllowDisabled \/ AccountStatus(a) # "disabled"
  /\ AccountStatus(a) \notin {"abnormal", "limited"}
  /\ state[a].quota > 0

\* imageReserveCountLocked, at least one image short of the whole
ReserveOf(a) ==
  LET base == IF state[a].base > 0 THEN state[a].base ELSE state[a].quota
      part == (base * ReservePercent + 99) \div 100
  IN  IF base = 0 THEN 0 ELSE IF part >= base THEN base - 1 ELSE part

AboveReserve(a) == state[a].quota > 0 /\ state[a].quota > ReserveOf(a)

\* (Variation: the leases are not looked at.)
AnyLease(a) == a \in Accounts

LeaseIsFree(a) == lease[a] = NoAccount

\* An account that is not usable is a candidate as well once its figures are old
\* (NeedsImageQuotaRefreshWithTTL): whether they are is left open.
AccountCandidate(a, applied) ==
  /\ auth[a] # "none"
  /\ LeaseIsFree(a)
  /\ AllowDisabled \/ AccountStatus(a) # "disabled"
  /\ AccountStatus(a) # "abnormal"
  /\ applied /\ AccountUsable(a) => AboveReserve(a)

-----------------------------------------------------------------------------
(* Requests: withImageResultsFilteredWithMetadata.                         *)

WorkGoes(r, pc) == work' = [work EXCEPT ![r].pc = pc]

\* An attempt ends: the lease is returned, and the next account tried if the
\* failure allows.  A preferred account is the only one.
AttemptEnds(r, retryable) ==
  LET again == retryable /\ ~work[r].preferred
  IN  /\ lease' = [lease EXCEPT ![work[r].account] = NoAccount]
      /\ work' = [work EXCEPT ![r] =
           IF again THEN [@ EXCEPT !.pc = "acquire", !.account = NoAccount] ELSE NoWork]

BeginImageRequest(r, policy) ==
  /\ work[r].pc = "idle"
  /\ work' = [work EXCEPT ![r] = [NoWork EXCEPT !.pc = "acquire", !.policy = policy]]
  /\ UNCHANGED <<auth, state, lease, touched, admin, changes>>

\* A request that edits an image wants the account that made it:
\* FindImageAuthByIDWithLease.  It fails at once if the account is in use.
BeginWithAccount(r, a) ==
  /\ work[r].pc = "idle"
  /\ auth[a] # "none" /\ LeaseIsFree(a)
  /\ lease' = [lease EXCEPT ![a] = r]
  /\ work' = [work EXCEPT ![r] = [NoWork EXCEPT !.pc = "refresh", !.account = a, !.preferred = TRUE]]
  /\ UNCHANGED <<auth, state, touched, admin, changes>>

\* acquireImageAuthWithPolicyLease and acquireImageAuthWithLease.  When no
\* account of the selected groups will do, any other may, without the policy.
AcquireAccount(r, a) ==
  LET policy == work[r].policy
      Candidates(applied) ==
        {b \in Accounts \ work[r].attempted :
           AccountCandidate(b, policy) /\ (applied => b \in InSelectedGroups)}
  IN  /\ work[r].pc = "acquire"
      /\ a \in Candidates(policy) \/ (Candidates(policy) = {} /\ a \in Candidates(FALSE))
      /\ lease' = [lease EXCEPT ![a] = r]
      /\ work' = [work EXCEPT ![r] = [@ EXCEPT
           !.pc = "refresh", !.account = a, !.attempted = work[r].attempted \cup {a},
           !.applied = policy /\ Candidates(policy) # {}]]
      /\ UNCHANGED <<auth, state, touched, admin, changes>>

NoCandidate(r) ==
  /\ work[r].pc = "acquire"
  /\ work' = [work EXCEPT ![r] = NoWork]
  /\ UNCHANGED <<auth, state, lease, touched, admin, changes>>

\* What a refresh writes: upstream's figures, and the first of a window as its
\* base; or that upstream does not know the account any more.
Refreshed(s, quota, newWindow) ==
  [s EXCEPT !.status = IF quota = 0 THEN "limited" ELSE "normal",
            !.known = TRUE, !.window = TRUE, !.quota = quota,
            !.base = IF quota > 0 /\ (newWindow \/ @ = 0) THEN quota ELSE @]

Abnormal(s) == [s EXCEPT !.status = "abnormal", !.known = TRUE, !.quota = 0]

\* runImageRequestWithAdmission refreshes figures that are old; other failures
\* of the refresh end the attempt.
RefreshFirst(r) ==
  LET a == work[r].account
  IN  /\ work[r].pc = "refresh"
      /\ \/ /\ state[a].window
            /\ WorkGoes(r, "check") /\ UNCHANGED <<state, lease>>
         \/ /\ \E quota \in Reported, newWindow \in BOOLEAN :
                 state' = [state EXCEPT ![a] = Refreshed(@, quota, newWindow)]
            /\ WorkGoes(r, "check") /\ UNCHANGED lease
         \/ state' = [state EXCEPT ![a] = Abnormal(@)] /\ AttemptEnds(r, TRUE)
         \/ UNCHANGED state /\ AttemptEnds(r, TRUE)
      /\ UNCHANGED <<auth, touched, admin, changes>>

\* It then looks once more whether the account will do; the admission gate
\* (AdmissionGate) keeps it waiting after that.
CheckAccount(r) ==
  LET a == work[r].account
  IN  /\ work[r].pc = "check"
      /\ \/ /\ AccountUsable(a) /\ (work[r].applied => AboveReserve(a))
            /\ WorkGoes(r, "run")
            /\ touched' = touched \ {a}
            /\ UNCHANGED lease
         \/ /\ ~(AccountUsable(a) /\ (work[r].applied => AboveReserve(a)))
            /\ AttemptEnds(r, TRUE)
            /\ UNCHANGED touched
      /\ UNCHANGED <<auth, state, admin, changes>>

RefusedByGate(r) ==
  /\ work[r].pc = "run"
  /\ AttemptEnds(r, FALSE)
  /\ UNCHANGED <<auth, state, touched, admin, changes>>

\* RecordImageResult of a success; of an account that has been deleted nothing
\* is recorded.
Succeeded(s) ==
  IF s.known /\ s.quota > 0
  THEN [s EXCEPT !.quota = @ - 1,
                 !.status = IF s.quota = 1 /\ @ \notin {"disabled", "abnormal"} THEN "limited" ELSE @]
  ELSE s

ImageSucceeds(r) ==
  LET a == work[r].account
  IN  /\ work[r].pc = "run"
      /\ state' = [state EXCEPT ![a] = IF auth[a] = "none" THEN @ ELSE Succeeded(@)]
      /\ AttemptEnds(r, FALSE)
      /\ UNCHANGED <<auth, touched, admin, changes>>

\* A failure is recorded first (its count is left out) and the account is marked
\* in a step of its own.
ImageFails(r) ==
  /\ work[r].pc = "run"
  /\ \/ \E pc \in {"limit", "invalid"} : WorkGoes(r, pc) /\ UNCHANGED lease
     \/ \E retryable \in BOOLEAN : AttemptEnds(r, retryable)
  /\ UNCHANGED <<auth, state, touched, admin, changes>>

\* MarkImageAccountLimited and MarkImageTokenAbnormal
MarkAccount(r) ==
  LET a == work[r].account
      Marked(s) == IF work[r].pc = "invalid" THEN Abnormal(s)
                   ELSE [s EXCEPT !.status = "limited", !.known = TRUE, !.window = TRUE, !.quota = 0]
  IN  /\ work[r].pc \in {"limit", "invalid"}
      /\ state' = [state EXCEPT ![a] = IF auth[a] = "none" THEN @ ELSE Marked(@)]
      /\ AttemptEnds(r, TRUE)
      /\ UNCHANGED <<auth, touched, admin, changes>>

-----------------------------------------------------------------------------
(* Administration.                                                         *)

ChangesAccount(a) ==
  /\ changes < MaxChanges
  /\ changes' = changes + 1
  /\ touched' = touched \cup {a}
  /\ UNCHANGED work

\* AddAccounts and ImportAuthFiles; a state that is known is kept.
AddAccount(a) ==
  /\ auth[a] = "none"
  /\ auth' = [auth EXCEPT ![a] = "enabled"]
  /\ state' = [state EXCEPT ![a] = IF @.known THEN @ ELSE NewAccountState]
  /\ ChangesAccount(a)
  /\ UNCHANGED <<lease, admin>>

\* DeleteAccounts; the lease of a request that uses the account stays.
DeleteAccount(a) ==
  /\ auth[a] # "none"
  /\ auth' = [auth EXCEPT ![a] = "none"]
  /\ state' = [state EXCEPT ![a] = NewAccountState]
  /\ ChangesAccount(a)
  /\ UNCHANGED <<lease, admin>>

\* RefreshAccounts, by an administrator or of all accounts in the background, and
\* UpdateAccount begin with an account that exists; the latter reads its state.
BeginAdminWork(a, kind) ==
  /\ admin = NoAdminWork
  /\ auth[a] # "none"
  /\ changes < MaxChanges
  /\ admin' = [account |-> a, kind |-> kind,
                state |-> IF kind = "refresh" THEN NewAccountState ELSE state[a]]
  /\ UNCHANGED <<auth, state, lease, touched, work, changes>>

\* A refresh writes what upstream said whatever happened meanwhile, even if the
\* account has been deleted.
EndRefresh ==
  LET a == admin.account
  IN  /\ admin.kind = "refresh"
      /\ \/ \E quota \in Reported, newWindow \in BOOLEAN :
              state' = [state EXCEPT ![a] = Refreshed(@, quota, newWindow)]
         \/ state' = [state EXCEPT ![a] = Abnormal(@)]
      /\ admin' = NoAdminWork
      /\ ChangesAccount(a)
      /\ UNCHANGED <<auth, lease>>

\* UpdateAccount writes the file, then the state it read with the new status, over
\* whatever was written in between.
EndUpdate ==
  LET a == admin.account
      status == admin.kind
  IN  /\ status \in AccountStatuses
      /\ auth' = [auth EXCEPT ![a] = IF status = "disabled" THEN "disabled" ELSE "enabled"]
      /\ state' = [state EXCEPT ![a] = [admin.state EXCEPT !.status = status]]
      /\ admin' = NoAdminWork
      /\ ChangesAccount(a)
      /\ UNCHANGED lease

\* alignLocalAuthDisabled, when the accounts are synchronised.
AlignDisabled(a, disabled) ==
  /\ auth[a] # "none"
  /\ auth' = [auth EXCEPT ![a] = IF disabled THEN "disabled" ELSE "enabled"]
  /\ state' = [state EXCEPT ![a].status =
       IF disabled THEN "disabled"
       ELSE IF @ # "disabled" THEN @
       ELSE IF state[a].known /\ state[a].quota = 0 THEN "limited" ELSE "normal"]
  /\ ChangesAccount(a)
  /\ UNCHANGED <<lease, admin>>

-----------------------------------------------------------------------------

AccountPoolInit ==
  /\ auth = [a \in Accounts |-> IF a \in InitialAccounts THEN "enabled" ELSE "none"]
  /\ state = [a \in Accounts |-> NewAccountState]
  /\ lease = [a \in Accounts |-> NoAccount]
  /\ touched = {}
  /\ work = [r \in ImageRequests |-> [NoWork EXCEPT !.pc = "idle"]]
  /\ admin = NoAdminWork
  /\ changes = 0

AccountPoolNext ==
  \/ \E r \in ImageRequests :
       \/ \E policy \in BOOLEAN : BeginImageRequest(r, policy)
       \/ \E a \in Accounts : BeginWithAccount(r, a) \/ AcquireAccount(r, a)
       \/ NoCandidate(r) \/ RefreshFirst(r) \/ CheckAccount(r) \/ RefusedByGate(r)
       \/ ImageSucceeds(r) \/ ImageFails(r) \/ MarkAccount(r)
  \/ \E a \in Accounts :
       \/ AddAccount(a) \/ DeleteAccount(a)
       \/ \E kind \in StatusesSet \cup {"refresh"} : BeginAdminWork(a, kind)
       \/ \E disabled \in BOOLEAN : AlignDisabled(a, disabled)
  \/ EndRefresh \/ EndUpdate

AccountPoolSpec == AccountPoolInit /\ [][AccountPoolNext]_accountPoolVars

-----------------------------------------------------------------------------

AccountPoolTypeOK ==
  /\ auth \in [Accounts -> {"none", "enabled", "disabled"}]
  /\ state \in [Accounts -> AccountState]
  /\ lease \in [Accounts -> ImageRequests \cup {NoAccount}]
  /\ touched \subseteq Accounts
  /\ work \in [ImageRequests -> ImageWork]
  /\ changes \in 0..MaxChanges

\* An account works for one request at a time, however the request got it, and
\* its lease is held exactly as long: none is lost on the ways an attempt ends.
OneRequestPerAccount ==
  \A a \in Accounts : {r \in ImageRequests : work[r].account = a} =
                      IF lease[a] = NoAccount THEN {} ELSE {lease[a]}

\* A request that the routing policy gave an account never takes the last images
\* that the policy reserves, unless somebody sets the account's figures after
\* the request has checked them.
ReserveIsKept ==
  \A r \in ImageRequests :
    LET a == work[r].account
    IN  work[r].pc = "run" /\ work[r].applied /\ a \notin touched => AboveReserve(a)

AccountPoolConsistent == OneRequestPerAccount /\ ReserveIsKept

=============================================================================
