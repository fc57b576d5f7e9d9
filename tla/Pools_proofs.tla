---------------------------- MODULE Pools_proofs ----------------------------
(***************************************************************************)
(* What hands out the system's scarce things keeps its books, for any      *)
(* number of those who ask: the accounts of the legacy image path          *)
(* (AccountPool), the members of provider groups (ProviderPool) and the    *)
(* places in the job queue (JobCapacity).                                  *)
(***************************************************************************)
EXTENDS AccountPool, ProviderPool, JobCapacity, TLAPS, FiniteSetTheorems

-----------------------------------------------------------------------------
(***************************************************************************)
(* For any number of accounts and requests: an account works for one       *)
(* request at a time and its lease is neither lost nor kept, and the       *)
(* routing policy's reserve is kept.  The leases carry both: while a       *)
(* request holds an account, no other one changes the account's figures,   *)
(* and whoever else does is an administrator.                              *)
(***************************************************************************)

\* A lease and the request that has it know of each other.
LeasesMatch ==
  \A a \in Accounts, r \in ImageRequests : work[r].account = a <=> lease[a] = r

\* A request has an account from its acquisition to the end of the attempt.
WorkHasAccount ==
  \A r \in ImageRequests :
    work[r].account = NoAccount <=> work[r].pc \in {"idle", "over", "acquire"}

\* What an administrator works on is an account, with the state it had.
AdminFits ==
  /\ admin.account \in Accounts \cup {NoAccount} /\ admin.state \in AccountState
  /\ admin.kind # "none" => admin.account \in Accounts

AInv == /\ AccountPoolTypeOK /\ LeasesMatch /\ WorkHasAccount /\ AdminFits
        /\ ReserveIsKept

-----------------------------------------------------------------------------

\* The invariant says what is promised.
LEMMA InvGivesConsistent == AInv => AccountPoolConsistent
<1> SUFFICES ASSUME AInv, NEW a \in Accounts
             PROVE  {r \in ImageRequests : work[r].account = a} =
                      IF lease[a] = NoAccount THEN {} ELSE {lease[a]}
  BY DEF AccountPoolConsistent, OneRequestPerAccount, AInv
<1>1. lease[a] \in ImageRequests \cup {NoAccount} /\ NoAccount \notin ImageRequests
  BY AccountPoolAssumption DEF AInv, AccountPoolTypeOK
<1> QED BY <1>1 DEF AInv, LeasesMatch

\* What is written into a state is a state.
LEMMA StateTyped ==
  ASSUME NEW s \in AccountState
  PROVE  /\ \A quota \in Reported, newWindow \in BOOLEAN :
              Refreshed(s, quota, newWindow) \in AccountState
         /\ Abnormal(s) \in AccountState
         /\ Succeeded(s) \in AccountState
         /\ [s EXCEPT !.status = "limited", !.known = TRUE, !.window = TRUE, !.quota = 0]
              \in AccountState
         /\ \A status \in AccountStatuses : [s EXCEPT !.status = status] \in AccountState
         /\ NewAccountState \in AccountState
<1> USE AccountPoolAssumption DEF AccountState, AccountStatuses
<1>0. /\ 0 \in 0..MaxQuota /\ DefaultQuota \in 0..MaxQuota
      /\ s.quota \in 0..MaxQuota /\ s.quota \in Nat
  OBVIOUS
<1>1. ASSUME NEW quota \in Reported, NEW newWindow \in BOOLEAN
      PROVE  Refreshed(s, quota, newWindow) \in AccountState
  <2>1. quota \in 0..MaxQuota OBVIOUS
  <2> QED BY <2>1 DEF Refreshed
<1>2. Abnormal(s) \in AccountState BY <1>0 DEF Abnormal
<1>3. Succeeded(s) \in AccountState
  <2>1. CASE s.known /\ s.quota > 0
    <3>1. s.quota - 1 \in 0..MaxQuota BY <1>0, <2>1
    <3> QED BY <2>1, <3>1 DEF Succeeded
  <2> QED BY <2>1 DEF Succeeded
<1>4. [s EXCEPT !.status = "limited", !.known = TRUE, !.window = TRUE, !.quota = 0]
        \in AccountState
  BY <1>0
<1>5. \A status \in AccountStatuses : [s EXCEPT !.status = status] \in AccountState
  OBVIOUS
<1>6. NewAccountState \in AccountState BY <1>0 DEF NewAccountState
<1> QED BY <1>1, <1>2, <1>3, <1>4, <1>5, <1>6

\* The reserve of an account follows from its state.
LEMMA ReserveOfState ==
  ASSUME NEW a \in Accounts, state'[a] = state[a]
  PROVE  AboveReserve(a)' <=> AboveReserve(a)
BY DEF AboveReserve, ReserveOf

\* The reserve is kept by a step after which every running request ran before, with
\* an account that has been touched or is as it was.
LEMMA ReserveStays ==
  ASSUME AInv,
         \A q \in ImageRequests : work'[q].pc = "run" =>
           /\ work'[q] = work[q]
           /\ \/ work[q].account \in touched'
              \/ work[q].account \notin touched /\ state'[work[q].account] = state[work[q].account]
              \/ work[q].account \in touched /\ touched' = touched
  PROVE  ReserveIsKept'
<1> SUFFICES ASSUME NEW q \in ImageRequests, work'[q].pc = "run", work'[q].applied,
                    NEW a, a = work'[q].account, a \notin touched'
             PROVE  AboveReserve(a)'
  <2>1. ASSUME NEW q \in ImageRequests, (work[q].pc = "run" /\ work[q].applied)',
               (work[q].account \notin touched)'
        PROVE  (AboveReserve(work[q].account))'
    <3>1. PICK a : a = work'[q].account OBVIOUS
    <3>2. AboveReserve(a)' BY <2>1, <3>1
    <3> QED BY <3>1, <3>2 DEF AboveReserve, ReserveOf
  <2> QED BY <2>1 DEF ReserveIsKept
<1>1. work'[q] = work[q] /\ a \notin touched /\ state'[a] = state[a] OBVIOUS
<1>2. a \in Accounts
  BY <1>1 DEF AInv, AccountPoolTypeOK, ImageWork, WorkHasAccount
<1>3. AboveReserve(a) BY <1>1 DEF AInv, ReserveIsKept
<1> QED BY <1>1, <1>2, <1>3, ReserveOfState

\* The end of an attempt returns the lease of the request, and no other.
LEMMA AttemptEnded ==
  ASSUME AInv, NEW r \in ImageRequests, NEW retryable, AttemptEnds(r, retryable),
         work[r].account # NoAccount
  PROVE  /\ work' \in [ImageRequests -> ImageWork]
         /\ lease' \in [Accounts -> ImageRequests \cup {NoAccount}]
         /\ LeasesMatch' /\ WorkHasAccount'
         /\ \A q \in ImageRequests : work'[q].pc = "run" => q # r /\ work'[q] = work[q]
<1> DEFINE again == [work[r] EXCEPT !.pc = "acquire", !.account = NoAccount]
<1>1. /\ work[r] \in ImageWork /\ again \in ImageWork /\ NoWork \in ImageWork
      /\ again.pc = "acquire" /\ again.account = NoAccount
      /\ NoWork.pc = "over" /\ NoWork.account = NoAccount
  BY DEF AInv, AccountPoolTypeOK, ImageWork, NoWork
<1>2. PICK w \in {again, NoWork} : work' = [work EXCEPT ![r] = w]
  BY DEF AttemptEnds
<1>3. lease' = [lease EXCEPT ![work[r].account] = NoAccount] /\ work[r].account \in Accounts
  BY <1>1 DEF AttemptEnds, ImageWork
<1> HIDE DEF again
<1>4. w \in ImageWork /\ w.account = NoAccount /\ w.pc \in {"acquire", "over"}
  BY <1>1
<1>5. work' \in [ImageRequests -> ImageWork]
      /\ lease' \in [Accounts -> ImageRequests \cup {NoAccount}]
  BY <1>2, <1>3, <1>4 DEF AInv, AccountPoolTypeOK
<1>6. work'[r] = w /\ \A q \in ImageRequests : q # r => work'[q] = work[q]
  BY <1>2 DEF AInv, AccountPoolTypeOK
<1>7. LeasesMatch'
  <2> SUFFICES ASSUME NEW a \in Accounts, NEW q \in ImageRequests
               PROVE  work'[q].account = a <=> lease'[a] = q
    BY DEF LeasesMatch
  <2>1. lease'[a] = IF a = work[r].account THEN NoAccount ELSE lease[a]
    BY <1>3 DEF AInv, AccountPoolTypeOK
  <2>2. NoAccount \notin Accounts /\ NoAccount \notin ImageRequests BY AccountPoolAssumption
  <2>3. (work[q].account = a <=> lease[a] = q) /\ (work[r].account = a <=> lease[a] = r)
    BY DEF AInv, LeasesMatch
  <2> QED BY <1>4, <1>6, <2>1, <2>2, <2>3
<1>8. WorkHasAccount' BY <1>4, <1>6 DEF AInv, WorkHasAccount
<1> QED BY <1>4, <1>5, <1>6, <1>7, <1>8

\* A request that goes on keeps its account.
LEMMA WorkGoesOn ==
  ASSUME AInv, NEW r \in ImageRequests, NEW pc \in {"check", "run", "limit", "invalid"},
         WorkGoes(r, pc), UNCHANGED lease, work[r].account # NoAccount
  PROVE  /\ work' \in [ImageRequests -> ImageWork]
         /\ LeasesMatch' /\ WorkHasAccount'
         /\ work'[r].pc = pc /\ work'[r].account = work[r].account
         /\ work'[r].applied = work[r].applied
         /\ \A q \in ImageRequests : q # r => work'[q] = work[q]
<1> DEFINE w == [work[r] EXCEPT !.pc = pc]
<1>1. w \in ImageWork /\ w.pc = pc /\ w.account = work[r].account /\ w.applied = work[r].applied
  <2>1. work[r] \in ImageWork BY DEF AInv, AccountPoolTypeOK
  <2> QED BY <2>1 DEF ImageWork
<1>2. work' = [work EXCEPT ![r] = w] BY DEF WorkGoes
<1> HIDE DEF w
<1>3. work'[r] = w /\ \A q \in ImageRequests : q # r => work'[q] = work[q]
  BY <1>2 DEF AInv, AccountPoolTypeOK
<1>4. work' \in [ImageRequests -> ImageWork] BY <1>1, <1>2 DEF AInv, AccountPoolTypeOK
<1>5. LeasesMatch' BY <1>1, <1>3 DEF AInv, LeasesMatch
<1>6. WorkHasAccount' BY <1>1, <1>3 DEF AInv, WorkHasAccount
<1> QED BY <1>1, <1>3, <1>4, <1>5, <1>6

-----------------------------------------------------------------------------

\* No lease, no request, no change.
THEOREM AccountsBegin == AccountPoolInit => AInv
<1> SUFFICES ASSUME AccountPoolInit PROVE AInv OBVIOUS
<1>1. \A r \in ImageRequests : work[r].pc = "idle" /\ work[r].account = NoAccount
  BY DEF AccountPoolInit, NoWork
<1>2. NewAccountState \in AccountState
  <2>1. 0 \in 0..MaxQuota /\ DefaultQuota \in 0..MaxQuota BY AccountPoolAssumption
  <2> QED BY <2>1 DEF NewAccountState, AccountState, AccountStatuses
<1>3. AccountPoolTypeOK
  <2>1. [NoWork EXCEPT !.pc = "idle"] \in ImageWork BY DEF NoWork, ImageWork
  <2> QED BY <1>2, <2>1, AccountPoolAssumption DEF AccountPoolInit, AccountPoolTypeOK
<1>4. LeasesMatch
  BY <1>1, AccountPoolAssumption DEF AccountPoolInit, LeasesMatch
<1>5. WorkHasAccount BY <1>1 DEF WorkHasAccount
<1>6. AdminFits BY <1>2 DEF AccountPoolInit, AdminFits, NoAdminWork
<1>7. ReserveIsKept BY <1>1 DEF ReserveIsKept
<1> QED BY <1>3, <1>4, <1>5, <1>6, <1>7 DEF AInv

-----------------------------------------------------------------------------

\* Two requests have two accounts.
LEMMA AccountsDiffer ==
  ASSUME AInv, NEW r \in ImageRequests, NEW q \in ImageRequests, q # r,
         work[r].account # NoAccount
  PROVE  work[q].account # work[r].account
<1>1. work[r].account \in Accounts BY DEF AInv, AccountPoolTypeOK, ImageWork
<1> QED BY <1>1 DEF AInv, LeasesMatch

\* A request may write into its own account's state as its attempt ends.
LEMMA AttemptKeeps ==
  ASSUME AInv, NEW r \in ImageRequests, NEW retryable, AttemptEnds(r, retryable),
         work[r].account # NoAccount, UNCHANGED <<auth, touched, admin, changes>>,
         state' \in [Accounts -> AccountState],
         \A a \in Accounts : a # work[r].account => state'[a] = state[a]
  PROVE  AInv'
<1>1. /\ work' \in [ImageRequests -> ImageWork]
      /\ lease' \in [Accounts -> ImageRequests \cup {NoAccount}]
      /\ LeasesMatch' /\ WorkHasAccount'
      /\ \A q \in ImageRequests : work'[q].pc = "run" => q # r /\ work'[q] = work[q]
  BY AttemptEnded
<1>2. AccountPoolTypeOK' BY <1>1 DEF AInv, AccountPoolTypeOK
<1>3. AdminFits' BY DEF AInv, AdminFits
<1>4. ASSUME NEW q \in ImageRequests, work'[q].pc = "run"
      PROVE  work'[q] = work[q] /\ state'[work[q].account] = state[work[q].account]
  <2>1. q # r /\ work'[q] = work[q] BY <1>1, <1>4
  <2>2. work[q].account # work[r].account BY <2>1, AccountsDiffer
  <2>3. work[q].account \in Accounts
    BY <1>4, <2>1 DEF AInv, AccountPoolTypeOK, ImageWork, WorkHasAccount
  <2> QED BY <2>1, <2>2, <2>3
<1>5. ReserveIsKept' BY <1>4, ReserveStays
<1> QED BY <1>1, <1>2, <1>3, <1>5 DEF AInv

\* So it may as it goes on to anything but its image.
LEMMA GoingOnKeeps ==
  ASSUME AInv, NEW r \in ImageRequests, NEW pc \in {"check", "limit", "invalid"},
         WorkGoes(r, pc), work[r].account # NoAccount,
         UNCHANGED <<auth, lease, touched, admin, changes>>,
         state' \in [Accounts -> AccountState],
         \A a \in Accounts : a # work[r].account => state'[a] = state[a]
  PROVE  AInv'
<1>1. /\ work' \in [ImageRequests -> ImageWork]
      /\ LeasesMatch' /\ WorkHasAccount' /\ work'[r].pc = pc
      /\ \A q \in ImageRequests : q # r => work'[q] = work[q]
  BY WorkGoesOn
<1>2. AccountPoolTypeOK' BY <1>1 DEF AInv, AccountPoolTypeOK
<1>3. AdminFits' BY DEF AInv, AdminFits
<1>4. ASSUME NEW q \in ImageRequests, work'[q].pc = "run"
      PROVE  work'[q] = work[q] /\ state'[work[q].account] = state[work[q].account]
  <2>1. q # r /\ work'[q] = work[q] BY <1>1, <1>4
  <2>2. work[q].account # work[r].account BY <2>1, AccountsDiffer
  <2>3. work[q].account \in Accounts
    BY <1>4, <2>1 DEF AInv, AccountPoolTypeOK, ImageWork, WorkHasAccount
  <2> QED BY <2>1, <2>2, <2>3
<1>5. ReserveIsKept' BY <1>4, ReserveStays
<1> QED BY <1>1, <1>2, <1>3, <1>5 DEF AInv

\* A request that has no account may get one that is not leased.
LEMMA LeaseKeeps ==
  ASSUME AInv, NEW r \in ImageRequests, NEW a \in Accounts, LeaseIsFree(a),
         work[r].account = NoAccount, NEW w \in ImageWork,
         w.pc = "refresh", w.account = a,
         lease' = [lease EXCEPT ![a] = r], work' = [work EXCEPT ![r] = w],
         UNCHANGED <<auth, state, touched, admin, changes>>
  PROVE  AInv'
<1>1. work'[r] = w /\ \A q \in ImageRequests : q # r => work'[q] = work[q]
  BY DEF AInv, AccountPoolTypeOK
<1>2. AccountPoolTypeOK' BY DEF AInv, AccountPoolTypeOK
<1>3. LeasesMatch'
  <2> SUFFICES ASSUME NEW b \in Accounts, NEW q \in ImageRequests
               PROVE  work'[q].account = b <=> lease'[b] = q
    BY DEF LeasesMatch
  <2>1. lease'[b] = IF b = a THEN r ELSE lease[b] BY DEF AInv, AccountPoolTypeOK
  <2>2. (work[q].account = b <=> lease[b] = q) /\ (work[r].account = b <=> lease[b] = r)
    BY DEF AInv, LeasesMatch
  <2>3. lease[a] = NoAccount /\ NoAccount \notin ImageRequests /\ NoAccount \notin Accounts
    BY AccountPoolAssumption DEF LeaseIsFree
  <2> QED BY <1>1, <2>1, <2>2, <2>3
<1>4. WorkHasAccount'
  <2>1. a # NoAccount BY AccountPoolAssumption
  <2> QED BY <1>1, <2>1 DEF AInv, WorkHasAccount
<1>5. AdminFits' BY DEF AInv, AdminFits
<1>6. \A q \in ImageRequests : work'[q].pc = "run" => work'[q] = work[q]
  BY <1>1
<1>7. ReserveIsKept' BY <1>6, ReserveStays
<1> QED BY <1>2, <1>3, <1>4, <1>5, <1>7 DEF AInv

\* A request that has no account may take up work or give it up.
LEMMA IdlingKeeps ==
  ASSUME AInv, NEW r \in ImageRequests, work[r].account = NoAccount, NEW w \in ImageWork,
         w.pc \in {"acquire", "over"}, w.account = NoAccount, work' = [work EXCEPT ![r] = w],
         UNCHANGED <<auth, state, lease, touched, admin, changes>>
  PROVE  AInv'
<1>1. work'[r] = w /\ \A q \in ImageRequests : q # r => work'[q] = work[q]
  BY DEF AInv, AccountPoolTypeOK
<1>2. AccountPoolTypeOK' BY DEF AInv, AccountPoolTypeOK
<1>3. LeasesMatch' BY <1>1 DEF AInv, LeasesMatch
<1>4. WorkHasAccount' BY <1>1 DEF AInv, WorkHasAccount
<1>5. AdminFits' BY DEF AInv, AdminFits
<1>6. \A q \in ImageRequests : work'[q].pc = "run" => work'[q] = work[q]
  BY <1>1
<1>7. ReserveIsKept' BY <1>6, ReserveStays
<1> QED BY <1>2, <1>3, <1>4, <1>5, <1>7 DEF AInv

\* An administrator's change of an account is remembered.
LEMMA ChangeKeeps ==
  ASSUME AInv, NEW a \in Accounts, ChangesAccount(a), UNCHANGED lease, AdminFits',
         auth' \in [Accounts -> {"none", "enabled", "disabled"}],
         state' \in [Accounts -> AccountState],
         \A b \in Accounts : b # a => state'[b] = state[b]
  PROVE  AInv'
<1>1. work' = work /\ touched' = touched \cup {a} /\ changes' \in 0..MaxChanges
  BY AccountPoolAssumption DEF ChangesAccount, AInv, AccountPoolTypeOK
<1>2. AccountPoolTypeOK' BY <1>1 DEF AInv, AccountPoolTypeOK
<1>3. LeasesMatch' BY <1>1 DEF AInv, LeasesMatch
<1>4. WorkHasAccount' BY <1>1 DEF AInv, WorkHasAccount
<1>5. ASSUME NEW q \in ImageRequests, work'[q].pc = "run"
      PROVE  /\ work'[q] = work[q]
             /\ \/ work[q].account \in touched'
                \/ /\ work[q].account \notin touched
                   /\ state'[work[q].account] = state[work[q].account]
  <2>1. work[q].account \in Accounts
    BY <1>1, <1>5 DEF AInv, AccountPoolTypeOK, ImageWork, WorkHasAccount
  <2> QED BY <1>1, <2>1
<1>6. ReserveIsKept' BY <1>5, ReserveStays
<1> QED BY <1>2, <1>3, <1>4, <1>6 DEF AInv

-----------------------------------------------------------------------------
(* The actions of requests.                                                *)

\* A request is a record, with an account unless it waits for one.
LEMMA RequestFits ==
  ASSUME AInv, NEW r \in ImageRequests
  PROVE  /\ work[r] \in ImageWork
         /\ work[r].pc \in {"idle", "over", "acquire"} => work[r].account = NoAccount
         /\ work[r].pc \notin {"idle", "over", "acquire"} =>
              work[r].account # NoAccount /\ work[r].account \in Accounts
<1>1. work[r] \in ImageWork BY DEF AInv, AccountPoolTypeOK
<1>2. work[r].account = NoAccount <=> work[r].pc \in {"idle", "over", "acquire"}
  BY DEF AInv, WorkHasAccount
<1> QED BY <1>1, <1>2 DEF ImageWork

\* A request begins without an account.
LEMMA BeginImageRequestKeeps ==
  ASSUME AInv, NEW r \in ImageRequests, NEW policy \in BOOLEAN, BeginImageRequest(r, policy)
  PROVE  AInv'
<1> DEFINE w == [NoWork EXCEPT !.pc = "acquire", !.policy = policy]
<1>1. w \in ImageWork /\ w.pc = "acquire" /\ w.account = NoAccount
  BY DEF NoWork, ImageWork
<1>2. work[r].account = NoAccount BY RequestFits DEF BeginImageRequest
<1>3. work' = [work EXCEPT ![r] = w] /\ UNCHANGED <<auth, state, lease, touched, admin, changes>>
  BY DEF BeginImageRequest
<1> HIDE DEF w
<1> QED BY <1>1, <1>2, <1>3, IdlingKeeps

\* A request begins with the account it wants.
LEMMA BeginWithAccountKeeps ==
  ASSUME AInv, NEW r \in ImageRequests, NEW a \in Accounts, BeginWithAccount(r, a)
  PROVE  AInv'
<1> DEFINE w == [NoWork EXCEPT !.pc = "refresh", !.account = a, !.preferred = TRUE]
<1>1. w \in ImageWork /\ w.pc = "refresh" /\ w.account = a
  BY DEF NoWork, ImageWork
<1>2. work[r].account = NoAccount BY RequestFits DEF BeginWithAccount
<1>3. /\ work' = [work EXCEPT ![r] = w] /\ lease' = [lease EXCEPT ![a] = r] /\ LeaseIsFree(a)
      /\ UNCHANGED <<auth, state, touched, admin, changes>>
  BY DEF BeginWithAccount
<1> HIDE DEF w
<1> QED BY <1>1, <1>2, <1>3, LeaseKeeps

\* A request gets a candidate, whose lease is free.
LEMMA AcquireAccountKeeps ==
  ASSUME AInv, NEW r \in ImageRequests, NEW a \in Accounts, AcquireAccount(r, a)
  PROVE  AInv'
<1>1. work[r] \in ImageWork /\ work[r].account = NoAccount
  BY RequestFits DEF AcquireAccount
<1>2. PICK applied \in BOOLEAN :
        work' = [work EXCEPT ![r] = [work[r] EXCEPT
          !.pc = "refresh", !.account = a,
          !.attempted = work[r].attempted \cup {a}, !.applied = applied]]
  <2> DEFINE applied ==
        /\ work[r].policy
        /\ {b \in Accounts \ work[r].attempted :
              AccountCandidate(b, work[r].policy) /\ (work[r].policy => b \in InSelectedGroups)}
           # {}
  <2>1. work' = [work EXCEPT ![r] = [work[r] EXCEPT
          !.pc = "refresh", !.account = a,
          !.attempted = work[r].attempted \cup {a}, !.applied = applied]]
    BY DEF AcquireAccount
  <2>2. applied \in BOOLEAN OBVIOUS
  <2> HIDE DEF applied
  <2> QED BY <2>1, <2>2
<1> DEFINE w == [work[r] EXCEPT
              !.pc = "refresh", !.account = a,
              !.attempted = work[r].attempted \cup {a}, !.applied = applied]
<1>3. w \in ImageWork /\ w.pc = "refresh" /\ w.account = a
  BY <1>1 DEF ImageWork
<1>4. work' = [work EXCEPT ![r] = w] BY <1>2
<1>5. /\ lease' = [lease EXCEPT ![a] = r] /\ LeaseIsFree(a)
      /\ UNCHANGED <<auth, state, touched, admin, changes>>
  BY DEF AcquireAccount, AccountCandidate
<1> HIDE DEF w
<1> QED BY <1>1, <1>3, <1>4, <1>5, LeaseKeeps

\* A request that finds no account is over.
LEMMA NoCandidateKeeps ==
  ASSUME AInv, NEW r \in ImageRequests, NoCandidate(r)
  PROVE  AInv'
<1>1. NoWork \in ImageWork /\ NoWork.pc = "over" /\ NoWork.account = NoAccount
  BY DEF NoWork, ImageWork
<1>2. work[r].account = NoAccount BY RequestFits DEF NoCandidate
<1> QED BY <1>1, <1>2, IdlingKeeps DEF NoCandidate

\* One account's state may be replaced.
LEMMA StateReplaced ==
  ASSUME AInv, NEW a \in Accounts, NEW s \in AccountState, state' = [state EXCEPT ![a] = s]
  PROVE  /\ state' \in [Accounts -> AccountState]
         /\ \A b \in Accounts : b # a => state'[b] = state[b]
BY DEF AInv, AccountPoolTypeOK

\* The refresh of a request writes into the account that the request holds.
LEMMA RefreshFirstKeeps ==
  ASSUME AInv, NEW r \in ImageRequests, RefreshFirst(r)
  PROVE  AInv'
<1> DEFINE a == work[r].account
<1>1. a \in Accounts /\ work[r].account # NoAccount BY RequestFits DEF RefreshFirst
<1>2. UNCHANGED <<auth, touched, admin, changes>> BY DEF RefreshFirst
<1>3. state \in [Accounts -> AccountState] /\ state[a] \in AccountState
  BY <1>1 DEF AInv, AccountPoolTypeOK
<1>4. CASE WorkGoes(r, "check") /\ UNCHANGED <<state, lease>>
  BY <1>1, <1>2, <1>3, <1>4, GoingOnKeeps
<1>5. ASSUME NEW quota \in Reported, NEW newWindow \in BOOLEAN,
             state' = [state EXCEPT ![a] = Refreshed(@, quota, newWindow)],
             WorkGoes(r, "check"), UNCHANGED lease
      PROVE  AInv'
  <2>1. state' = [state EXCEPT ![a] = Refreshed(state[a], quota, newWindow)]
    BY <1>1, <1>3, <1>5
  <2>2. Refreshed(state[a], quota, newWindow) \in AccountState BY <1>3, StateTyped
  <2>3. /\ state' \in [Accounts -> AccountState]
        /\ \A b \in Accounts : b # a => state'[b] = state[b]
    BY <1>1, <2>1, <2>2, StateReplaced
  <2> QED BY <1>1, <1>2, <1>5, <2>3, GoingOnKeeps
<1>6. CASE state' = [state EXCEPT ![a] = Abnormal(@)] /\ AttemptEnds(r, TRUE)
  <2>1. state' = [state EXCEPT ![a] = Abnormal(state[a])] BY <1>1, <1>3, <1>6
  <2>2. Abnormal(state[a]) \in AccountState BY <1>3, StateTyped
  <2>3. /\ state' \in [Accounts -> AccountState]
        /\ \A b \in Accounts : b # a => state'[b] = state[b]
    BY <1>1, <2>1, <2>2, StateReplaced
  <2> QED BY <1>1, <1>2, <1>6, <2>3, AttemptKeeps
<1>7. CASE UNCHANGED state /\ AttemptEnds(r, TRUE)
  BY <1>1, <1>2, <1>3, <1>7, AttemptKeeps
<1> QED BY <1>4, <1>5, <1>6, <1>7 DEF RefreshFirst

\* The check passes if the reserve is kept, and the account counts as untouched from
\* then on.
LEMMA CheckAccountKeeps ==
  ASSUME AInv, NEW r \in ImageRequests, CheckAccount(r)
  PROVE  AInv'
<1>1. PICK a \in Accounts : a = work[r].account /\ work[r].account # NoAccount
  BY RequestFits DEF CheckAccount
<1>2. UNCHANGED <<auth, state, admin, changes>> BY DEF CheckAccount
<1>3. CASE AttemptEnds(r, TRUE) /\ UNCHANGED touched
  <2>1. state' \in [Accounts -> AccountState] BY <1>2 DEF AInv, AccountPoolTypeOK
  <2> QED BY <1>1, <1>2, <1>3, <2>1, AttemptKeeps
<1>4. CASE /\ work[r].applied => AboveReserve(a)
           /\ WorkGoes(r, "run") /\ touched' = touched \ {a} /\ UNCHANGED lease
  <2>1. /\ work' \in [ImageRequests -> ImageWork]
        /\ LeasesMatch' /\ WorkHasAccount'
        /\ work'[r].account = work[r].account /\ work'[r].applied = work[r].applied
        /\ \A q \in ImageRequests : q # r => work'[q] = work[q]
    BY <1>1, <1>4, WorkGoesOn
  <2>2. AccountPoolTypeOK' BY <1>2, <1>4, <2>1 DEF AInv, AccountPoolTypeOK
  <2>3. AdminFits' BY <1>2 DEF AInv, AdminFits
  <2>4. ASSUME NEW q \in ImageRequests, (work[q].pc = "run" /\ work[q].applied)',
               (work[q].account \notin touched)'
        PROVE  (AboveReserve(work[q].account))'
    <3>1. PICK b : b = work'[q].account OBVIOUS
    <3>2. CASE q = r
      <4>1. b = a /\ AboveReserve(a) BY <1>1, <1>4, <2>1, <2>4, <3>1, <3>2
      <4>2. AboveReserve(b)' BY <1>2, <4>1 DEF AboveReserve, ReserveOf
      <4> QED BY <3>1, <4>2 DEF AboveReserve, ReserveOf
    <3>3. CASE q # r
      <4>1. work'[q] = work[q] /\ b # a BY <1>1, <2>1, <3>1, <3>3, AccountsDiffer
      <4>2. b = work[q].account /\ b \notin touched BY <1>4, <2>4, <3>1, <4>1
      <4>3. AboveReserve(b) BY <2>4, <4>1, <4>2 DEF AInv, ReserveIsKept
      <4>4. AboveReserve(b)' BY <1>2, <4>3 DEF AboveReserve, ReserveOf
      <4> QED BY <3>1, <4>4 DEF AboveReserve, ReserveOf
    <3> QED BY <3>2, <3>3
  <2>5. ReserveIsKept' BY <2>4 DEF ReserveIsKept
  <2> QED BY <2>1, <2>2, <2>3, <2>5 DEF AInv
<1> QED BY <1>1, <1>3, <1>4 DEF CheckAccount

\* A request that the gate refuses gives its account back.
LEMMA RefusedByGateKeeps ==
  ASSUME AInv, NEW r \in ImageRequests, RefusedByGate(r)
  PROVE  AInv'
<1>1. work[r].account # NoAccount BY RequestFits DEF RefusedByGate
<1>2. /\ state' \in [Accounts -> AccountState] /\ UNCHANGED <<auth, state, touched, admin, changes>>
      /\ AttemptEnds(r, FALSE)
  BY DEF RefusedByGate, AInv, AccountPoolTypeOK
<1> QED BY <1>1, <1>2, AttemptKeeps

\* A success counts one image down and gives the account back.
LEMMA ImageSucceedsKeeps ==
  ASSUME AInv, NEW r \in ImageRequests, ImageSucceeds(r)
  PROVE  AInv'
<1> DEFINE a == work[r].account
           s == IF auth[a] = "none" THEN state[a] ELSE Succeeded(state[a])
<1>1. a \in Accounts /\ work[r].account # NoAccount BY RequestFits DEF ImageSucceeds
<1>2. state \in [Accounts -> AccountState] /\ state[a] \in AccountState
  BY <1>1 DEF AInv, AccountPoolTypeOK
<1>3. s \in AccountState BY <1>2, StateTyped
<1>4. state' = [state EXCEPT ![a] = s] BY <1>1, <1>2 DEF ImageSucceeds
<1>5. /\ state' \in [Accounts -> AccountState]
      /\ \A b \in Accounts : b # a => state'[b] = state[b]
  BY <1>1, <1>3, <1>4, StateReplaced
<1>6. UNCHANGED <<auth, touched, admin, changes>> /\ AttemptEnds(r, FALSE)
  BY DEF ImageSucceeds
<1> QED BY <1>1, <1>5, <1>6, AttemptKeeps

\* A failure gives the account back, at once or after it has marked it.
LEMMA ImageFailsKeeps ==
  ASSUME AInv, NEW r \in ImageRequests, ImageFails(r)
  PROVE  AInv'
<1>1. work[r].account # NoAccount BY RequestFits DEF ImageFails
<1>2. /\ state' \in [Accounts -> AccountState] /\ UNCHANGED <<auth, state, touched, admin, changes>>
  BY DEF ImageFails, AInv, AccountPoolTypeOK
<1>3. ASSUME NEW pc \in {"limit", "invalid"}, WorkGoes(r, pc), UNCHANGED lease
      PROVE  AInv'
  BY <1>1, <1>2, <1>3, GoingOnKeeps
<1>4. ASSUME NEW retryable \in BOOLEAN, AttemptEnds(r, retryable)
      PROVE  AInv'
  BY <1>1, <1>2, <1>4, AttemptKeeps
<1> QED BY <1>3, <1>4 DEF ImageFails

\* The mark of a failure is written before the account is given back.
LEMMA MarkAccountKeeps ==
  ASSUME AInv, NEW r \in ImageRequests, MarkAccount(r)
  PROVE  AInv'
<1> DEFINE a == work[r].account
           limited == [state[a] EXCEPT !.status = "limited", !.known = TRUE, !.window = TRUE,
                                       !.quota = 0]
           s == IF auth[a] = "none" THEN state[a]
                ELSE IF work[r].pc = "invalid" THEN Abnormal(state[a]) ELSE limited
<1>1. a \in Accounts /\ work[r].account # NoAccount BY RequestFits DEF MarkAccount
<1>2. state \in [Accounts -> AccountState] /\ state[a] \in AccountState
  BY <1>1 DEF AInv, AccountPoolTypeOK
<1>3. limited \in AccountState /\ Abnormal(state[a]) \in AccountState
  BY <1>2, StateTyped
<1>4. s \in AccountState BY <1>2, <1>3
<1>5. state' = [state EXCEPT ![a] = s] BY <1>1, <1>2 DEF MarkAccount
<1>6. /\ state' \in [Accounts -> AccountState]
      /\ \A b \in Accounts : b # a => state'[b] = state[b]
  BY <1>1, <1>4, <1>5, StateReplaced
<1>7. UNCHANGED <<auth, touched, admin, changes>> /\ AttemptEnds(r, TRUE)
  BY DEF MarkAccount
<1> QED BY <1>1, <1>6, <1>7, AttemptKeeps

-----------------------------------------------------------------------------
(* The actions of administrators.                                          *)

\* An account that is added is enabled; what is known of it stays.
LEMMA AddAccountKeeps ==
  ASSUME AInv, NEW a \in Accounts, AddAccount(a)
  PROVE  AInv'
<1> DEFINE s == IF state[a].known THEN state[a] ELSE NewAccountState
<1>1. state \in [Accounts -> AccountState] /\ state[a] \in AccountState
  BY DEF AInv, AccountPoolTypeOK
<1>2. s \in AccountState BY <1>1, StateTyped
<1>3. state' = [state EXCEPT ![a] = s] BY <1>1 DEF AddAccount
<1>4. /\ state' \in [Accounts -> AccountState]
      /\ \A b \in Accounts : b # a => state'[b] = state[b]
  BY <1>2, <1>3, StateReplaced
<1>5. /\ auth' \in [Accounts -> {"none", "enabled", "disabled"}]
      /\ ChangesAccount(a) /\ UNCHANGED lease
  BY DEF AddAccount, AInv, AccountPoolTypeOK
<1>6. AdminFits' BY DEF AddAccount, AInv, AdminFits
<1> QED BY <1>4, <1>5, <1>6, ChangeKeeps

\* The deletion of an account leaves its lease to the request that has it.
LEMMA DeleteAccountKeeps ==
  ASSUME AInv, NEW a \in Accounts, DeleteAccount(a)
  PROVE  AInv'
<1>1. NewAccountState \in AccountState
  BY StateTyped DEF AInv, AccountPoolTypeOK
<1>2. /\ state' \in [Accounts -> AccountState]
      /\ \A b \in Accounts : b # a => state'[b] = state[b]
  BY <1>1, StateReplaced DEF DeleteAccount
<1>3. /\ auth' \in [Accounts -> {"none", "enabled", "disabled"}]
      /\ ChangesAccount(a) /\ UNCHANGED lease
  BY DEF DeleteAccount, AInv, AccountPoolTypeOK
<1>4. AdminFits' BY DEF DeleteAccount, AInv, AdminFits
<1> QED BY <1>2, <1>3, <1>4, ChangeKeeps

\* The synchronisation sets no more than whether the account is disabled.
LEMMA AlignDisabledKeeps ==
  ASSUME AInv, NEW a \in Accounts, NEW disabled \in BOOLEAN, AlignDisabled(a, disabled)
  PROVE  AInv'
<1>1. state \in [Accounts -> AccountState] /\ state[a] \in AccountState
  BY DEF AInv, AccountPoolTypeOK
<1>2. PICK status \in AccountStatuses :
        state' = [state EXCEPT ![a] = [state[a] EXCEPT !.status = status]]
  <2>1. state[a].status \in AccountStatuses BY <1>1 DEF AccountState
  <2> QED BY <1>1, <2>1 DEF AlignDisabled, AccountStatuses
<1>3. [state[a] EXCEPT !.status = status] \in AccountState BY <1>1, StateTyped
<1>4. /\ state' \in [Accounts -> AccountState]
      /\ \A b \in Accounts : b # a => state'[b] = state[b]
  BY <1>2, <1>3, StateReplaced
<1>5. /\ auth' \in [Accounts -> {"none", "enabled", "disabled"}]
      /\ ChangesAccount(a) /\ UNCHANGED lease
  BY DEF AlignDisabled, AInv, AccountPoolTypeOK
<1>6. AdminFits' BY DEF AlignDisabled, AInv, AdminFits
<1> QED BY <1>4, <1>5, <1>6, ChangeKeeps

\* Work that begins touches nothing but the note of it.
LEMMA BeginAdminWorkKeeps ==
  ASSUME AInv, NEW a \in Accounts, NEW kind \in StatusesSet \cup {"refresh"},
         BeginAdminWork(a, kind)
  PROVE  AInv'
<1>1. UNCHANGED <<auth, state, lease, touched, work, changes>> BY DEF BeginAdminWork
<1>2. state[a] \in AccountState BY DEF AInv, AccountPoolTypeOK
<1>3. NewAccountState \in AccountState BY <1>2, StateTyped
<1>4. AdminFits' BY <1>2, <1>3 DEF BeginAdminWork, AdminFits
<1>5. AccountPoolTypeOK' BY <1>1 DEF AInv, AccountPoolTypeOK
<1>6. LeasesMatch' BY <1>1 DEF AInv, LeasesMatch
<1>7. WorkHasAccount' BY <1>1 DEF AInv, WorkHasAccount
<1>8. ReserveIsKept'
  BY <1>1 DEF AInv, ReserveIsKept, AboveReserve, ReserveOf
<1> QED BY <1>4, <1>5, <1>6, <1>7, <1>8 DEF AInv

\* Once the work is done there is none.
LEMMA NoWorkFits == ASSUME AInv, admin' = NoAdminWork PROVE AdminFits'
<1>1. ASSUME NEW a \in Accounts PROVE NewAccountState \in AccountState
  BY StateTyped DEF AInv, AccountPoolTypeOK
<1>2. NewAccountState \in AccountState
  <2>1. 0 \in 0..MaxQuota /\ DefaultQuota \in 0..MaxQuota BY AccountPoolAssumption
  <2> QED BY <2>1 DEF NewAccountState, AccountState, AccountStatuses
<1> QED BY <1>2 DEF AdminFits, NoAdminWork

\* An administrator's refresh writes what upstream said.
LEMMA EndRefreshKeeps == ASSUME AInv, EndRefresh PROVE AInv'
<1>1. PICK a \in Accounts : a = admin.account BY DEF EndRefresh, AInv, AdminFits
<1>2. state \in [Accounts -> AccountState] /\ state[a] \in AccountState
  BY DEF AInv, AccountPoolTypeOK
<1>3. PICK s \in AccountState : state' = [state EXCEPT ![a] = s]
  <2>1. Abnormal(state[a]) \in AccountState BY <1>2, StateTyped
  <2>2. CASE state' = [state EXCEPT ![a] = Abnormal(@)] BY <1>2, <2>1, <2>2
  <2>3. ASSUME NEW quota \in Reported, NEW newWindow \in BOOLEAN,
               state' = [state EXCEPT ![a] = Refreshed(@, quota, newWindow)]
        PROVE  \E s \in AccountState : state' = [state EXCEPT ![a] = s]
    <3>1. Refreshed(state[a], quota, newWindow) \in AccountState BY <1>2, StateTyped
    <3> QED BY <1>2, <2>3, <3>1
  <2> QED BY <1>1, <2>2, <2>3 DEF EndRefresh
<1>4. /\ state' \in [Accounts -> AccountState]
      /\ \A b \in Accounts : b # a => state'[b] = state[b]
  BY <1>3, StateReplaced
<1>5. /\ auth' \in [Accounts -> {"none", "enabled", "disabled"}]
      /\ ChangesAccount(a) /\ UNCHANGED lease
  BY <1>1 DEF EndRefresh, AInv, AccountPoolTypeOK
<1>6. AdminFits' BY NoWorkFits DEF EndRefresh
<1> QED BY <1>4, <1>5, <1>6, ChangeKeeps

\* An administrator's update writes the state that it read, with the new status.
LEMMA EndUpdateKeeps == ASSUME AInv, EndUpdate PROVE AInv'
<1>1. admin.kind # "none" /\ admin.kind \in AccountStatuses
  BY DEF EndUpdate, AccountStatuses
<1>2. PICK a \in Accounts : a = admin.account BY <1>1 DEF AInv, AdminFits
<1>3. [admin.state EXCEPT !.status = admin.kind] \in AccountState
  BY <1>1, StateTyped DEF AInv, AdminFits
<1>4. /\ state' \in [Accounts -> AccountState]
      /\ \A b \in Accounts : b # a => state'[b] = state[b]
  BY <1>2, <1>3, StateReplaced DEF EndUpdate
<1>5. /\ auth' \in [Accounts -> {"none", "enabled", "disabled"}]
      /\ ChangesAccount(a) /\ UNCHANGED lease
  BY <1>2 DEF EndUpdate, AInv, AccountPoolTypeOK
<1>6. AdminFits' BY NoWorkFits DEF EndUpdate
<1> QED BY <1>4, <1>5, <1>6, ChangeKeeps

-----------------------------------------------------------------------------

\* A step that leaves the accounts alone keeps everything.
LEMMA AccountsStutter == ASSUME AInv, UNCHANGED accountPoolVars PROVE AInv'
<1>1. UNCHANGED <<auth, state, lease, touched, work, admin, changes>>
  BY DEF accountPoolVars
<1>2. AccountPoolTypeOK' BY <1>1 DEF AInv, AccountPoolTypeOK
<1>3. LeasesMatch' BY <1>1 DEF AInv, LeasesMatch
<1>4. WorkHasAccount' BY <1>1 DEF AInv, WorkHasAccount
<1>5. AdminFits' BY <1>1 DEF AInv, AdminFits
<1>6. ReserveIsKept' BY <1>1 DEF AInv, ReserveIsKept, AboveReserve, ReserveOf
<1> QED BY <1>2, <1>3, <1>4, <1>5, <1>6 DEF AInv

\* The leases, the work of administrators and the reserve are kept by every step.
THEOREM AccountsContinue == AInv /\ [AccountPoolNext]_accountPoolVars => AInv'
<1> SUFFICES ASSUME AInv, [AccountPoolNext]_accountPoolVars PROVE AInv' OBVIOUS
<1>1. ASSUME NEW r \in ImageRequests, NEW policy \in BOOLEAN, BeginImageRequest(r, policy)
      PROVE AInv'
  BY <1>1, BeginImageRequestKeeps
<1>2. ASSUME NEW r \in ImageRequests, NEW a \in Accounts, BeginWithAccount(r, a) PROVE AInv'
  BY <1>2, BeginWithAccountKeeps
<1>3. ASSUME NEW r \in ImageRequests, NEW a \in Accounts, AcquireAccount(r, a) PROVE AInv'
  BY <1>3, AcquireAccountKeeps
<1>4. ASSUME NEW r \in ImageRequests, NoCandidate(r) PROVE AInv' BY <1>4, NoCandidateKeeps
<1>5. ASSUME NEW r \in ImageRequests, RefreshFirst(r) PROVE AInv' BY <1>5, RefreshFirstKeeps
<1>6. ASSUME NEW r \in ImageRequests, CheckAccount(r) PROVE AInv' BY <1>6, CheckAccountKeeps
<1>7. ASSUME NEW r \in ImageRequests, RefusedByGate(r) PROVE AInv' BY <1>7, RefusedByGateKeeps
<1>8. ASSUME NEW r \in ImageRequests, ImageSucceeds(r) PROVE AInv' BY <1>8, ImageSucceedsKeeps
<1>9. ASSUME NEW r \in ImageRequests, ImageFails(r) PROVE AInv' BY <1>9, ImageFailsKeeps
<1>10. ASSUME NEW r \in ImageRequests, MarkAccount(r) PROVE AInv' BY <1>10, MarkAccountKeeps
<1>11. ASSUME NEW a \in Accounts, AddAccount(a) PROVE AInv' BY <1>11, AddAccountKeeps
<1>12. ASSUME NEW a \in Accounts, DeleteAccount(a) PROVE AInv' BY <1>12, DeleteAccountKeeps
<1>13. ASSUME NEW a \in Accounts, NEW kind \in StatusesSet \cup {"refresh"}, BeginAdminWork(a, kind)
       PROVE AInv'
  BY <1>13, BeginAdminWorkKeeps
<1>14. ASSUME NEW a \in Accounts, NEW disabled \in BOOLEAN, AlignDisabled(a, disabled)
       PROVE AInv'
  BY <1>14, AlignDisabledKeeps
<1>15. CASE EndRefresh BY <1>15, EndRefreshKeeps
<1>16. CASE EndUpdate BY <1>16, EndUpdateKeeps
<1>17. CASE UNCHANGED accountPoolVars BY <1>17, AccountsStutter
<1> QED
  BY <1>1, <1>2, <1>3, <1>4, <1>5, <1>6, <1>7, <1>8, <1>9, <1>10, <1>11, <1>12, <1>13, <1>14,
     <1>15, <1>16, <1>17
  DEF AccountPoolNext

\* Every variable has its type.
THEOREM AccountTypes == AccountPoolSpec => []AccountPoolTypeOK
<1>1. AInv => AccountPoolTypeOK BY DEF AInv
<1> QED BY <1>1, AccountsBegin, AccountsContinue, PTL DEF AccountPoolSpec

\* An account works for one request at a time, its lease is held exactly as long, and a
\* request under the routing policy leaves the reserve alone.
THEOREM AccountPoolHolds == AccountPoolSpec => []AccountPoolConsistent
<1>1. AInv => AccountPoolConsistent BY InvGivesConsistent
<1> QED BY <1>1, AccountsBegin, AccountsContinue, PTL DEF AccountPoolSpec

-----------------------------------------------------------------------------
(* Provider pools: calls without locks or transactions, so that what a     *)
(* call has read may be gone when it writes.  The invariant says the       *)
(* little that is not: a row in the making is no other call's, and what    *)
(* has failed is never forgotten while its member lives.                   *)

\* Calls that have selected a member.
ReaderSteps == {"acquire", "reload", "using", "fail"}

\* What a call has in hand.
CallFits(rows, v) ==
  /\ v.pc \in {"members", "clear", "check", "insert", "update"} => v.next.state = "there"
  /\ v.pc = "insertMember" => /\ v.nextMember.streak <= v.nextMember.failures
                              /\ rows[v.member].state = "gone"
  /\ v.pc \in ReaderSteps => rows[v.member].state # "new"
  /\ v.pc = "fail" => v.streak <= rows[v.member].failures

\* Two calls insert no member twice, and none has been selected before.
CallsClash(v, w) ==
  v.pc = "insertMember" /\ w.pc \in ReaderSteps \cup {"insertMember"} /\ v.member = w.member

CallsApart ==
  \A c, d \in PoolCallers : c # d => ~CallsClash(poolCaller[c], poolCaller[d])

RowsConsistent == OneDefaultGroup /\ MembersHaveGroups /\ StreakWithinFailures

PInv == /\ PoolTypeOK /\ RowsConsistent /\ CallsApart
        /\ \A c \in PoolCallers : CallFits(member, poolCaller[c])

\* A row that is not being inserted ages: failures stay, and no id comes back.
Ages(m) ==
  /\ member'[m].failures >= member[m].failures
  /\ member[m].state = "gone" => member'[m].state = "gone"
  /\ member'[m].state = "new" => member[m].state = "new"

-----------------------------------------------------------------------------

LEMMA SomeEntryTyped ==
  /\ SomeEntry \in Entry /\ SomeEntry.state = "new" /\ SomeEntry.default = FALSE
  /\ \A e \in Entries : (e \in Groups) # (e \in ApiProviders)
<1>1. (CHOOSE p \in Platforms : TRUE) \in Platforms BY ProviderPoolAssumption
<1> QED BY <1>1, ProviderPoolAssumption DEF SomeEntry, Entry, Entries

LEMMA SomeMemberTyped ==
  /\ SomeMember \in Member /\ SomeMember.state = "new"
  /\ SomeMember.streak = 0 /\ SomeMember.failures = 0
<1>1. /\ (CHOOSE p \in Platforms : TRUE) \in Platforms
      /\ (CHOOSE g \in Groups : TRUE) \in Groups
  BY ProviderPoolAssumption
<1> QED BY <1>1 DEF SomeMember, Member

LEMMA IdleCallTyped == IdleCall \in PoolCall /\ IdleCall.pc = "idle"
<1>1. (CHOOSE m \in Members : TRUE) \in Members BY ProviderPoolAssumption
<1>2. (CHOOSE e \in Entries : TRUE) \in Entries BY ProviderPoolAssumption DEF Entries
<1>3. SomeEntry \in Entry /\ SomeMember \in Member BY SomeEntryTyped, SomeMemberTyped
<1> HIDE DEF Entry, Member, SomeEntry, SomeMember
<1> QED BY <1>1, <1>2, <1>3 DEF IdleCall, PoolCall

LEMMA RowsTyped ==
  ASSUME PInv
  PROVE  /\ entry \in [Entries -> Entry] /\ member \in [Members -> Member]
         /\ poolCaller \in [PoolCallers -> PoolCall] /\ poolCalls \in 0..MaxPoolCalls
         /\ \A m \in Members : /\ member[m] \in Member /\ member[m].group \in Groups
                               /\ member[m].group \in Entries
                               /\ member[m].failures \in Nat /\ member[m].streak \in Nat
         /\ \A e \in Entries : entry[e] \in Entry
         /\ \A c \in PoolCallers :
              /\ poolCaller[c] \in PoolCall /\ poolCaller[c].next \in Entry
              /\ poolCaller[c].nextMember \in Member /\ poolCaller[c].streak \in Nat
              /\ poolCaller[c].id \in Entries /\ poolCaller[c].member \in Members
<1>1. PoolTypeOK BY DEF PInv
<1>2. \A m \in Members : member[m] \in Member BY <1>1 DEF PoolTypeOK
<1>3. \A c \in PoolCallers : poolCaller[c] \in PoolCall BY <1>1 DEF PoolTypeOK
<1>4. \A m \in Member : m.group \in Groups /\ m.failures \in Nat /\ m.streak \in Nat
  BY DEF Member
<1>5. \A v \in PoolCall : /\ v.next \in Entry /\ v.nextMember \in Member /\ v.streak \in Nat
                          /\ v.id \in Entries /\ v.member \in Members
  BY DEF PoolCall
<1> QED BY <1>1, <1>2, <1>3, <1>4, <1>5 DEF PoolTypeOK, Entries

\* One call moves on, and the rows it does not insert age.
LEMMA CallMoves ==
  ASSUME PInv, NEW c \in PoolCallers, NEW v \in PoolCall,
         poolCaller' = [poolCaller EXCEPT ![c] = v], poolCalls' \in 0..MaxPoolCalls,
         entry' \in [Entries -> Entry], member' \in [Members -> Member],
         RowsConsistent', CallFits(member', v),
         \A d \in PoolCallers : d # c => ~CallsClash(v, poolCaller[d])
                                         /\ ~CallsClash(poolCaller[d], v),
         \A m \in Members :
           \/ Ages(m)
           \/ poolCaller[c].pc = "insertMember" /\ m = poolCaller[c].member
  PROVE  PInv'
<1>0. /\ poolCaller \in [PoolCallers -> PoolCall] /\ member \in [Members -> Member]
      /\ poolCaller'[c] = v /\ \A d \in PoolCallers : d # c => poolCaller'[d] = poolCaller[d]
  BY RowsTyped
<1>1. PoolTypeOK' BY <1>0 DEF PoolTypeOK
<1>2. ASSUME NEW d \in PoolCallers PROVE CallFits(member', poolCaller'[d])
  <2>1. CASE d = c BY <2>1, <1>0
  <2>2. CASE d # c
    <3> DEFINE w == poolCaller[d]
    <3>1. CallFits(member, w) /\ w \in PoolCall /\ w.member \in Members /\ w.streak \in Nat
      BY RowsTyped DEF PInv
    <3>2. ~CallsClash(poolCaller[c], w) BY <2>2 DEF PInv, CallsApart
    <3>3. w.pc \in ReaderSteps \cup {"insertMember"} => Ages(w.member)
      BY <3>1, <3>2 DEF CallsClash
    <3>4. member[w.member].failures \in Nat /\ member'[w.member].failures \in Nat
      BY <3>1 DEF Member, PInv, PoolTypeOK
    <3>5. poolCaller'[d] = w BY <2>2, <1>0
    <3>6. member'[w.member].state \in {"new", "there", "gone"} BY <3>1 DEF Member
    <3> HIDE DEF w
    <3> QED BY <3>1, <3>3, <3>4, <3>5, <3>6 DEF CallFits, Ages, ReaderSteps
  <2> QED BY <2>1, <2>2
<1>3. CallsApart'
  <2> SUFFICES ASSUME NEW d \in PoolCallers, NEW e \in PoolCallers, d # e
               PROVE  ~CallsClash(poolCaller'[d], poolCaller'[e])
    BY DEF CallsApart, CallsClash
  <2> QED BY <1>0 DEF PInv, CallsApart
<1> QED BY <1>1, <1>2, <1>3 DEF PInv, CallFits

\* A call is over, or takes a step at which it has nothing of a member.
LEMMA CallMovesQuietly ==
  ASSUME PInv, NEW c \in PoolCallers, NEW v \in PoolCall,
         poolCaller' = [poolCaller EXCEPT ![c] = v], poolCalls' \in 0..MaxPoolCalls,
         entry' \in [Entries -> Entry], member' \in [Members -> Member],
         RowsConsistent', v.pc \notin ReaderSteps \cup {"insertMember"},
         v.pc \in {"members", "clear", "check", "insert", "update"} => v.next.state = "there",
         \A m \in Members :
           \/ Ages(m)
           \/ poolCaller[c].pc = "insertMember" /\ m = poolCaller[c].member
  PROVE  PInv'
<1>1. CallFits(member', v) BY DEF CallFits, ReaderSteps
<1>2. \A d \in PoolCallers : d # c => ~CallsClash(v, poolCaller[d])
                                      /\ ~CallsClash(poolCaller[d], v)
  BY DEF CallsClash
<1> QED BY <1>1, <1>2, CallMoves

LEMMA RowsStay ==
  ASSUME PInv
  PROVE  /\ member' = member => \A m \in Members : Ages(m)
         /\ UNCHANGED <<entry, member>> => RowsConsistent'
<1>1. \A m \in Members : member[m].failures \in Nat BY RowsTyped
<1>2. RowsConsistent BY DEF PInv
<1> QED BY <1>1, <1>2
  DEF RowsConsistent, OneDefaultGroup, MembersHaveGroups, StreakWithinFailures, There,
      MemberThere, Ages

-----------------------------------------------------------------------------
(* Steps that write groups and providers.                                  *)

LEMMA CallBegins ==
  ASSUME PInv, NEW c \in PoolCallers, NEW v, PoolBegins(c, v)
  PROVE  /\ poolCaller' = [poolCaller EXCEPT ![c] = v] /\ poolCalls' \in 0..MaxPoolCalls
         /\ poolCaller[c].pc = "idle"
<1>1. poolCalls \in 0..MaxPoolCalls BY RowsTyped
<1> QED BY <1>1, ProviderPoolAssumption DEF PoolBegins

LEMMA CallReturns ==
  ASSUME PInv, NEW c \in PoolCallers, PoolReturns(c),
         entry' \in [Entries -> Entry], member' \in [Members -> Member], RowsConsistent',
         \A m \in Members :
           \/ Ages(m)
           \/ poolCaller[c].pc = "insertMember" /\ m = poolCaller[c].member
  PROVE  PInv'
<1>1. poolCaller' = [poolCaller EXCEPT ![c] = IdleCall] /\ poolCalls' \in 0..MaxPoolCalls
  BY RowsTyped DEF PoolReturns, PoolGoesOn
<1> HIDE DEF IdleCall, PoolCall
<1> QED BY <1>1, IdleCallTyped, CallMovesQuietly DEF ReaderSteps

\* No group goes away, and no platform has two defaults.
LEMMA EntriesChange ==
  ASSUME PInv, UNCHANGED member, entry' \in [Entries -> Entry], OneDefaultGroup',
         \A e \in Groups : There(e) => entry'[e].state = "there"
  PROVE  RowsConsistent'
<1>1. MembersHaveGroups'
  BY RowsTyped DEF PInv, RowsConsistent, MembersHaveGroups, MemberThere, There
<1>2. StreakWithinFailures' BY DEF PInv, RowsConsistent, StreakWithinFailures
<1> QED BY <1>1, <1>2 DEF RowsConsistent

\* One row is written, with the unique index in its way.
LEMMA EntryWritten ==
  ASSUME PInv, UNCHANGED member, NEW e \in Entries, NEW next \in Entry,
         next.state = "there",
         entry' = IF IndexAllows(e, next) THEN [entry EXCEPT ![e] = next] ELSE entry
  PROVE  entry' \in [Entries -> Entry] /\ RowsConsistent'
<1>0. entry \in [Entries -> Entry] /\ OneDefaultGroup BY RowsTyped DEF PInv, RowsConsistent
<1>1. entry' \in [Entries -> Entry] BY <1>0
<1>2. CASE ~IndexAllows(e, next) BY <1>2, <1>1, RowsStay
<1>3. CASE IndexAllows(e, next)
  <2>1. entry'[e] = next /\ \A f \in Entries : f # e => entry'[f] = entry[f] BY <1>3, <1>0
  <2>2. \A f \in Groups : f \in Entries BY DEF Entries
  <2>3. OneDefaultGroup'
    <3> SUFFICES ASSUME NEW g \in Groups, NEW h \in Groups, g # h,
                        There(g)', There(h)', entry'[g].default, entry'[h].default,
                        entry'[g].platform = entry'[h].platform
                 PROVE  FALSE
      BY DEF OneDefaultGroup
    <3> HIDE DEF Entry
    <3>1. CASE g # e /\ h # e BY <3>1, <2>1, <2>2, <1>0 DEF OneDefaultGroup, There
    <3>2. CASE g = e BY <3>2, <2>1, <2>2, <1>3 DEF IndexAllows, There
    <3>3. CASE h = e BY <3>3, <2>1, <2>2, <1>3 DEF IndexAllows, There
    <3> QED BY <3>1, <3>2, <3>3
  <2>4. \A g \in Groups : There(g) => entry'[g].state = "there" BY <2>1, <2>2 DEF There
  <2> QED BY <2>3, <2>4, <1>1, EntriesChange
<1> QED BY <1>2, <1>3

\* The defaults of some rows are cleared.
LEMMA DefaultsCleared ==
  ASSUME PInv, UNCHANGED member, NEW S \in SUBSET Entries,
         entry' = [e \in Entries |-> IF e \in S THEN [entry[e] EXCEPT !.default = FALSE]
                                     ELSE entry[e]]
  PROVE  entry' \in [Entries -> Entry] /\ RowsConsistent'
<1>0. /\ entry \in [Entries -> Entry] /\ OneDefaultGroup
      /\ \A g \in Groups : g \in Entries
  BY RowsTyped DEF PInv, RowsConsistent, Entries
<1>1. \A e \in Entries :
        /\ entry'[e] \in Entry /\ entry'[e].state = entry[e].state
        /\ entry'[e].platform = entry[e].platform
        /\ entry'[e].default => entry[e].default
  BY <1>0 DEF Entry
<1>2. entry' \in [Entries -> Entry] BY <1>1
<1>3. OneDefaultGroup' BY <1>0, <1>1 DEF OneDefaultGroup, There
<1>4. \A g \in Groups : There(g) => entry'[g].state = "there" BY <1>0, <1>1 DEF There
<1> QED BY <1>2, <1>3, <1>4, EntriesChange

LEMMA BeginCreateEntrySafe ==
  ASSUME PInv, NEW c \in PoolCallers, NEW e \in Entries, NEW in \in EntryInputs,
         BeginCreateEntry(c, e, in)
  PROVE  PInv'
<1> DEFINE v == [IdleCall EXCEPT !.id = e, !.next = in, !.creating = TRUE, !.pc =
                   IF in.default THEN "clear" ELSE IF in.enabled THEN "check" ELSE "insert"]
<1>1. in \in Entry /\ in.state = "there" BY EntryInputsAssumption
<1>2. v \in PoolCall /\ v.pc \in {"clear", "check", "insert"} /\ v.next = in
  <2> HIDE DEF IdleCall, Entry, Member
  <2> QED BY <1>1, IdleCallTyped DEF PoolCall
<1>3. poolCaller' = [poolCaller EXCEPT ![c] = v] /\ poolCalls' \in 0..MaxPoolCalls
  BY CallBegins DEF BeginCreateEntry
<1>4. /\ UNCHANGED member /\ entry[e].state = "new"
      /\ entry' = [entry EXCEPT ![e].state = "gone"]
  BY DEF BeginCreateEntry
<1>5. entry \in [Entries -> Entry] /\ member \in [Members -> Member] BY RowsTyped
<1>6. /\ entry' \in [Entries -> Entry] /\ entry'[e].state = "gone"
      /\ \A f \in Entries : f # e => entry'[f] = entry[f]
  BY <1>4, <1>5 DEF Entry
<1>7. OneDefaultGroup'
  <2> HIDE DEF Entry
  <2> QED BY <1>6 DEF PInv, RowsConsistent, OneDefaultGroup, There, Entries
<1>8. \A g \in Groups : There(g) => entry'[g].state = "there"
  BY <1>6, <1>4 DEF There, Entries
<1>9. RowsConsistent' BY <1>4, <1>6, <1>7, <1>8, EntriesChange
<1> HIDE DEF v
<1>10. \A m \in Members : Ages(m) BY <1>4, RowsStay
<1> QED BY <1>1, <1>2, <1>3, <1>4, <1>5, <1>6, <1>9, <1>10, CallMovesQuietly DEF ReaderSteps

LEMMA ClearDefaultSafe ==
  ASSUME PInv, NEW c \in PoolCallers, ClearDefault(c)
  PROVE  PInv'
<1> DEFINE S == {e \in Entries : SameTable(e, poolCaller[c].id)
                                 /\ entry[e].platform = poolCaller[c].next.platform}
           v == [poolCaller[c] EXCEPT !.pc =
                   IF poolCaller[c].creating THEN "insert" ELSE "update"]
<1>1. /\ UNCHANGED member /\ poolCaller' = [poolCaller EXCEPT ![c] = v]
      /\ UNCHANGED poolCalls /\ poolCaller[c].pc = "clear"
      /\ entry' = [e \in Entries |-> IF e \in S THEN [entry[e] EXCEPT !.default = FALSE]
                                     ELSE entry[e]]
  BY DEF ClearDefault, PoolGoes, PoolGoesOn
<1>2. /\ poolCaller[c] \in PoolCall /\ poolCalls \in 0..MaxPoolCalls
      /\ member \in [Members -> Member] /\ CallFits(member, poolCaller[c])
  BY RowsTyped DEF PInv
<1>3. v \in PoolCall /\ v.pc \in {"insert", "update"} /\ v.next = poolCaller[c].next
  BY <1>2 DEF PoolCall
<1>4. S \in SUBSET Entries OBVIOUS
<1> HIDE DEF S, v
<1>5. entry' \in [Entries -> Entry] /\ RowsConsistent' BY <1>1, <1>4, DefaultsCleared
<1>6. v.next.state = "there" BY <1>1, <1>2, <1>3 DEF CallFits
<1> QED BY <1>1, <1>2, <1>3, <1>5, <1>6, RowsStay, CallMovesQuietly DEF ReaderSteps

LEMMA CheckDefaultSafe ==
  ASSUME PInv, NEW c \in PoolCallers, CheckDefault(c)
  PROVE  PInv'
<1>1. PICK has \in BOOLEAN :
        poolCaller' = [poolCaller EXCEPT ![c] =
          [poolCaller[c] EXCEPT !.pc = "insert", !.next.default = ~has]]
  BY DEF CheckDefault, PoolGoesOn
<1> DEFINE next == [poolCaller[c].next EXCEPT !.default = ~has]
           v == [poolCaller[c] EXCEPT !.pc = "insert", !.next = next]
<1>2. /\ poolCaller[c].pc = "check" /\ UNCHANGED <<entry, member, poolCalls>>
      /\ poolCaller[c] \in PoolCall /\ poolCaller[c].next \in Entry
      /\ poolCalls \in 0..MaxPoolCalls
      /\ entry \in [Entries -> Entry] /\ member \in [Members -> Member]
      /\ CallFits(member, poolCaller[c])
  BY RowsTyped DEF PInv, CheckDefault, PoolGoesOn
<1>3. next \in Entry /\ next.state = "there" BY <1>2 DEF CallFits, Entry
<1>4. poolCaller' = [poolCaller EXCEPT ![c] = v] BY <1>1, <1>2 DEF PoolCall
<1> HIDE DEF next
<1>5. v \in PoolCall /\ v.pc = "insert" /\ v.next = next BY <1>2, <1>3 DEF PoolCall
<1> HIDE DEF v
<1> QED BY <1>2, <1>3, <1>4, <1>5, RowsStay, CallMovesQuietly DEF ReaderSteps

\* InsertEntry, UpdateEntry and EnableDefault: the row is written, or not, and the
\* call is over.
LEMMA WriterReturns ==
  ASSUME PInv, NEW c \in PoolCallers, PoolReturns(c), UNCHANGED member,
         NEW e \in Entries, NEW next \in Entry, next.state = "there",
         entry' \in {IF IndexAllows(e, next) THEN [entry EXCEPT ![e] = next] ELSE entry, entry}
  PROVE  PInv'
<1>1. entry' \in [Entries -> Entry] /\ RowsConsistent' BY EntryWritten, RowsStay, RowsTyped
<1> QED BY <1>1, RowsStay, RowsTyped, CallReturns

LEMMA EntryWritesSafe ==
  ASSUME PInv, NEW c \in PoolCallers, InsertEntry(c) \/ UpdateEntry(c) \/ EnableDefault(c)
  PROVE  PInv'
<1>0. /\ poolCaller[c] \in PoolCall /\ poolCaller[c].id \in Entries
      /\ poolCaller[c].next \in Entry /\ entry[poolCaller[c].id] \in Entry
      /\ CallFits(member, poolCaller[c])
  BY RowsTyped DEF PInv
<1>1. CASE InsertEntry(c)
  BY <1>0, <1>1, WriterReturns DEF InsertEntry, CallFits
<1>2. CASE UpdateEntry(c)
  BY <1>0, <1>2, WriterReturns DEF UpdateEntry, CallFits
<1>3. CASE EnableDefault(c)
  <2> DEFINE next == [entry[poolCaller[c].id] EXCEPT !.enabled = TRUE, !.default = TRUE]
  <2>1. next \in Entry /\ next.state = entry[poolCaller[c].id].state BY <1>0 DEF Entry
  <2>2. /\ PoolReturns(c) /\ UNCHANGED member
        /\ entry' = IF There(poolCaller[c].id) /\ IndexAllows(poolCaller[c].id, next)
                    THEN [entry EXCEPT ![poolCaller[c].id] = next] ELSE entry
    BY <1>3 DEF EnableDefault
  <2> HIDE DEF next
  <2>3. CASE There(poolCaller[c].id) BY <1>0, <2>1, <2>2, <2>3, WriterReturns DEF There
  <2>4. CASE ~There(poolCaller[c].id)
    BY <2>2, <2>4, RowsStay, RowsTyped, CallReturns
  <2> QED BY <2>3, <2>4
<1> QED BY <1>1, <1>2, <1>3

LEMMA BeginUpdateEntrySafe ==
  ASSUME PInv, NEW c \in PoolCallers, NEW e \in Entries, NEW in \in EntryInputs,
         BeginUpdateEntry(c, e, in)
  PROVE  PInv'
<1> DEFINE pc == IF e \in Groups /\ in.platform # entry[e].platform THEN "members"
                 ELSE IF in.default THEN "clear" ELSE "update"
           v == [IdleCall EXCEPT !.id = e, !.next = Updated(e, in), !.pc = pc]
<1>1. in \in Entry /\ in.state = "there" BY EntryInputsAssumption
<1>2. Updated(e, in) \in Entry /\ Updated(e, in).state = "there" BY <1>1 DEF Updated, Entry
<1>3. pc \in {"members", "clear", "update"} OBVIOUS
<1>4. poolCaller' = [poolCaller EXCEPT ![c] = v] /\ poolCalls' \in 0..MaxPoolCalls
  BY CallBegins DEF BeginUpdateEntry
<1> HIDE DEF pc
<1>5. v \in PoolCall /\ v.pc = pc /\ v.next = Updated(e, in)
  <2> HIDE DEF IdleCall, Entry, Member, Updated
  <2> QED BY <1>2, <1>3, IdleCallTyped DEF PoolCall
<1>6. UNCHANGED <<entry, member>> BY DEF BeginUpdateEntry
<1>7. entry \in [Entries -> Entry] /\ member \in [Members -> Member] BY RowsTyped
<1> HIDE DEF v
<1> QED BY <1>2, <1>3, <1>4, <1>5, <1>6, <1>7, RowsStay, CallMovesQuietly DEF ReaderSteps

LEMMA CheckMembersSafe ==
  ASSUME PInv, NEW c \in PoolCallers, CheckMembers(c)
  PROVE  PInv'
<1>0. /\ poolCaller[c].pc = "members" /\ UNCHANGED <<entry, member>>
      /\ entry \in [Entries -> Entry] /\ member \in [Members -> Member]
      /\ poolCalls \in 0..MaxPoolCalls
      /\ poolCaller[c] \in PoolCall /\ CallFits(member, poolCaller[c])
  BY RowsTyped DEF PInv, CheckMembers
<1>1. CASE PoolReturns(c) BY <1>0, <1>1, RowsStay, CallReturns
<1>2. ASSUME NEW pc \in {"clear", "update"}, PoolGoes(c, pc) PROVE PInv'
  <2> DEFINE v == [poolCaller[c] EXCEPT !.pc = pc]
  <2>1. v \in PoolCall /\ v.pc = pc /\ v.next = poolCaller[c].next BY <1>0 DEF PoolCall
  <2>2. poolCaller' = [poolCaller EXCEPT ![c] = v] /\ UNCHANGED poolCalls
    BY <1>2 DEF PoolGoes, PoolGoesOn
  <2> HIDE DEF v
  <2> QED BY <1>0, <2>1, <2>2, RowsStay, CallMovesQuietly DEF ReaderSteps, CallFits
<1> QED BY <1>1, <1>2 DEF CheckMembers

LEMMA BeginSetDefaultProviderSafe ==
  ASSUME PInv, NEW c \in PoolCallers, NEW e \in Entries, BeginSetDefaultProvider(c, e)
  PROVE  PInv'
<1> DEFINE S == {f \in Entries : SameTable(e, f) /\ entry[f].platform = entry[e].platform}
           v == [IdleCall EXCEPT !.id = e, !.pc = "enable"]
<1>1. v \in PoolCall /\ v.pc = "enable"
  <2> HIDE DEF IdleCall, Entry, Member
  <2> QED BY IdleCallTyped DEF PoolCall
<1>2. /\ UNCHANGED member
      /\ poolCaller' = [poolCaller EXCEPT ![c] = v] /\ poolCalls' \in 0..MaxPoolCalls
      /\ entry' = [f \in Entries |-> IF f \in S THEN [entry[f] EXCEPT !.default = FALSE]
                                     ELSE entry[f]]
  BY CallBegins DEF BeginSetDefaultProvider
<1>3. S \in SUBSET Entries OBVIOUS
<1> HIDE DEF S, v
<1>4. entry' \in [Entries -> Entry] /\ RowsConsistent' BY <1>2, <1>3, DefaultsCleared
<1>5. member \in [Members -> Member] BY RowsTyped
<1> QED BY <1>1, <1>2, <1>4, <1>5, RowsStay, CallMovesQuietly DEF ReaderSteps

\* The members of a group go with it.
LEMMA DeleteEntrySafe ==
  ASSUME PInv, NEW e \in Entries, DeleteEntry(e)
  PROVE  PInv'
<1>0. /\ entry \in [Entries -> Entry] /\ member \in [Members -> Member]
      /\ UNCHANGED <<poolCaller, poolCalls>>
      /\ \A m \in Members : /\ member[m].failures \in Nat /\ member[m] \in Member
                            /\ member[m].group \in Entries
  BY RowsTyped DEF DeleteEntry
<1>1. /\ entry' \in [Entries -> Entry] /\ entry'[e].state = "gone"
      /\ \A f \in Entries : f # e => entry'[f] = entry[f]
  BY <1>0 DEF DeleteEntry, Entry
<1>2. \A m \in Members :
        /\ member'[m] \in Member
        /\ member'[m].group = member[m].group
        /\ member'[m].failures = member[m].failures /\ member'[m].streak = member[m].streak
        /\ \/ member'[m].state = member[m].state /\ (MemberThere(m) => member[m].group # e)
           \/ member'[m].state = "gone" /\ MemberThere(m)
  BY <1>0 DEF DeleteEntry, Member
<1>3. member' \in [Members -> Member] BY <1>2 DEF DeleteEntry
<1>4. OneDefaultGroup'
  <2> HIDE DEF Entry
  <2> QED BY <1>1 DEF PInv, RowsConsistent, OneDefaultGroup, There, Entries
<1>5. MembersHaveGroups'
  <2> HIDE DEF Entry, Member
  <2> QED BY <1>0, <1>1, <1>2
        DEF PInv, RowsConsistent, MembersHaveGroups, There, MemberThere
<1>6. StreakWithinFailures'
  <2> HIDE DEF Entry, Member
  <2> QED BY <1>2 DEF PInv, RowsConsistent, StreakWithinFailures
<1>7. \A m \in Members : Ages(m)
  <2> HIDE DEF Entry, Member
  <2> QED BY <1>0, <1>2 DEF Ages, MemberThere
<1>8. ASSUME NEW c \in PoolCallers PROVE CallFits(member', poolCaller[c])
  <2>1. CallFits(member, poolCaller[c]) /\ poolCaller[c].member \in Members
    BY RowsTyped DEF PInv
  <2> HIDE DEF Entry, Member
  <2> QED BY <2>1, <1>2 DEF CallFits, MemberThere
<1>9. CallsApart' /\ PoolTypeOK'
  BY <1>0, <1>1, <1>3 DEF PInv, CallsApart, CallsClash, PoolTypeOK
<1> QED BY <1>0, <1>4, <1>5, <1>6, <1>8, <1>9 DEF PInv, RowsConsistent

-----------------------------------------------------------------------------
(* Steps that write members.                                               *)

\* Members change, and no group does.
LEMMA MembersChange ==
  ASSUME PInv, UNCHANGED entry, member' \in [Members -> Member],
         \A m \in Members : member'[m].state = "there" =>
                              entry[member'[m].group].state = "there",
         \A m \in Members : member'[m].streak <= member'[m].failures
  PROVE  RowsConsistent'
<1> QED BY DEF PInv, RowsConsistent, OneDefaultGroup, MembersHaveGroups,
               StreakWithinFailures, There, MemberThere

\* One member gets a row with which it does not come back, does not change its group
\* and has failed no less.
LEMMA MemberAges ==
  ASSUME PInv, UNCHANGED entry, NEW m \in Members, NEW newRow \in Member,
         member' = [member EXCEPT ![m] = newRow] \/ member' = member,
         newRow.state = "there" => /\ member[m].state = "there"
                                /\ entry[newRow.group].state = "there",
         newRow.state = "new" => member[m].state = "new",
         newRow.failures >= member[m].failures, newRow.streak <= newRow.failures
  PROVE  /\ member' \in [Members -> Member] /\ RowsConsistent'
         /\ \A n \in Members : Ages(n)
<1>0. /\ member \in [Members -> Member] /\ RowsConsistent
      /\ \A n \in Members : member[n].failures \in Nat
      /\ newRow.state \in {"new", "there", "gone"}
  BY RowsTyped DEF PInv, Member
<1>1. CASE member' = member BY <1>0, <1>1, RowsStay
<1>2. CASE member' = [member EXCEPT ![m] = newRow]
  <2>1. member'[m] = newRow /\ \A n \in Members : n # m => member'[n] = member[n]
    BY <1>2, <1>0
  <2>2. member' \in [Members -> Member] BY <1>2, <1>0
  <2> HIDE DEF Member
  <2>3. \A n \in Members : /\ member'[n].state = "there" =>
                                entry[member'[n].group].state = "there"
                           /\ member'[n].streak <= member'[n].failures
    BY <2>1, <1>0 DEF RowsConsistent, MembersHaveGroups, StreakWithinFailures, There, MemberThere
  <2>4. RowsConsistent' BY <2>2, <2>3, MembersChange
  <2>5. \A n \in Members : Ages(n) BY <2>1, <1>0 DEF Ages
  <2> QED BY <2>2, <2>4, <2>5
<1> QED BY <1>1, <1>2

\* A step of an administrator, or of the clock, which is no call.
LEMMA MemberStepSafe ==
  ASSUME PInv, NEW m \in Members, DeleteMember(m) \/ RecoverMember(m) \/ CooldownEnds(m)
  PROVE  PInv'
<1>0. /\ UNCHANGED <<entry, poolCaller, poolCalls>> /\ member[m] \in Member
      /\ member \in [Members -> Member] /\ entry \in [Entries -> Entry]
      /\ member[m].state = "there" => entry[member[m].group].state = "there"
      /\ member[m].streak <= member[m].failures
  BY RowsTyped DEF PInv, RowsConsistent, MembersHaveGroups, StreakWithinFailures, There,
                   MemberThere, DeleteMember, RecoverMember, CooldownEnds
<1>1. PICK newRow \in Member :
        /\ member' = [member EXCEPT ![m] = newRow] /\ newRow.group = member[m].group
        /\ newRow.state \in {member[m].state, "gone"} /\ newRow.failures = member[m].failures
        /\ newRow.streak \in {member[m].streak, 0}
  <2>1. CASE DeleteMember(m)
    <3> DEFINE newRow == [member[m] EXCEPT !.state = "gone"]
    <3>1. newRow \in Member /\ member' = [member EXCEPT ![m] = newRow]
      BY <1>0, <2>1 DEF DeleteMember, Member
    <3>2. newRow.group = member[m].group /\ newRow.state = "gone"
          /\ newRow.failures = member[m].failures /\ newRow.streak = member[m].streak
      BY <1>0 DEF Member
    <3> HIDE DEF newRow, Member
    <3> QED BY <3>1, <3>2
  <2>2. CASE RecoverMember(m)
    <3> DEFINE newRow == [member[m] EXCEPT !.status = "active", !.enabled = TRUE,
                                        !.cooling = FALSE, !.streak = 0]
    <3>1. newRow \in Member /\ member' = [member EXCEPT ![m] = newRow]
      BY <1>0, <2>2 DEF RecoverMember, Member
    <3>2. newRow.group = member[m].group /\ newRow.state = member[m].state
          /\ newRow.failures = member[m].failures /\ newRow.streak = 0
      BY <1>0 DEF Member
    <3> HIDE DEF newRow, Member
    <3> QED BY <3>1, <3>2
  <2>3. CASE CooldownEnds(m)
    <3> DEFINE newRow == [member[m] EXCEPT !.cooling = FALSE]
    <3>1. newRow \in Member /\ member' = [member EXCEPT ![m] = newRow]
      BY <1>0, <2>3 DEF CooldownEnds, Member
    <3>2. newRow.group = member[m].group /\ newRow.state = member[m].state
          /\ newRow.failures = member[m].failures /\ newRow.streak = member[m].streak
      BY <1>0 DEF Member
    <3> HIDE DEF newRow, Member
    <3> QED BY <3>1, <3>2
  <2> QED BY <2>1, <2>2, <2>3
<1>2. newRow.failures \in Nat BY <1>0, <1>1 DEF Member
<1>3. /\ member' \in [Members -> Member] /\ RowsConsistent'
      /\ \A n \in Members : Ages(n)
  <2> HIDE DEF Member
  <2>1. newRow.failures >= member[m].failures /\ newRow.streak <= newRow.failures BY <1>0, <1>1, <1>2
  <2>2. /\ newRow.state = "there" => /\ member[m].state = "there"
                                  /\ entry[newRow.group].state = "there"
        /\ newRow.state = "new" => member[m].state = "new"
    BY <1>0, <1>1
  <2> QED BY <1>0, <1>1, <2>1, <2>2, MemberAges
<1>4. ASSUME NEW c \in PoolCallers PROVE CallFits(member', poolCaller[c])
  <2>1. /\ CallFits(member, poolCaller[c]) /\ poolCaller[c].member \in Members
        /\ poolCaller[c].streak \in Nat
        /\ member[poolCaller[c].member].failures \in Nat
    BY RowsTyped DEF PInv
  <2>2. member'[poolCaller[c].member].failures \in Nat BY <2>1, <1>3 DEF Member
  <2> HIDE DEF Member
  <2> QED BY <2>1, <2>2, <1>3 DEF CallFits, Ages
<1>5. CallsApart' /\ PoolTypeOK' BY <1>0, <1>3 DEF PInv, CallsApart, CallsClash, PoolTypeOK
<1> QED BY <1>0, <1>3, <1>4, <1>5 DEF PInv

LEMMA MemberInputsFit ==
  ASSUME PInv, NEW in \in MemberInputs
  PROVE  in \in Member /\ in.streak = 0 /\ in.failures = 0
<1>1. PICK g \in Groups, enabled \in BOOLEAN : in = MemberInput(g, enabled, "active")
  BY DEF MemberInputs
<1>2. g \in Entries /\ entry[g].platform \in Platforms BY RowsTyped DEF Entries, Entry
<1> QED BY <1>1, <1>2 DEF MemberInput, Member

\* A member in the making has an id of its own.
LEMMA BeginCreateMemberSafe ==
  ASSUME PInv, NEW c \in PoolCallers, NEW m \in Members, NEW in \in MemberInputs,
         BeginCreateMember(c, m, in)
  PROVE  PInv'
<1> DEFINE v == [IdleCall EXCEPT !.pc = "insertMember", !.member = m, !.nextMember = in]
           newRow == [member[m] EXCEPT !.state = "gone"]
<1>1. in \in Member /\ in.streak = 0 /\ in.failures = 0 BY MemberInputsFit
<1>2. v \in PoolCall /\ v.pc = "insertMember" /\ v.member = m /\ v.nextMember = in
  <2> HIDE DEF IdleCall, Entry, Member
  <2> QED BY <1>1, IdleCallTyped DEF PoolCall
<1>3. poolCaller' = [poolCaller EXCEPT ![c] = v] /\ poolCalls' \in 0..MaxPoolCalls
  BY CallBegins DEF BeginCreateMember
<1>4. /\ member[m] \in Member /\ member \in [Members -> Member]
      /\ entry \in [Entries -> Entry] /\ UNCHANGED entry /\ member[m].state = "new"
      /\ member[m].failures \in Nat /\ member[m].streak <= member[m].failures
  BY RowsTyped DEF BeginCreateMember, PInv, RowsConsistent, StreakWithinFailures
<1>5. /\ newRow \in Member /\ member' = [member EXCEPT ![m] = newRow] /\ newRow.state = "gone"
      /\ newRow.failures = member[m].failures /\ newRow.streak = member[m].streak
  BY <1>4 DEF BeginCreateMember, Member
<1> HIDE DEF newRow, v, Member
<1>6. /\ member' \in [Members -> Member] /\ RowsConsistent'
      /\ \A n \in Members : Ages(n)
  <2>1. newRow.failures >= member[m].failures /\ newRow.streak <= newRow.failures BY <1>4, <1>5
  <2> QED BY <1>4, <1>5, <2>1, MemberAges
<1>7. member'[m].state = "gone" BY <1>4, <1>5
<1>8. CallFits(member', v) BY <1>1, <1>2, <1>7 DEF CallFits, ReaderSteps
<1>9. ASSUME NEW d \in PoolCallers PROVE ~CallsClash(v, poolCaller[d]) /\ ~CallsClash(poolCaller[d], v)
  BY <1>2, <1>4 DEF PInv, CallFits, CallsClash
<1> QED BY <1>2, <1>3, <1>4, <1>6, <1>8, <1>9, CallMoves

LEMMA InsertMemberSafe ==
  ASSUME PInv, NEW c \in PoolCallers, InsertMember(c)
  PROVE  PInv'
<1> DEFINE n == poolCaller[c].member
           newRow == poolCaller[c].nextMember
<1>0. /\ member \in [Members -> Member] /\ entry \in [Entries -> Entry]
      /\ n \in Members /\ newRow \in Member /\ CallFits(member, poolCaller[c])
      /\ UNCHANGED entry /\ PoolReturns(c) /\ poolCaller[c].pc = "insertMember"
      /\ newRow.streak <= newRow.failures
      /\ \A m \in Members : member[m].failures \in Nat
      /\ member' = IF entry[newRow.group].state = "there" THEN [member EXCEPT ![n] = newRow]
                   ELSE member
  BY RowsTyped DEF InsertMember, PInv, CallFits, There
<1> HIDE DEF n, newRow, Member
<1>1. /\ member' \in [Members -> Member]
      /\ \A m \in Members : m # n => member'[m] = member[m]
      /\ member'[n] \in {member[n], newRow}
      /\ member'[n] # member[n] => member'[n] = newRow /\ entry[newRow.group].state = "there"
  BY <1>0
<1>2. \A m \in Members : /\ member'[m].state = "there" =>
                              entry[member'[m].group].state = "there"
                         /\ member'[m].streak <= member'[m].failures
  BY <1>0, <1>1 DEF PInv, RowsConsistent, MembersHaveGroups, StreakWithinFailures, There,
                    MemberThere
<1>3. RowsConsistent' BY <1>0, <1>1, <1>2, MembersChange
<1>4. \A m \in Members : m # n => Ages(m) BY <1>0, <1>1 DEF Ages
<1> QED BY <1>0, <1>1, <1>3, <1>4, CallReturns DEF n

LEMMA BeginUpdateMemberSafe ==
  ASSUME PInv, NEW c \in PoolCallers, NEW m \in Members, NEW in \in MemberInputs,
         BeginUpdateMember(c, m, in)
  PROVE  PInv'
<1> DEFINE v == [IdleCall EXCEPT !.pc = "updateMember", !.member = m, !.nextMember = in]
<1>1. in \in Member BY MemberInputsFit
<1>2. v \in PoolCall /\ v.pc = "updateMember"
  <2> HIDE DEF IdleCall, Entry, Member
  <2> QED BY <1>1, IdleCallTyped DEF PoolCall
<1>3. /\ poolCaller' = [poolCaller EXCEPT ![c] = v] /\ poolCalls' \in 0..MaxPoolCalls
      /\ UNCHANGED <<entry, member>>
  BY CallBegins DEF BeginUpdateMember
<1> HIDE DEF v
<1> QED BY <1>2, <1>3, RowsStay, RowsTyped, CallMovesQuietly DEF ReaderSteps

\* A call is over with a step in the life of its member.
LEMMA MemberReturns ==
  ASSUME PInv, NEW c \in PoolCallers, PoolReturns(c), UNCHANGED entry,
         NEW m \in Members, NEW newRow \in Member,
         member' = [member EXCEPT ![m] = newRow] \/ member' = member,
         newRow.state = "there" => /\ member[m].state = "there"
                                /\ entry[newRow.group].state = "there",
         newRow.state = "new" => member[m].state = "new",
         newRow.failures >= member[m].failures, newRow.streak <= newRow.failures
  PROVE  PInv'
<1>1. /\ member' \in [Members -> Member] /\ RowsConsistent'
      /\ \A n \in Members : Ages(n)
  BY MemberAges
<1> QED BY <1>1, RowsTyped, CallReturns

LEMMA UpdateMemberSafe ==
  ASSUME PInv, NEW c \in PoolCallers, UpdateMember(c)
  PROVE  PInv'
<1> DEFINE m == poolCaller[c].member
           next == poolCaller[c].nextMember
           newRow == [member[m] EXCEPT !.group = next.group, !.platform = next.platform,
                     !.enabled = next.enabled, !.status = next.status]
<1>0. /\ m \in Members /\ next \in Member /\ member[m] \in Member
      /\ member[m].failures \in Nat /\ member[m].streak <= member[m].failures
      /\ UNCHANGED entry /\ PoolReturns(c)
  BY RowsTyped DEF UpdateMember, PInv, RowsConsistent, StreakWithinFailures
<1>1. /\ newRow \in Member /\ newRow.group = next.group /\ newRow.state = member[m].state
      /\ newRow.failures = member[m].failures /\ newRow.streak = member[m].streak
  BY <1>0 DEF Member
<1>2. member' = IF There(next.group) /\ MemberThere(m) THEN [member EXCEPT ![m] = newRow]
                ELSE member
  BY DEF UpdateMember
<1> HIDE DEF newRow, m, next, Member
<1>3. CASE There(next.group) BY <1>0, <1>1, <1>2, <1>3, MemberReturns DEF There
<1>4. CASE ~There(next.group) BY <1>0, <1>2, <1>4, RowsStay, RowsTyped, CallReturns
<1> QED BY <1>3, <1>4

-----------------------------------------------------------------------------
(* Steps that select and report members.                                   *)

LEMMA BeginSelectSafe ==
  ASSUME PInv, NEW c \in PoolCallers, NEW p \in Platforms, NEW tags \in RequestTags,
         BeginSelect(c, p, tags)
  PROVE  PInv'
<1> DEFINE next == [IdleCall.next EXCEPT !.platform = p]
           v == [IdleCall EXCEPT !.pc = "select", !.next = next,
                   !.tagged = TaggedGroups(p, tags), !.fallback = FallbackGroups(p)]
<1>1. TaggedGroups(p, tags) \in SUBSET Groups /\ FallbackGroups(p) \in SUBSET Groups
  BY DEF TaggedGroups, FallbackGroups, Considered
<1>2. IdleCall \in PoolCall /\ IdleCall.next \in Entry BY IdleCallTyped DEF PoolCall
<1>3. next \in Entry BY <1>2 DEF Entry
<1> HIDE DEF IdleCall, Entry, Member, TaggedGroups, FallbackGroups
<1>4. /\ UNCHANGED <<entry, member>> /\ poolCalls' \in 0..MaxPoolCalls
      /\ poolCaller' = [poolCaller EXCEPT ![c] =
           [IdleCall EXCEPT !.pc = "select", !.next.platform = p,
              !.tagged = TaggedGroups(p, tags), !.fallback = FallbackGroups(p)]]
  BY CallBegins DEF BeginSelect
<1>5. poolCaller' = [poolCaller EXCEPT ![c] = v] BY <1>2, <1>4 DEF PoolCall
<1> HIDE DEF next
<1>6. v \in PoolCall /\ v.pc = "select" BY <1>1, <1>2, <1>3 DEF PoolCall
<1> HIDE DEF v
<1> QED BY <1>4, <1>5, <1>6, RowsStay, RowsTyped, CallMovesQuietly DEF ReaderSteps

\* Who is selected has a row.
LEMMA SelectedAreThere ==
  ASSUME NEW call, NEW busy, NEW m \in SelectedFrom(call, busy)
  PROVE  m \in Members /\ MemberThere(m)
<1> QED BY DEF SelectedFrom, Preferred, Eligible

LEMMA SelectMemberSafe ==
  ASSUME PInv, NEW c \in PoolCallers, SelectMember(c)
  PROVE  PInv'
<1>0. UNCHANGED <<entry, member>> BY DEF SelectMember
<1>1. CASE PoolReturns(c) BY <1>0, <1>1, RowsStay, RowsTyped, CallReturns
<1>2. ASSUME NEW m \in Members, MemberThere(m),
             PoolGoesOn(c, [IdleCall EXCEPT !.pc = "acquire", !.member = m])
      PROVE  PInv'
  <2> DEFINE v == [IdleCall EXCEPT !.pc = "acquire", !.member = m]
  <2>1. poolCaller' = [poolCaller EXCEPT ![c] = v] /\ UNCHANGED poolCalls
    BY <1>2 DEF PoolGoesOn
  <2>2. v \in PoolCall /\ v.pc = "acquire" /\ v.member = m
    <3> HIDE DEF IdleCall, Entry, Member
    <3> QED BY IdleCallTyped DEF PoolCall
  <2> HIDE DEF v
  <2>3. CallFits(member', v) BY <1>0, <1>2, <2>2 DEF CallFits, MemberThere
  <2>4. ASSUME NEW d \in PoolCallers
        PROVE  ~CallsClash(v, poolCaller[d]) /\ ~CallsClash(poolCaller[d], v)
    BY <1>2, <2>2 DEF PInv, CallFits, CallsClash, MemberThere
  <2> QED BY <1>0, <2>1, <2>2, <2>3, <2>4, RowsStay, RowsTyped, CallMoves
<1>3. PICK busy \in SUBSET Members :
        \/ \E m \in SelectedFrom(poolCaller[c], busy) :
             PoolGoesOn(c, [IdleCall EXCEPT !.pc = "acquire", !.member = m])
        \/ PoolReturns(c)
  <2> HIDE DEF SelectedFrom, PoolGoesOn, PoolReturns
  <2> QED BY DEF SelectMember
<1> HIDE DEF SelectedFrom, PoolGoesOn, PoolReturns
<1> QED BY <1>1, <1>2, <1>3, SelectedAreThere

\* A call that has a member keeps it.
LEMMA ReaderGoes ==
  ASSUME PInv, NEW c \in PoolCallers, NEW v \in PoolCall,
         poolCaller[c].pc \in ReaderSteps, v.pc \in ReaderSteps,
         v.member = poolCaller[c].member, CallFits(member', v),
         poolCaller' = [poolCaller EXCEPT ![c] = v], UNCHANGED <<entry, poolCalls>>,
         member' \in [Members -> Member], RowsConsistent', \A m \in Members : Ages(m)
  PROVE  PInv'
<1>1. ASSUME NEW d \in PoolCallers, d # c
      PROVE  ~CallsClash(v, poolCaller[d]) /\ ~CallsClash(poolCaller[d], v)
  <2>1. ~CallsClash(poolCaller[d], poolCaller[c]) BY <1>1 DEF PInv, CallsApart
  <2> QED BY <2>1 DEF CallsClash, ReaderSteps
<1>2. entry \in [Entries -> Entry] /\ poolCalls \in 0..MaxPoolCalls BY RowsTyped
<1> QED BY <1>1, <1>2, CallMoves

\* What is known of the member a call has.
LEMMA ReaderFacts ==
  ASSUME PInv, NEW c \in PoolCallers, NEW m, m = poolCaller[c].member
  PROVE  /\ m \in Members /\ member[m] \in Member /\ member \in [Members -> Member]
         /\ member[m].failures \in Nat /\ member[m].streak \in Nat
         /\ member[m].streak <= member[m].failures
         /\ member[m].state = "there" => entry[member[m].group].state = "there"
         /\ poolCaller[c] \in PoolCall /\ CallFits(member, poolCaller[c])
<1> QED BY RowsTyped DEF PInv, RowsConsistent, StreakWithinFailures, MembersHaveGroups,
                         There, MemberThere

\* The member is marked as in order.
LEMMA MarkedFits ==
  ASSUME PInv, NEW c \in PoolCallers, UNCHANGED entry, NEW m, m = poolCaller[c].member,
         \/ member' = member
         \/ member' = [member EXCEPT ![m].status = "active", ![m].cooling = FALSE]
         \/ member' = [member EXCEPT ![m].status = "active", ![m].cooling = FALSE,
                                     ![m].streak = 0]
  PROVE  /\ member' \in [Members -> Member] /\ RowsConsistent'
         /\ \A n \in Members : Ages(n)
<1>0. /\ m \in Members /\ member[m] \in Member /\ member \in [Members -> Member]
      /\ member[m].failures \in Nat /\ member[m].streak \in Nat
      /\ member[m].streak <= member[m].failures
      /\ member[m].state = "there" => entry[member[m].group].state = "there"
  BY ReaderFacts
<1>1. CASE member' = member BY <1>0, <1>1, RowsStay
<1>2. CASE member' = [member EXCEPT ![m].status = "active", ![m].cooling = FALSE]
  <2> DEFINE newRow == [member[m] EXCEPT !.status = "active", !.cooling = FALSE]
  <2>1. /\ newRow \in Member /\ member' = [member EXCEPT ![m] = newRow]
        /\ newRow.state = member[m].state /\ newRow.group = member[m].group
        /\ newRow.failures = member[m].failures /\ newRow.streak = member[m].streak
    BY <1>0, <1>2 DEF Member
  <2> HIDE DEF newRow, Member
  <2>2. newRow.failures >= member[m].failures /\ newRow.streak <= newRow.failures BY <1>0, <2>1
  <2> QED BY <1>0, <2>1, <2>2, MemberAges
<1>3. CASE member' = [member EXCEPT ![m].status = "active", ![m].cooling = FALSE,
                                    ![m].streak = 0]
  <2> DEFINE newRow == [member[m] EXCEPT !.status = "active", !.cooling = FALSE, !.streak = 0]
  <2>1. /\ newRow \in Member /\ member' = [member EXCEPT ![m] = newRow]
        /\ newRow.state = member[m].state /\ newRow.group = member[m].group
        /\ newRow.failures = member[m].failures /\ newRow.streak = 0
    BY <1>0, <1>3 DEF Member
  <2> HIDE DEF newRow, Member
  <2>2. newRow.failures >= member[m].failures /\ newRow.streak <= newRow.failures BY <1>0, <2>1
  <2> QED BY <1>0, <2>1, <2>2, MemberAges
<1> QED BY <1>1, <1>2, <1>3

LEMMA MarkMemberAcquiredSafe ==
  ASSUME PInv, NEW c \in PoolCallers, MarkMemberAcquired(c)
  PROVE  PInv'
<1> DEFINE v == [poolCaller[c] EXCEPT !.pc = "reload"]
<1>0. /\ member' \in [Members -> Member] /\ RowsConsistent'
      /\ \A n \in Members : Ages(n)
  BY MarkedFits DEF MarkMemberAcquired
<1>1. /\ poolCaller[c].pc = "acquire" /\ UNCHANGED <<entry, poolCalls>>
      /\ poolCaller' = [poolCaller EXCEPT ![c] = v]
  BY DEF MarkMemberAcquired, PoolGoes, PoolGoesOn
<1>2. v \in PoolCall /\ v.pc = "reload" /\ v.member = poolCaller[c].member
  BY ReaderFacts DEF PoolCall
<1> HIDE DEF v
<1>3. CallFits(member', v)
  BY <1>0, <1>1, <1>2, ReaderFacts DEF CallFits, ReaderSteps, Ages
<1> QED BY <1>0, <1>1, <1>2, <1>3, ReaderGoes DEF ReaderSteps

LEMMA ReloadMemberSafe ==
  ASSUME PInv, NEW c \in PoolCallers, ReloadMember(c)
  PROVE  PInv'
<1>0. UNCHANGED <<entry, member>> /\ poolCaller[c].pc = "reload" BY DEF ReloadMember
<1>1. CASE PoolReturns(c) BY <1>0, <1>1, RowsStay, RowsTyped, CallReturns
<1>2. CASE PoolGoes(c, "using")
  <2> DEFINE v == [poolCaller[c] EXCEPT !.pc = "using"]
  <2>1. poolCaller' = [poolCaller EXCEPT ![c] = v] /\ UNCHANGED poolCalls
    BY <1>2 DEF PoolGoes, PoolGoesOn
  <2>2. v \in PoolCall /\ v.pc = "using" /\ v.member = poolCaller[c].member
    BY ReaderFacts DEF PoolCall
  <2> HIDE DEF v
  <2>3. CallFits(member', v) BY <1>0, <2>2, ReaderFacts DEF CallFits, ReaderSteps
  <2> QED BY <1>0, <2>1, <2>2, <2>3, RowsStay, RowsTyped, ReaderGoes DEF ReaderSteps
<1> QED BY <1>1, <1>2 DEF ReloadMember

LEMMA MemberReportsSafe ==
  ASSUME PInv, NEW c \in PoolCallers, ReleaseMember(c) \/ ReportMemberSuccess(c)
  PROVE  PInv'
<1>1. UNCHANGED entry /\ PoolReturns(c) BY DEF ReleaseMember, ReportMemberSuccess
<1>2. /\ member' \in [Members -> Member] /\ RowsConsistent'
      /\ \A n \in Members : Ages(n)
  BY <1>1, MarkedFits DEF ReleaseMember, ReportMemberSuccess
<1> QED BY <1>1, <1>2, RowsTyped, CallReturns

\* The streak is read while the failures are at least as many.
LEMMA ReadFailuresSafe ==
  ASSUME PInv, NEW c \in PoolCallers, ReadFailures(c)
  PROVE  PInv'
<1> DEFINE m == poolCaller[c].member
           v == [poolCaller[c] EXCEPT !.pc = "fail", !.streak = member[m].streak]
<1>0. UNCHANGED <<entry, member>> /\ poolCaller[c].pc = "using" BY DEF ReadFailures
<1>1. CASE PoolReturns(c) BY <1>0, <1>1, RowsStay, RowsTyped, CallReturns
<1>2. CASE PoolGoesOn(c, v)
  <2>1. poolCaller' = [poolCaller EXCEPT ![c] = v] /\ UNCHANGED poolCalls
    BY <1>2 DEF PoolGoesOn
  <2>2. v \in PoolCall /\ v.pc = "fail" /\ v.member = m /\ v.streak = member[m].streak
    BY ReaderFacts DEF PoolCall
  <2> HIDE DEF v
  <2>3. CallFits(member', v) BY <1>0, <2>2, ReaderFacts DEF CallFits, ReaderSteps
  <2> QED BY <1>0, <2>1, <2>2, <2>3, RowsStay, RowsTyped, ReaderGoes DEF ReaderSteps
<1> QED BY <1>1, <1>2 DEF ReadFailures

\* What is written as the streak is one more than was read, and the failures are one
\* more than there were.
LEMMA ReportMemberFailureSafe ==
  ASSUME PInv, NEW c \in PoolCallers, ReportMemberFailure(c)
  PROVE  PInv'
<1> DEFINE m == poolCaller[c].member
           read == poolCaller[c].streak
<1>0. /\ UNCHANGED entry /\ PoolReturns(c) /\ poolCaller[c].pc = "fail"
      /\ read \in Nat /\ read <= member[m].failures
  BY ReaderFacts, RowsTyped DEF ReportMemberFailure, CallFits
<1>1. PICK status \in {"limited", "unavailable"}, cooling \in BOOLEAN :
        member' = IF MemberThere(m)
                  THEN [member EXCEPT ![m] = StoredFailure(member[m], read, status, cooling)]
                  ELSE member
  BY DEF ReportMemberFailure
<1> DEFINE newRow == StoredFailure(member[m], read, status, cooling)
<1>2. /\ newRow \in Member /\ newRow.state = member[m].state /\ newRow.group = member[m].group
      /\ newRow.failures = member[m].failures + 1 /\ newRow.streak = read + 1
  <2>1. /\ member[m] \in Member /\ member[m].failures + 1 \in Nat /\ read + 1 \in Nat
    BY <1>0, ReaderFacts
  <2>2. newRow = [member[m] EXCEPT !.failures = member[m].failures + 1, !.streak = read + 1,
                                !.status = status, !.cooling = cooling]
    BY DEF StoredFailure
  <2> HIDE DEF newRow, m, read
  <2> QED BY <2>1, <2>2 DEF Member
<1>3. newRow.failures >= member[m].failures /\ newRow.streak <= newRow.failures
  BY <1>0, <1>2, ReaderFacts
<1> HIDE DEF newRow, m, Member
<1>4. m \in Members BY ReaderFacts DEF m
<1>5. member[m].state = "there" => entry[member[m].group].state = "there"
  BY ReaderFacts DEF m
<1> QED BY <1>0, <1>1, <1>2, <1>3, <1>4, <1>5, MemberReturns DEF newRow

LEMMA CallEndsSafe ==
  ASSUME PInv, NEW c \in PoolCallers, CallEnds(c)
  PROVE  PInv'
<1> QED BY RowsStay, RowsTyped, CallReturns DEF CallEnds

-----------------------------------------------------------------------------

LEMMA PoolInitially == PoolInit => PInv
<1> SUFFICES ASSUME PoolInit PROVE PInv OBVIOUS
<1> USE DEF PoolInit
<1>1. /\ \A e \in Entries : entry[e] = SomeEntry
      /\ \A m \in Members : member[m] = SomeMember
      /\ \A c \in PoolCallers : poolCaller[c] = IdleCall
  OBVIOUS
<1> HIDE DEF SomeEntry, SomeMember, IdleCall, Entry, Member
<1>2. poolCalls \in 0..MaxPoolCalls
  <2>1. poolCalls = 0 OBVIOUS
  <2> QED BY <2>1, ProviderPoolAssumption
<1>3. PoolTypeOK BY <1>2, SomeEntryTyped, SomeMemberTyped, IdleCallTyped DEF PoolTypeOK
<1>4. RowsConsistent
  BY <1>1, SomeEntryTyped, SomeMemberTyped
  DEF RowsConsistent, OneDefaultGroup, MembersHaveGroups, StreakWithinFailures, There,
      MemberThere, Entries
<1>5. CallsApart /\ \A c \in PoolCallers : CallFits(member, poolCaller[c])
  BY <1>1, IdleCallTyped DEF CallsApart, CallsClash, CallFits, ReaderSteps
<1> QED BY <1>3, <1>4, <1>5 DEF PInv

LEMMA PoolSteps == PInv /\ [PoolNext]_poolVars => PInv'
<1> SUFFICES ASSUME PInv, [PoolNext]_poolVars PROVE PInv' OBVIOUS
<1>1. CASE UNCHANGED poolVars
  <2>1. UNCHANGED <<entry, member, poolCaller, poolCalls>> BY <1>1 DEF poolVars
  <2>2. PoolTypeOK' /\ RowsConsistent' BY <2>1, RowsStay DEF PInv, PoolTypeOK
  <2> QED BY <2>1, <2>2 DEF PInv, CallsApart, CallsClash, CallFits
<1>2. CASE PoolNext
  <2>1. ASSUME NEW c \in PoolCallers, NEW e \in Entries, NEW in \in EntryInputs,
               BeginCreateEntry(c, e, in) \/ EnsureConfigProvider(c, e, in)
                 \/ BeginUpdateEntry(c, e, in)
        PROVE  PInv'
    BY <2>1, BeginCreateEntrySafe, BeginUpdateEntrySafe DEF EnsureConfigProvider
  <2>2. ASSUME NEW c \in PoolCallers, NEW e \in Entries, BeginSetDefaultProvider(c, e)
        PROVE  PInv'
    BY <2>2, BeginSetDefaultProviderSafe
  <2>3. ASSUME NEW c \in PoolCallers, NEW m \in Members, NEW in \in MemberInputs,
               BeginCreateMember(c, m, in) \/ BeginUpdateMember(c, m, in)
        PROVE  PInv'
    BY <2>3, BeginCreateMemberSafe, BeginUpdateMemberSafe
  <2>4. ASSUME NEW c \in PoolCallers, NEW p \in Platforms, NEW tags \in RequestTags,
               BeginSelect(c, p, tags)
        PROVE  PInv'
    BY <2>4, BeginSelectSafe
  <2>5. ASSUME NEW c \in PoolCallers,
               \/ ClearDefault(c) \/ CheckDefault(c) \/ InsertEntry(c) \/ CheckMembers(c)
               \/ UpdateEntry(c) \/ EnableDefault(c) \/ InsertMember(c) \/ UpdateMember(c)
        PROVE  PInv'
    BY <2>5, ClearDefaultSafe, CheckDefaultSafe, EntryWritesSafe, CheckMembersSafe,
       InsertMemberSafe, UpdateMemberSafe
  <2>6. ASSUME NEW c \in PoolCallers,
               \/ SelectMember(c) \/ MarkMemberAcquired(c) \/ ReloadMember(c)
               \/ ReleaseMember(c) \/ ReportMemberSuccess(c) \/ ReadFailures(c)
               \/ ReportMemberFailure(c) \/ CallEnds(c)
        PROVE  PInv'
    BY <2>6, SelectMemberSafe, MarkMemberAcquiredSafe, ReloadMemberSafe, MemberReportsSafe,
       ReadFailuresSafe, ReportMemberFailureSafe, CallEndsSafe
  <2>7. ASSUME NEW e \in Entries, DeleteEntry(e) PROVE PInv' BY <2>7, DeleteEntrySafe
  <2>8. ASSUME NEW m \in Members, DeleteMember(m) \/ RecoverMember(m) \/ CooldownEnds(m)
        PROVE  PInv'
    BY <2>8, MemberStepSafe
  <2> HIDE DEF PInv
  <2> QED BY <1>2, <2>1, <2>2, <2>3, <2>4, <2>5, <2>6, <2>7, <2>8 DEF PoolNext
<1> QED BY <1>1, <1>2

\* Whom the preview shows, the selection finds: the two rules for tags agree.
LEMMA PreviewAgrees == PInv => PreviewKeepsItsWord
<1> SUFFICES ASSUME PInv, NEW p \in Platforms, NEW tags \in RequestTags,
                    NEW busy \in SUBSET Members, NEW m \in PreviewMembers(p, tags, busy)
             PROVE  m \in Eligible(p, TaggedGroups(p, tags) \cup FallbackGroups(p), busy)
  BY DEF PreviewKeepsItsWord
<1> DEFINE g == member[m].group
<1>1. /\ m \in Members /\ m \notin busy /\ MemberThere(m) /\ There(g)
      /\ PreviewTakes(g, p, tags) /\ member[m].platform = p /\ member[m].enabled
      /\ member[m].status # "unavailable" /\ ~member[m].cooling
  BY DEF PreviewMembers, PreviewAvailable
<1>2. g \in Considered(p)
  <2>1. g \in Groups BY <1>1, RowsTyped
  <2> QED BY <1>1, <2>1 DEF Considered, PreviewTakes
<1> HIDE DEF g
<1>3. g \in TaggedGroups(p, tags) \cup FallbackGroups(p)
  <2>1. CASE Fallback(g) BY <1>2, <2>1 DEF FallbackGroups
  <2>2. CASE ~Fallback(g)
    <3>1. entry[g].tags # {} BY <2>2 DEF Fallback
    <3>2. MatchesTags(g, tags) /\ tags # {}
      BY <1>1, <2>2, <3>1 DEF PreviewTakes, MatchesTags
    <3> QED BY <1>2, <2>2, <3>2 DEF TaggedGroups
  <2> QED BY <2>1, <2>2
<1> QED BY <1>1, <1>2, <1>3 DEF Eligible, g

THEOREM PoolTypes == PoolSpec => []PoolTypeOK
<1>1. PInv => PoolTypeOK BY DEF PInv
<1> QED BY PoolInitially, PoolSteps, <1>1, PTL DEF PoolSpec

THEOREM PoolIsConsistent == PoolSpec => []PoolConsistent
<1>1. PInv => PoolConsistent BY PreviewAgrees DEF PInv, RowsConsistent, PoolConsistent
<1> QED BY PoolInitially, PoolSteps, <1>1, PTL DEF PoolSpec

-----------------------------------------------------------------------------
(***************************************************************************)
(* The limits hold for any number of jobs, users, providers, requests and  *)
(* executions.  What is counted changes only under the advisory lock: the  *)
(* invariant says who holds it, and that whoever has counted and not yet   *)
(* written still finds room.                                               *)
(***************************************************************************)

UnclaimedOf(u) == {j \in Unclaimed : Owner[j] = u}

\* Who counts holds the lock.
LockHeld ==
  /\ \A j \in Jobs : submit[j] \in {"locked", "counted"} => lock = j
  /\ \A e \in Executions : execution[e].pc \in {"locked", "counted"} => lock = e

\* A job has no row before its submission is over, and no execution before that.
RowsInOrder ==
  /\ \A j \in Jobs : submit[j] # "over" => row[j].status = "none"
  /\ \A e \in Executions :
       execution[e].pc # "none" => /\ row[execution[e].job].claimed
                                   /\ submit[execution[e].job] = "over"

\* Who has counted still has room.
RoomIsLeft ==
  /\ \A j \in Jobs : submit[j] = "counted" =>
       /\ Cardinality(Unclaimed) < MaxQueuedJobs
       /\ Cardinality(UnclaimedOf(Owner[j])) < MaxUserActiveJobs
  /\ \A e \in Executions : execution[e].pc = "counted" =>
       Cardinality(SteadyOn(execution[e].provider) \ {execution[e].job})
         < MaxProviderRunningJobs

CInv == CapacityTypeOK /\ LockHeld /\ RowsInOrder /\ RoomIsLeft /\ WithinCapacity

\* A step that brings no row into what is counted.
Fades ==
  /\ Unclaimed' \subseteq Unclaimed
  /\ \A p \in Providers : SteadyOn(p)' \subseteq SteadyOn(p)

-----------------------------------------------------------------------------

\* What is counted is finite, and counts are numbers.
LEMMA Counts ==
  ASSUME NEW S, S \subseteq Jobs
  PROVE  IsFiniteSet(S) /\ Cardinality(S) \in Nat
<1>1. IsFiniteSet(Jobs) BY JobCapacityAssumption
<1>2. IsFiniteSet(S) BY <1>1, FS_Subset
<1> QED BY <1>2, FS_CardinalityType

\* Fewer jobs count for no more.
LEMMA CountsLess ==
  ASSUME NEW S, NEW T, T \subseteq Jobs, S \subseteq T
  PROVE  /\ Cardinality(S) \in Nat
         /\ Cardinality(T) \in Nat
         /\ Cardinality(S) <= Cardinality(T)
<1>1. IsFiniteSet(T) BY Counts
<1> QED BY <1>1, Counts, FS_Subset

\* One job more counts for at most one more.
LEMMA CountsOneMore ==
  ASSUME NEW S, S \subseteq Jobs, NEW T, NEW j \in Jobs, T \subseteq S \cup {j},
         NEW n \in Nat, Cardinality(S) < n
  PROVE  Cardinality(T) <= n
<1>1. IsFiniteSet(S) /\ Cardinality(S) \in Nat BY Counts
<1>2. /\ IsFiniteSet(S \cup {j})
      /\ Cardinality(S \cup {j}) <= Cardinality(S) + 1
  BY <1>1, FS_AddElement
<1>3. Cardinality(T) <= Cardinality(S \cup {j}) /\ Cardinality(T) \in Nat
      /\ Cardinality(S \cup {j}) \in Nat
  BY CountsLess
<1> QED BY <1>1, <1>2, <1>3

\* The room of the executions, put with the names of the provider and the job.
LEMMA RoomOfExecutions ==
  ASSUME \A j \in Jobs : submit'[j] = "counted" =>
           /\ Cardinality(Unclaimed') < MaxQueuedJobs
           /\ Cardinality(UnclaimedOf(Owner[j])') < MaxUserActiveJobs,
         \A e \in Executions : execution'[e].pc = "counted" =>
           \A p, j : p = execution'[e].provider /\ j = execution'[e].job =>
             Cardinality(SteadyOn(p)' \ {j}) < MaxProviderRunningJobs
  PROVE  RoomIsLeft'
<1>1. ASSUME NEW e \in Executions, (execution[e].pc = "counted")'
      PROVE  (Cardinality(SteadyOn(execution[e].provider) \ {execution[e].job})
               < MaxProviderRunningJobs)'
  <2>1. PICK p : p = execution'[e].provider OBVIOUS
  <2>2. PICK j : j = execution'[e].job OBVIOUS
  <2>3. Cardinality(SteadyOn(p)' \ {j}) < MaxProviderRunningJobs
    BY <1>1, <2>1, <2>2
  <2> QED BY <2>1, <2>2, <2>3 DEF SteadyOn, RunningOn
<1> QED BY <1>1 DEF RoomIsLeft, UnclaimedOf

\* A step that brings nothing into what is counted keeps the limits, and the room
\* of everybody who counted before.
LEMMA FadesKeeps ==
  ASSUME CInv, Fades,
         \A j \in Jobs : submit'[j] = "counted" => submit[j] = "counted",
         \A e \in Executions : execution'[e].pc = "counted" =>
           execution[e] = execution'[e]
  PROVE  RoomIsLeft' /\ WithinCapacity'
<1> USE DEF CInv
<1>1. Unclaimed \subseteq Jobs /\ \A p \in Providers : SteadyOn(p) \subseteq Jobs
  BY DEF Unclaimed, Queued, SteadyOn, RunningOn
<1>2. \A e \in Executions : execution[e].provider \in Providers
  BY DEF CapacityTypeOK, Execution
<1>3. /\ Cardinality(Unclaimed') <= Cardinality(Unclaimed)
      /\ Cardinality(Unclaimed') \in Nat /\ Cardinality(Unclaimed) \in Nat
  BY <1>1, CountsLess DEF Fades
<1>4. ASSUME NEW u
      PROVE  /\ Cardinality(UnclaimedOf(u)') <= Cardinality(UnclaimedOf(u))
             /\ Cardinality(UnclaimedOf(u)') \in Nat /\ Cardinality(UnclaimedOf(u)) \in Nat
  <2>1. UnclaimedOf(u)' \subseteq UnclaimedOf(u) /\ UnclaimedOf(u) \subseteq Jobs
    BY <1>1 DEF Fades, UnclaimedOf
  <2> QED BY <2>1, CountsLess
<1>5. ASSUME NEW p \in Providers, NEW j
      PROVE  /\ Cardinality(SteadyOn(p)' \ {j}) <= Cardinality(SteadyOn(p) \ {j})
             /\ Cardinality(SteadyOn(p)' \ {j}) \in Nat
             /\ Cardinality(SteadyOn(p) \ {j}) \in Nat
  <2>1. SteadyOn(p)' \ {j} \subseteq SteadyOn(p) \ {j} /\ SteadyOn(p) \ {j} \subseteq Jobs
    BY <1>1 DEF Fades
  <2> QED BY <2>1, CountsLess
<1>6. ASSUME NEW p \in Providers
      PROVE  /\ Cardinality(SteadyOn(p)') <= Cardinality(SteadyOn(p))
             /\ Cardinality(SteadyOn(p)') \in Nat /\ Cardinality(SteadyOn(p)) \in Nat
  BY <1>1, CountsLess DEF Fades
<1>7. MaxQueuedJobs \in Nat /\ MaxUserActiveJobs \in Nat /\ MaxProviderRunningJobs \in Nat
      /\ \A j \in Jobs : Owner[j] \in JobOwners
  BY JobCapacityAssumption
<1>8. ASSUME NEW j \in Jobs, submit'[j] = "counted"
      PROVE  /\ Cardinality(Unclaimed') < MaxQueuedJobs
             /\ Cardinality(UnclaimedOf(Owner[j])') < MaxUserActiveJobs
  BY <1>3, <1>4, <1>7, <1>8 DEF RoomIsLeft
<1>9. ASSUME NEW e \in Executions, execution'[e].pc = "counted",
             NEW p, p = execution'[e].provider, NEW j, j = execution'[e].job
      PROVE  Cardinality(SteadyOn(p)' \ {j}) < MaxProviderRunningJobs
  <2>1. execution[e].provider = p /\ execution[e].job = j /\ execution[e].pc = "counted"
    BY <1>9
  <2>2. p \in Providers BY <1>2, <2>1
  <2>3. Cardinality(SteadyOn(p) \ {j}) < MaxProviderRunningJobs BY <2>1 DEF RoomIsLeft
  <2> QED BY <1>5, <1>7, <2>2, <2>3
<1>10. RoomIsLeft' BY <1>8, <1>9, RoomOfExecutions
<1>11. \A u \in JobOwners : Cardinality(UnclaimedOf(u)') <= MaxUserActiveJobs
  <2>1. \A u \in JobOwners : Cardinality(UnclaimedOf(u)) <= MaxUserActiveJobs
    BY DEF WithinCapacity, SubmissionsWithinLimits, UnclaimedOf
  <2> QED BY <1>4, <1>7, <2>1
<1>12. WithinCapacity'
  BY <1>3, <1>6, <1>7, <1>11
     DEF WithinCapacity, SubmissionsWithinLimits, StartsWithinProviderLimit, UnclaimedOf
<1> QED BY <1>10, <1>12

-----------------------------------------------------------------------------

\* With no rows nothing is counted.
THEOREM CapacityBegins == CapacityInit => CInv
<1> SUFFICES ASSUME CapacityInit PROVE CInv OBVIOUS
<1> USE JobCapacityAssumption DEF CapacityInit
<1>1. Unclaimed = {} /\ \A p \in Providers : SteadyOn(p) = {}
  BY DEF Unclaimed, Queued, SteadyOn, RunningOn
<1>2. {j \in Unclaimed : TRUE} = {} /\ \A u : {j \in Unclaimed : Owner[j] = u} = {}
  BY <1>1
<1>3. Cardinality({}) = 0 BY FS_EmptySet
<1>4. WithinCapacity
  <2>1. \A u : Cardinality({j \in Unclaimed : Owner[j] = u}) = 0
    BY <1>2, <1>3
  <2>2. Cardinality(Unclaimed) = 0 /\ \A p \in Providers : Cardinality(SteadyOn(p)) = 0
    BY <1>1, <1>3
  <2>3. MaxQueuedJobs >= 0 /\ MaxUserActiveJobs >= 0 /\ MaxProviderRunningJobs >= 0
    BY JobCapacityAssumption
  <2> HIDE DEF CapacityInit
  <2> QED
    BY <2>1, <2>2, <2>3 DEF WithinCapacity, SubmissionsWithinLimits, StartsWithinProviderLimit
<1>5. CapacityTypeOK
  <2>1. SomeJob \in Jobs /\ SomeProvider \in Providers BY DEF SomeJob, SomeProvider
  <2> QED BY <2>1 DEF CapacityTypeOK, CapacityRow, SubmitPC, Execution
<1> QED BY <1>4, <1>5 DEF CInv, LockHeld, RowsInOrder, RoomIsLeft

-----------------------------------------------------------------------------

\* A row that gets another status is still a row.
LEMMA RowBecomesRow ==
  ASSUME CapacityTypeOK, NEW j \in Jobs, NEW status \in {"queued", "running",
         "cancel_requested", "final"}, RowBecomes(j, status)
  PROVE  row' \in [Jobs -> CapacityRow]
<1>1. [[row[j] EXCEPT !.status = status] EXCEPT !.steady = FALSE] \in CapacityRow
  BY DEF CapacityTypeOK, CapacityRow
<1>2. row' = [row EXCEPT ![j] = [[row[j] EXCEPT !.status = status] EXCEPT !.steady = FALSE]]
  BY DEF RowBecomes, CapacityTypeOK
<1> HIDE DEF CapacityRow
<1> QED BY <1>1, <1>2 DEF CapacityTypeOK

\* A row that is claimed, or starts, is still a row.
LEMMA ChangedRow ==
  ASSUME NEW r \in CapacityRow, NEW p \in Providers
  PROVE  /\ [r EXCEPT !.claimed = TRUE] \in CapacityRow
         /\ [r EXCEPT !.status = "running", !.provider = p, !.steady = TRUE] \in CapacityRow
BY DEF CapacityRow

\* What a count of the running rows leads to.
LEMMA CountOfRunning ==
  ASSUME NEW e \in Executions, CheckProviderRunningCapacity(e)
  PROVE  /\ execution[e].pc = "locked"
         /\ \/ ExecutionGoes(e, "ending") /\ UnlockCapacity
            \/ ExecutionGoes(e, "counted") /\ UNCHANGED lock
         /\ UNCHANGED <<row, submit>>
BY Zenon DEF CheckProviderRunningCapacity

\* The actions keep the types.
LEMMA TypeStep ==
  ASSUME CInv, CapacityNext
  PROVE  CapacityTypeOK'
<1> USE JobCapacityAssumption
    DEF CInv, CapacityTypeOK, CapacityRow, SubmitPC, Execution, LockCapacity,
        UnlockCapacity, SubmitGoes, ExecutionGoes, RowBecomes, Active
<1>1. ASSUME NEW j \in Jobs, BeginSubmit(j)
      PROVE  CapacityTypeOK'
  BY <1>1 DEF BeginSubmit
<1>2. ASSUME NEW j \in Jobs, CheckQueuedCapacity(j)
      PROVE  CapacityTypeOK'
  BY <1>2 DEF CheckQueuedCapacity
<1>3. ASSUME NEW j \in Jobs, AbortSubmit(j)
      PROVE  CapacityTypeOK'
  BY <1>3 DEF AbortSubmit
<1>4. ASSUME NEW j \in Jobs, RequestCancel(j)
      PROVE  CapacityTypeOK'
  <2>1. row' \in [Jobs -> CapacityRow] BY <1>4, RowBecomesRow, Zenon DEF RequestCancel, CInv
  <2> QED BY <1>4, <2>1 DEF RequestCancel
<1>5. ASSUME NEW j \in Jobs, ReconcileStale(j)
      PROVE  CapacityTypeOK'
  <2>1. row' \in [Jobs -> CapacityRow] BY <1>5, RowBecomesRow, Zenon DEF ReconcileStale, CInv
  <2> QED BY <1>5, <2>1 DEF ReconcileStale
<1>6. ASSUME NEW j \in Jobs, NEW p \in Providers, SaveQueued(j, p)
      PROVE  CapacityTypeOK'
  BY <1>6 DEF SaveQueued
<1>7. ASSUME NEW e \in Executions, NEW j \in Jobs, ClaimRow(e, j)
      PROVE  CapacityTypeOK'
  <2>1. row' \in [Jobs -> CapacityRow]
    <3>1. [row[j] EXCEPT !.claimed = TRUE] \in CapacityRow
      <4> HIDE DEF CapacityRow
      <4> QED BY ChangedRow
    <3>2. row' = [row EXCEPT ![j] = [row[j] EXCEPT !.claimed = TRUE]] BY <1>7 DEF ClaimRow
    <3> HIDE DEF CapacityRow
    <3> QED BY <3>1, <3>2
  <2>2. row[j].provider \in Providers OBVIOUS
  <2>3. execution' \in [Executions -> Execution] BY <1>7, <2>2 DEF ClaimRow
  <2> QED BY <1>7, <2>1, <2>3 DEF ClaimRow
<1>8. ASSUME NEW e \in Executions, SaveWaiting(e)
      PROVE  CapacityTypeOK'
  BY <1>8 DEF SaveWaiting, SaveJob
<1>9. ASSUME NEW e \in Executions, BeginStart(e)
      PROVE  CapacityTypeOK'
  BY <1>9 DEF BeginStart
<1>10. ASSUME NEW e \in Executions, CheckProviderRunningCapacity(e)
       PROVE  CapacityTypeOK'
  <2>1. \E pc \in {"ending", "counted"} : execution' = [execution EXCEPT ![e].pc = pc]
    BY <1>10, CountOfRunning
  <2>2. lock' \in {lock, Nothing} /\ row' = row /\ submit' = submit
    BY <1>10, CountOfRunning
  <2>3. execution' \in [Executions -> Execution]
    <3> HIDE DEF LockCapacity
    <3> QED BY <2>1
  <2> QED BY <2>2, <2>3
<1>11. ASSUME NEW e \in Executions, SaveRunning(e)
       PROVE  CapacityTypeOK'
  <2>1. execution[e].job \in Jobs /\ execution[e].provider \in Providers OBVIOUS
  <2> DEFINE j == execution[e].job
             r == [row[j] EXCEPT !.status = "running", !.provider = execution[e].provider,
                                 !.steady = TRUE]
  <2>2. row' \in [Jobs -> CapacityRow]
    <3>1. r \in CapacityRow
      <4> HIDE DEF CapacityRow
      <4> QED BY <2>1, ChangedRow
    <3>2. row' = [row EXCEPT ![j] = r] BY <1>11 DEF SaveRunning
    <3> HIDE DEF CapacityRow, r
    <3> QED BY <2>1, <3>1, <3>2
  <2> QED BY <1>11, <2>2 DEF SaveRunning
<1>12. ASSUME NEW e \in Executions, FinishJob(e)
       PROVE  CapacityTypeOK'
  BY <1>12 DEF FinishJob
<1>13. ASSUME NEW e \in Executions, ExecutionDies(e)
       PROVE  CapacityTypeOK'
  BY <1>13 DEF ExecutionDies
<1>14. ASSUME NEW e \in Executions, NEW p \in Providers, SaveStage(e, p)
       PROVE  CapacityTypeOK'
  BY <1>14 DEF SaveStage, SaveJob
<1> QED
  BY <1>1, <1>2, <1>3, <1>4, <1>5, <1>6, <1>7, <1>8, <1>9, <1>10, <1>11,
     <1>12, <1>13, <1>14 DEF CapacityNext

\* Who counts keeps the lock until it has written.
LEMMA LockStep ==
  ASSUME CInv, CapacityNext
  PROVE  LockHeld'
<1> USE JobCapacityAssumption
    DEF CInv, CapacityTypeOK, SubmitPC, Execution, LockHeld, LockCapacity, UnlockCapacity,
        SubmitGoes, ExecutionGoes
<1>1. ASSUME NEW j \in Jobs, BeginSubmit(j)
      PROVE  LockHeld'
  BY <1>1 DEF BeginSubmit
<1>2. ASSUME NEW j \in Jobs, CheckQueuedCapacity(j)
      PROVE  LockHeld'
  BY <1>2 DEF CheckQueuedCapacity
<1>3. ASSUME NEW j \in Jobs, AbortSubmit(j)
      PROVE  LockHeld'
  BY <1>3 DEF AbortSubmit
<1>4. ASSUME NEW j \in Jobs, RequestCancel(j)
      PROVE  LockHeld'
  BY <1>4 DEF RequestCancel
<1>5. ASSUME NEW j \in Jobs, ReconcileStale(j)
      PROVE  LockHeld'
  BY <1>5 DEF ReconcileStale
<1>6. ASSUME NEW j \in Jobs, NEW p \in Providers, SaveQueued(j, p)
      PROVE  LockHeld'
  BY <1>6 DEF SaveQueued
<1>7. ASSUME NEW e \in Executions, NEW j \in Jobs, ClaimRow(e, j)
      PROVE  LockHeld'
  BY <1>7 DEF ClaimRow
<1>8. ASSUME NEW e \in Executions, SaveWaiting(e)
      PROVE  LockHeld'
  BY <1>8 DEF SaveWaiting, SaveJob
<1>9. ASSUME NEW e \in Executions, BeginStart(e)
      PROVE  LockHeld'
  BY <1>9 DEF BeginStart
<1>10. ASSUME NEW e \in Executions, CheckProviderRunningCapacity(e)
       PROVE  LockHeld'
  BY <1>10, CountOfRunning
<1>11. ASSUME NEW e \in Executions, SaveRunning(e)
       PROVE  LockHeld'
  BY <1>11 DEF SaveRunning
<1>12. ASSUME NEW e \in Executions, FinishJob(e)
       PROVE  LockHeld'
  BY <1>12 DEF FinishJob
<1>13. ASSUME NEW e \in Executions, ExecutionDies(e)
       PROVE  LockHeld'
  BY <1>13 DEF ExecutionDies
<1>14. ASSUME NEW e \in Executions, NEW p \in Providers, SaveStage(e, p)
       PROVE  LockHeld'
  BY <1>14 DEF SaveStage, SaveJob
<1> QED
  BY <1>1, <1>2, <1>3, <1>4, <1>5, <1>6, <1>7, <1>8, <1>9, <1>10, <1>11,
     <1>12, <1>13, <1>14 DEF CapacityNext

\* Rows and executions keep their order.
LEMMA OrderStep ==
  ASSUME CInv, CapacityNext
  PROVE  RowsInOrder'
<1> USE JobCapacityAssumption
    DEF CInv, CapacityTypeOK, CapacityRow, SubmitPC, Execution, RowsInOrder, SubmitGoes,
        ExecutionGoes, RowBecomes, Active
<1>1. ASSUME NEW j \in Jobs, BeginSubmit(j)
      PROVE  RowsInOrder'
  BY <1>1 DEF BeginSubmit
<1>2. ASSUME NEW j \in Jobs, CheckQueuedCapacity(j)
      PROVE  RowsInOrder'
  BY <1>2 DEF CheckQueuedCapacity
<1>3. ASSUME NEW j \in Jobs, AbortSubmit(j)
      PROVE  RowsInOrder'
  BY <1>3 DEF AbortSubmit
<1>4. ASSUME NEW j \in Jobs, RequestCancel(j)
      PROVE  RowsInOrder'
  BY <1>4 DEF RequestCancel
<1>5. ASSUME NEW j \in Jobs, ReconcileStale(j)
      PROVE  RowsInOrder'
  BY <1>5 DEF ReconcileStale
<1>6. ASSUME NEW j \in Jobs, NEW p \in Providers, SaveQueued(j, p)
      PROVE  RowsInOrder'
  BY <1>6 DEF SaveQueued
<1>7. ASSUME NEW e \in Executions, NEW j \in Jobs, ClaimRow(e, j)
      PROVE  RowsInOrder'
  BY <1>7 DEF ClaimRow
<1>8. ASSUME NEW e \in Executions, SaveWaiting(e)
      PROVE  RowsInOrder'
  BY <1>8 DEF SaveWaiting, SaveJob
<1>9. ASSUME NEW e \in Executions, BeginStart(e)
      PROVE  RowsInOrder'
  BY <1>9 DEF BeginStart
<1>10. ASSUME NEW e \in Executions, CheckProviderRunningCapacity(e)
       PROVE  RowsInOrder'
  <2>1. execution[e].pc = "locked" /\ row' = row /\ submit' = submit
    BY <1>10, CountOfRunning
  <2>2. \E pc \in {"ending", "counted"} : execution' = [execution EXCEPT ![e].pc = pc]
    BY <1>10, CountOfRunning
  <2>3. \A x \in Executions : /\ execution'[x].job = execution[x].job
                              /\ execution'[x].pc # "none" => execution[x].pc # "none"
    BY <2>1, <2>2
  <2> QED BY <2>1, <2>3
<1>11. ASSUME NEW e \in Executions, SaveRunning(e)
       PROVE  RowsInOrder'
  BY <1>11 DEF SaveRunning
<1>12. ASSUME NEW e \in Executions, FinishJob(e)
       PROVE  RowsInOrder'
  BY <1>12 DEF FinishJob
<1>13. ASSUME NEW e \in Executions, ExecutionDies(e)
       PROVE  RowsInOrder'
  BY <1>13 DEF ExecutionDies
<1>14. ASSUME NEW e \in Executions, NEW p \in Providers, SaveStage(e, p)
       PROVE  RowsInOrder'
  BY <1>14 DEF SaveStage, SaveJob
<1> QED
  BY <1>1, <1>2, <1>3, <1>4, <1>5, <1>6, <1>7, <1>8, <1>9, <1>10, <1>11,
     <1>12, <1>13, <1>14 DEF CapacityNext

\* The actions that count nothing and bring nothing into what is counted.
LEMMA FadingStep ==
  ASSUME CInv,
         \/ \E j \in Jobs : \/ BeginSubmit(j) \/ AbortSubmit(j) \/ RequestCancel(j)
                           \/ ReconcileStale(j)
         \/ \E e \in Executions, j \in Jobs : ClaimRow(e, j)
         \/ \E e \in Executions : \/ SaveWaiting(e) \/ BeginStart(e) \/ FinishJob(e)
                                  \/ ExecutionDies(e)
         \/ \E e \in Executions, p \in Providers : SaveStage(e, p)
  PROVE  RoomIsLeft' /\ WithinCapacity'
<1> DEFINE Quiet == /\ \A j \in Jobs : submit'[j] = "counted" => submit[j] = "counted"
                    /\ \A e \in Executions : execution'[e].pc = "counted" =>
                         execution[e] = execution'[e]
<1> SUFFICES Fades /\ Quiet BY FadesKeeps
<1>1. Quiet
  BY DEF CInv, CapacityTypeOK, SubmitPC, Execution, SubmitGoes, ExecutionGoes, BeginSubmit,
         AbortSubmit, RequestCancel, ReconcileStale, ClaimRow, SaveWaiting, BeginStart,
         FinishJob, ExecutionDies, SaveStage
<1>2. ASSUME UNCHANGED row PROVE Fades
  BY <1>2 DEF Fades, Unclaimed, Queued, SteadyOn, RunningOn
<1>3. ASSUME NEW j \in Jobs, NEW status \in {"cancel_requested", "final"}, RowBecomes(j, status)
      PROVE  Fades
  BY <1>3 DEF CInv, CapacityTypeOK, CapacityRow, RowBecomes, Fades, Unclaimed, Queued, SteadyOn,
              RunningOn
<1>4. ASSUME NEW e \in Executions, NEW j \in Jobs, ClaimRow(e, j)
      PROVE  Fades
  BY <1>4 DEF CInv, CapacityTypeOK, CapacityRow, ClaimRow, Fades, Unclaimed, Queued, SteadyOn,
              RunningOn
<1>5. ASSUME NEW e \in Executions, execution[e].pc # "none", NEW status, NEW p \in Providers,
             SaveJob(e, status, p)
      PROVE  Fades
  <2> DEFINE j == execution[e].job
             r == [[[row[j] EXCEPT !.status = status] EXCEPT !.provider = p]
                     EXCEPT !.steady = @ /\ status = row[j].status /\ p = row[j].provider]
  <2>1. j \in Jobs /\ row[j].claimed
    BY <1>5 DEF CInv, CapacityTypeOK, Execution, RowsInOrder
  <2>2. row' = row \/ row' = [row EXCEPT ![j] = r]
    BY <1>5 DEF SaveJob, CInv, CapacityTypeOK
  <2>3. /\ r.claimed
        /\ r.steady => row[j].steady /\ r.status = row[j].status /\ r.provider = row[j].provider
    BY <2>1 DEF CInv, CapacityTypeOK, CapacityRow
  <2> HIDE DEF j, r
  <2> QED BY <1>2, <2>1, <2>2, <2>3 DEF CInv, CapacityTypeOK, Fades, Unclaimed, Queued, SteadyOn, RunningOn
<1>6. ASSUME NEW e \in Executions, FinishJob(e)
      PROVE  Fades
  <2>1. execution[e].job \in Jobs BY DEF CInv, CapacityTypeOK, Execution
  <2> QED BY <1>3, <1>6, <2>1 DEF FinishJob
<1>7. ASSUME NEW e \in Executions, SaveWaiting(e)
      PROVE  Fades
  <2>1. execution[e].provider \in Providers BY DEF CInv, CapacityTypeOK, Execution
  <2> QED BY <1>5, <1>7, <2>1 DEF SaveWaiting
<1>8. ASSUME NEW e \in Executions, NEW p \in Providers, SaveStage(e, p)
      PROVE  Fades
  BY <1>5, <1>8 DEF SaveStage
<1>9. Fades
  BY <1>2, <1>3, <1>4, <1>6, <1>7, <1>8
     DEF BeginSubmit, AbortSubmit, RequestCancel, ReconcileStale, BeginStart, ExecutionDies
<1> QED BY <1>1, <1>9

\* A submission that finds room counts under the lock, so nobody else has counted.
LEMMA CountQueuedStep ==
  ASSUME CInv, NEW j \in Jobs, CheckQueuedCapacity(j)
  PROVE  RoomIsLeft' /\ WithinCapacity'
<1>1. UNCHANGED row /\ UNCHANGED execution /\ submit[j] = "locked"
  BY DEF CheckQueuedCapacity
<1>2. WithinCapacity'
  BY <1>1 DEF CInv, WithinCapacity, SubmissionsWithinLimits, StartsWithinProviderLimit, Unclaimed,
              Queued, SteadyOn, RunningOn
<1>3. ASSUME NEW e \in Executions
      PROVE  execution[e].pc # "counted"
  BY <1>1, JobCapacityAssumption DEF CInv, LockHeld
<1>4. ASSUME NEW i \in Jobs, i # j
      PROVE  submit[i] # "counted" /\ submit'[i] = submit[i]
  BY <1>1, <1>4 DEF CInv, LockHeld, CapacityTypeOK, CheckQueuedCapacity, SubmitGoes
<1>5. submit'[j] = "counted" => ~QueueIsFull(j)
  BY DEF CInv, CapacityTypeOK, CheckQueuedCapacity, SubmitGoes
<1>6. ASSUME ~QueueIsFull(j)
      PROVE  /\ Cardinality(Unclaimed) < MaxQueuedJobs
             /\ Cardinality(UnclaimedOf(Owner[j])) < MaxUserActiveJobs
  <2>1. /\ Unclaimed \subseteq Queued /\ Queued \subseteq Jobs
        /\ UnclaimedOf(Owner[j]) \subseteq ActiveOf(Owner[j])
        /\ ActiveOf(Owner[j]) \subseteq Jobs
    BY DEF Unclaimed, Queued, UnclaimedOf, ActiveOf, Active
  <2>2. Cardinality(Unclaimed) \in Nat /\ Cardinality(Queued) \in Nat
        /\ Cardinality(Unclaimed) <= Cardinality(Queued)
    BY <2>1, CountsLess
  <2>3. /\ Cardinality(UnclaimedOf(Owner[j])) \in Nat
        /\ Cardinality(ActiveOf(Owner[j])) \in Nat
        /\ Cardinality(UnclaimedOf(Owner[j])) <= Cardinality(ActiveOf(Owner[j]))
    BY <2>1, CountsLess
  <2>4. MaxQueuedJobs \in Nat /\ MaxUserActiveJobs \in Nat BY JobCapacityAssumption
  <2> QED BY <1>6, <2>2, <2>3, <2>4 DEF QueueIsFull
<1>7. RoomIsLeft'
  <2>1. \A u : UnclaimedOf(u)' = UnclaimedOf(u)
    BY <1>1 DEF UnclaimedOf, Unclaimed, Queued
  <2>2. Unclaimed' = Unclaimed BY <1>1 DEF Unclaimed, Queued
  <2>3. ASSUME NEW i \in Jobs, submit'[i] = "counted"
        PROVE  /\ Cardinality(Unclaimed') < MaxQueuedJobs
               /\ Cardinality(UnclaimedOf(Owner[i])') < MaxUserActiveJobs
    <3>1. i = j BY <1>4, <2>3
    <3> QED BY <1>5, <1>6, <2>1, <2>2, <2>3, <3>1
  <2> QED BY <1>1, <1>3, <2>3 DEF RoomIsLeft
<1> QED BY <1>2, <1>7

\* An execution that finds room, likewise.
LEMMA CountRunningStep ==
  ASSUME CInv, NEW e \in Executions, CheckProviderRunningCapacity(e)
  PROVE  RoomIsLeft' /\ WithinCapacity'
<1>1. row' = row /\ submit' = submit /\ execution[e].pc = "locked"
  BY CountOfRunning
<1>2. WithinCapacity'
  BY <1>1 DEF CInv, WithinCapacity, SubmissionsWithinLimits, StartsWithinProviderLimit, Unclaimed,
              Queued, SteadyOn, RunningOn
<1>3. ASSUME NEW j \in Jobs
      PROVE  submit[j] # "counted"
  BY <1>1, JobCapacityAssumption DEF CInv, LockHeld
<1>4. \E pc \in {"ending", "counted"} : execution' = [execution EXCEPT ![e].pc = pc]
  BY CountOfRunning DEF ExecutionGoes
<1>5. ASSUME NEW x \in Executions, x # e
      PROVE  execution[x].pc # "counted" /\ execution'[x] = execution[x]
  BY <1>1, <1>4, <1>5 DEF CInv, LockHeld, CapacityTypeOK
<1>6. execution'[e].provider = execution[e].provider /\ execution'[e].job = execution[e].job
  BY <1>4 DEF CInv, CapacityTypeOK, Execution
<1>7. ASSUME execution'[e].pc = "counted"
      PROVE  Cardinality(RunningOn(execution[e].provider) \ {execution[e].job})
               < MaxProviderRunningJobs
  <2>1. ~ExecutionGoes(e, "ending")
    BY <1>7 DEF ExecutionGoes, CInv, CapacityTypeOK, Execution
  <2> QED BY <2>1, Zenon DEF CheckProviderRunningCapacity
<1>8. ASSUME NEW p, NEW j
      PROVE  /\ Cardinality(SteadyOn(p) \ {j}) \in Nat
             /\ Cardinality(RunningOn(p) \ {j}) \in Nat
             /\ Cardinality(SteadyOn(p) \ {j}) <= Cardinality(RunningOn(p) \ {j})
  <2>1. SteadyOn(p) \ {j} \subseteq RunningOn(p) \ {j} /\ RunningOn(p) \ {j} \subseteq Jobs
    BY DEF SteadyOn, RunningOn
  <2> QED BY <2>1, CountsLess
<1>9. ASSUME NEW x \in Executions, execution'[x].pc = "counted",
             NEW p, p = execution'[x].provider, NEW j, j = execution'[x].job
      PROVE  Cardinality(SteadyOn(p)' \ {j}) < MaxProviderRunningJobs
  <2>1. x = e BY <1>5, <1>9
  <2>2. Cardinality(RunningOn(p) \ {j}) < MaxProviderRunningJobs BY <1>6, <1>7, <1>9, <2>1
  <2>3. SteadyOn(p)' = SteadyOn(p) BY <1>1 DEF SteadyOn, RunningOn
  <2>4. MaxProviderRunningJobs \in Nat BY JobCapacityAssumption
  <2>5. Cardinality(SteadyOn(p) \ {j}) < MaxProviderRunningJobs
    <3>1. /\ Cardinality(SteadyOn(p) \ {j}) \in Nat
          /\ Cardinality(RunningOn(p) \ {j}) \in Nat
          /\ Cardinality(SteadyOn(p) \ {j}) <= Cardinality(RunningOn(p) \ {j})
      BY <1>8
    <3> QED BY <2>2, <2>4, <3>1
  <2> QED BY <2>3, <2>5
<1>10. RoomIsLeft' BY <1>1, <1>3, <1>9, RoomOfExecutions
<1> QED BY <1>2, <1>10

\* The insert brings one job more into the queue, for which there was room.
LEMMA InsertStep ==
  ASSUME CInv, NEW j \in Jobs, NEW p \in Providers, SaveQueued(j, p)
  PROVE  RoomIsLeft' /\ WithinCapacity'
<1> DEFINE new == [status |-> "queued", provider |-> p, claimed |-> FALSE, steady |-> FALSE]
<1>1. /\ submit[j] = "counted" /\ execution' = execution
      /\ row' = [row EXCEPT ![j] = new] /\ submit' = [submit EXCEPT ![j] = "over"]
  BY DEF SaveQueued, SubmitGoes
<1>2. ASSUME NEW i \in Jobs PROVE submit'[i] # "counted"
  BY <1>1, <1>2 DEF CInv, LockHeld, CapacityTypeOK
<1>3. ASSUME NEW e \in Executions PROVE execution'[e].pc # "counted"
  BY <1>1, JobCapacityAssumption DEF CInv, LockHeld
<1>4. RoomIsLeft' BY <1>2, <1>3, RoomOfExecutions
<1>5. Unclaimed' \subseteq Unclaimed \cup {j} /\ Unclaimed \subseteq Jobs
  BY <1>1 DEF CInv, CapacityTypeOK, Unclaimed, Queued
<1>6. Cardinality(Unclaimed) < MaxQueuedJobs
      /\ Cardinality(UnclaimedOf(Owner[j])) < MaxUserActiveJobs
  BY <1>1 DEF CInv, RoomIsLeft
<1>7. MaxQueuedJobs \in Nat /\ MaxUserActiveJobs \in Nat /\ MaxProviderRunningJobs \in Nat
  BY JobCapacityAssumption
<1>8. Cardinality(Unclaimed') <= MaxQueuedJobs
  BY <1>5, <1>6, <1>7, CountsOneMore
<1>9. ASSUME NEW u \in JobOwners
      PROVE  Cardinality({i \in Unclaimed' : Owner[i] = u}) <= MaxUserActiveJobs
  <2>1. {i \in Unclaimed' : Owner[i] = u} \subseteq UnclaimedOf(u) \cup {j}
        /\ UnclaimedOf(u) \subseteq Jobs
    BY <1>5 DEF UnclaimedOf
  <2>2. CASE Owner[j] = u
    BY <1>6, <1>7, <2>1, <2>2, CountsOneMore
  <2>3. CASE Owner[j] # u
    <3>1. {i \in Unclaimed' : Owner[i] = u} \subseteq UnclaimedOf(u)
      BY <2>1, <2>3
    <3>2. Cardinality(UnclaimedOf(u)) <= MaxUserActiveJobs
      BY DEF CInv, WithinCapacity, SubmissionsWithinLimits, UnclaimedOf
    <3>3. /\ Cardinality({i \in Unclaimed' : Owner[i] = u}) <= Cardinality(UnclaimedOf(u))
          /\ Cardinality({i \in Unclaimed' : Owner[i] = u}) \in Nat
          /\ Cardinality(UnclaimedOf(u)) \in Nat
      BY <2>1, <3>1, CountsLess
    <3> QED BY <1>7, <3>2, <3>3
  <2> QED BY <2>2, <2>3
<1>10. ASSUME NEW q \in Providers
       PROVE  Cardinality(SteadyOn(q)') <= MaxProviderRunningJobs
  <2>1. SteadyOn(q)' \subseteq SteadyOn(q) /\ SteadyOn(q) \subseteq Jobs
    BY <1>1 DEF CInv, CapacityTypeOK, SteadyOn, RunningOn
  <2>2. Cardinality(SteadyOn(q)) <= MaxProviderRunningJobs
    BY DEF CInv, WithinCapacity, StartsWithinProviderLimit
  <2>3. /\ Cardinality(SteadyOn(q)') <= Cardinality(SteadyOn(q))
        /\ Cardinality(SteadyOn(q)') \in Nat /\ Cardinality(SteadyOn(q)) \in Nat
    BY <2>1, CountsLess
  <2> QED BY <1>7, <2>2, <2>3
<1>11. WithinCapacity'
  BY <1>8, <1>9, <1>10 DEF WithinCapacity, SubmissionsWithinLimits, StartsWithinProviderLimit
<1> QED BY <1>4, <1>11

\* The start brings one job more onto its provider, for which there was room, and
\* none anywhere else.
LEMMA StartStep ==
  ASSUME CInv, NEW e \in Executions, SaveRunning(e)
  PROVE  RoomIsLeft' /\ WithinCapacity'
<1>0. PICK j \in Jobs, p \in Providers : j = execution[e].job /\ p = execution[e].provider
  BY DEF CInv, CapacityTypeOK, Execution
<1> DEFINE new == [row[j] EXCEPT !.status = "running", !.provider = p, !.steady = TRUE]
<1>1. /\ execution[e].pc = "counted" /\ row' = [row EXCEPT ![j] = new] /\ submit' = submit
      /\ execution' = [execution EXCEPT ![e].pc = "running"]
  BY <1>0 DEF SaveRunning, ExecutionGoes
<1>2. /\ j \in Jobs /\ p \in Providers
      /\ new.status = "running" /\ new.provider = p /\ new.claimed = row[j].claimed
  BY <1>0 DEF CInv, CapacityTypeOK, Execution, CapacityRow
<1>3. Cardinality(SteadyOn(p) \ {j}) < MaxProviderRunningJobs
  BY <1>0, <1>1 DEF CInv, RoomIsLeft
<1> HIDE DEF new
<1>4. ASSUME NEW i \in Jobs PROVE submit'[i] # "counted"
  BY <1>1, JobCapacityAssumption DEF CInv, LockHeld
<1>5. ASSUME NEW x \in Executions PROVE execution'[x].pc # "counted"
  BY <1>1 DEF CInv, LockHeld, CapacityTypeOK, Execution
<1>6. RoomIsLeft' BY <1>4, <1>5, RoomOfExecutions
<1>7. /\ Unclaimed' \subseteq Unclaimed /\ Unclaimed \subseteq Jobs
      /\ \A q : SteadyOn(q)' \subseteq Jobs /\ SteadyOn(q) \subseteq Jobs
      /\ \A q : q # p => SteadyOn(q)' \subseteq SteadyOn(q)
      /\ SteadyOn(p)' \subseteq (SteadyOn(p) \ {j}) \cup {j}
  <2>1. row'[j] = new /\ \A i \in Jobs \ {j} : row'[i] = row[i]
    BY <1>1, <1>2 DEF CInv, CapacityTypeOK
  <2>2. Unclaimed' \subseteq Unclaimed /\ Unclaimed \subseteq Jobs
    BY <1>2, <2>1 DEF Unclaimed, Queued
  <2>3. \A q : SteadyOn(q)' \subseteq Jobs /\ SteadyOn(q) \subseteq Jobs
    BY DEF SteadyOn, RunningOn
  <2>4. ASSUME NEW q, q # p PROVE SteadyOn(q)' \subseteq SteadyOn(q)
    BY <1>2, <2>1, <2>4 DEF SteadyOn, RunningOn
  <2>5. SteadyOn(p)' \subseteq (SteadyOn(p) \ {j}) \cup {j}
    BY <2>1 DEF SteadyOn, RunningOn
  <2> QED BY <2>2, <2>3, <2>4, <2>5
<1>8. MaxQueuedJobs \in Nat /\ MaxUserActiveJobs \in Nat /\ MaxProviderRunningJobs \in Nat
  BY JobCapacityAssumption
<1>9. Cardinality(Unclaimed') <= MaxQueuedJobs
  <2>1. Cardinality(Unclaimed) <= MaxQueuedJobs
    BY DEF CInv, WithinCapacity, SubmissionsWithinLimits
  <2>2. /\ Cardinality(Unclaimed') <= Cardinality(Unclaimed)
        /\ Cardinality(Unclaimed') \in Nat /\ Cardinality(Unclaimed) \in Nat
    BY <1>7, CountsLess
  <2> QED BY <1>8, <2>1, <2>2
<1>10. ASSUME NEW u \in JobOwners
       PROVE  Cardinality({i \in Unclaimed' : Owner[i] = u}) <= MaxUserActiveJobs
  <2>1. {i \in Unclaimed' : Owner[i] = u} \subseteq UnclaimedOf(u) /\ UnclaimedOf(u) \subseteq Jobs
    BY <1>7 DEF UnclaimedOf
  <2>2. Cardinality(UnclaimedOf(u)) <= MaxUserActiveJobs
    BY DEF CInv, WithinCapacity, SubmissionsWithinLimits, UnclaimedOf
  <2>3. /\ Cardinality({i \in Unclaimed' : Owner[i] = u}) <= Cardinality(UnclaimedOf(u))
        /\ Cardinality({i \in Unclaimed' : Owner[i] = u}) \in Nat
        /\ Cardinality(UnclaimedOf(u)) \in Nat
    BY <2>1, CountsLess
  <2> QED BY <1>8, <2>2, <2>3
<1>11. ASSUME NEW q \in Providers
       PROVE  Cardinality(SteadyOn(q)') <= MaxProviderRunningJobs
  <2>1. CASE q = p
    <3>1. SteadyOn(p) \ {j} \subseteq Jobs BY <1>7
    <3>2. SteadyOn(q)' \subseteq (SteadyOn(p) \ {j}) \cup {j} BY <1>7, <2>1
    <3> QED BY <1>2, <1>3, <1>8, <3>1, <3>2, CountsOneMore
  <2>2. CASE q # p
    <3>1. Cardinality(SteadyOn(q)) <= MaxProviderRunningJobs
      BY DEF CInv, WithinCapacity, StartsWithinProviderLimit
    <3>2. /\ Cardinality(SteadyOn(q)') <= Cardinality(SteadyOn(q))
          /\ Cardinality(SteadyOn(q)') \in Nat /\ Cardinality(SteadyOn(q)) \in Nat
      BY <1>7, <2>2, CountsLess
    <3> QED BY <1>8, <3>1, <3>2
  <2> QED BY <2>1, <2>2
<1>12. WithinCapacity'
  BY <1>9, <1>10, <1>11 DEF WithinCapacity, SubmissionsWithinLimits, StartsWithinProviderLimit
<1> QED BY <1>6, <1>12

-----------------------------------------------------------------------------

\* Every step keeps the invariant.
THEOREM CapacityContinues == CInv /\ [CapacityNext]_capacityVars => CInv'
<1> SUFFICES ASSUME CInv, [CapacityNext]_capacityVars PROVE CInv' OBVIOUS
<1>1. CASE CapacityNext
  <2>1. CapacityTypeOK' /\ LockHeld' /\ RowsInOrder'
    BY <1>1, TypeStep, LockStep, OrderStep
  <2>2. RoomIsLeft' /\ WithinCapacity'
    BY <1>1, FadingStep, CountQueuedStep, CountRunningStep, InsertStep, StartStep DEF CapacityNext
  <2> QED BY <2>1, <2>2 DEF CInv
<1>2. CASE UNCHANGED capacityVars
  BY <1>2 DEF capacityVars, CInv, CapacityTypeOK, LockHeld, RowsInOrder, RoomIsLeft, WithinCapacity,
              SubmissionsWithinLimits, StartsWithinProviderLimit, UnclaimedOf, Unclaimed, Queued,
              SteadyOn, RunningOn
<1> QED BY <1>1, <1>2

\* Rows, lock, submissions and executions keep their types.
THEOREM CapacityTypes == CapacitySpec => []CapacityTypeOK
<1>1. CInv => CapacityTypeOK BY DEF CInv
<1> QED BY <1>1, CapacityBegins, CapacityContinues, PTL DEF CapacitySpec

\* However many submissions and starts overlap, none passes the limit that it has
\* counted for.
THEOREM LimitsHold == CapacitySpec => []WithinCapacity
<1>1. CInv => WithinCapacity BY DEF CInv
<1> QED BY <1>1, CapacityBegins, CapacityContinues, PTL DEF CapacitySpec

=============================================================================
