---------------------------- MODULE Registration ----------------------------
(***************************************************************************)
(* How accounts come to be, and what codes and referrals grant: the        *)
(* verification of an address, the transaction that inserts the user with  *)
(* its default credits, the use of a registration code and the referral,   *)
(* the redemption of codes, and their administration.                      *)
(*                                                                         *)
(* A step is a statement; what a transaction writes is seen when it        *)
(* commits.  A user is named by the address.  What an addition does to a   *)
(* wallet is the subject of CreditStore: here it is an entry of the ledger.*)
(***************************************************************************)
EXTENDS Integers, FiniteSets

CONSTANTS
  Emails, Codes,
  Purposes,         \* "registration", "password_reset"
  CodeType,         \* "invite", "promo" or "redeem"
  CodeRequired,     \* what requests see of settings.user.registrationCodeRequired
  MaxUses,          \* bound: what administrators set max_uses to
  MaxCodeAttempts,  \* 5
  MaxSent,          \* bound: codes that are sent to one address for one purpose
  Visits,           \* bound: requests that go on at one time
  MaxRequests,      \* bound
  NoUser, NoCode

ASSUME RegistrationAssumption ==
  /\ CodeType \in [Codes -> {"invite", "promo", "redeem"}]
  /\ Purposes = {"registration", "password_reset"}
  /\ CodeRequired \subseteq BOOLEAN /\ MaxUses \subseteq Nat \ {0} /\ MaxUses # {}
  /\ MaxCodeAttempts \in Nat \ {0} /\ MaxRequests \in Nat /\ MaxSent \in Nat
  /\ NoUser \notin Emails /\ NoCode \notin Codes
  /\ IsFiniteSet(Emails) /\ Emails # {} /\ IsFiniteSet(Codes) /\ IsFiniteSet(Visits)

VARIABLES
  verification,  \* email_verification_codes
  registered,    \* the users
  code,          \* business_codes
  usage,         \* business_code_usages: <<user, code>>
  profile,       \* users with a row in business_affiliate_profiles
  referral,      \* business_affiliate_referrals: who referred a user
  granted,       \* entries of the credit ledger, counted
  visit,
  requestCount

registrationVars == <<verification, registered, code, usage, profile, referral, granted,
                      visit, requestCount>>

tables == <<verification, registered, code, usage, profile, referral, granted>>

\* peak: history; the largest max_uses the code has had
CodeRow == [state: {"there", "gone"}, active: BOOLEAN, max: MaxUses, used: Nat, peak: MaxUses]

\* An entry for the default credits of a user, for the user's use of a code, or
\* for the referrer of the user.
Grants == ({"default", "reward"} \X Emails \X {NoCode}) \cup ({"code"} \X Emails \X Codes)

\* The codes sent to an address for a purpose, in the order of their creation; one
\* that is over has been consumed or has expired.
SentCodes == Emails \X Purposes \X (1..MaxSent)
SentCode == [state: {"unused", "live", "over"}, attempts: Nat]

\* sent: the row the request has read
Visit == [pc: {"idle", "read", "attempt", "consume", "insert", "code", "bind",
                 "reward", "wallet", "commit"},
            purpose: Purposes \cup {"redeem"}, email: Emails, code: Codes \cup {NoCode},
            referrer: Emails \cup {NoUser}, right: BOOLEAN, sent: 0..MaxSent]

IdleVisit == [pc |-> "idle", purpose |-> "redeem", email |-> CHOOSE e \in Emails : TRUE,
                code |-> NoCode, referrer |-> NoUser, right |-> TRUE, sent |-> 0]

RequestBegins(r, begun) ==
  /\ visit[r].pc = "idle"
  /\ requestCount < MaxRequests
  /\ requestCount' = requestCount + 1
  /\ visit' = [visit EXCEPT ![r] = begun]

OneStepRequest ==
  /\ requestCount < MaxRequests
  /\ requestCount' = requestCount + 1
  /\ UNCHANGED visit

VisitGoes(r, pc) ==
  visit' = [visit EXCEPT ![r] = IF pc = "idle" THEN IdleVisit ELSE [@ EXCEPT !.pc = pc]]
  /\ UNCHANGED requestCount

-----------------------------------------------------------------------------
(* Addresses.                                                              *)

\* CreateEmailVerificationCode, which leaves the earlier codes as they are.  The cooldown
\* of a minute only makes it rarer.
SendVerificationCode(e, purpose, n) ==
  /\ purpose = "registration" <=> e \notin registered
  /\ verification[<<e, purpose, n>>].state = "unused"
  /\ \A m \in 1..(n - 1) : verification[<<e, purpose, m>>].state # "unused"
  /\ verification' = [verification EXCEPT ![<<e, purpose, n>>] = [state |-> "live", attempts |-> 0]]
  /\ OneStepRequest
  /\ UNCHANGED <<registered, code, usage, profile, referral, granted>>

SentTo(r, n) == <<visit[r].email, visit[r].purpose, n>>
SentRead(r) == SentTo(r, visit[r].sent)

IsLatest(r, n) ==
  /\ verification[SentTo(r, n)].state = "live"
  /\ \A m \in (n + 1)..MaxSent : verification[SentTo(r, m)].state # "live"

\* ConsumeEmailVerificationCode reads the latest row that is not consumed; one
\* that has expired it consumes ...
ReadVerification(r) ==
  /\ visit[r].pc = "read"
  /\ \/ /\ \A n \in 1..MaxSent : verification[SentTo(r, n)].state # "live"
        /\ VisitGoes(r, "idle")
        /\ UNCHANGED verification
     \/ \E n \in 1..MaxSent :
          /\ IsLatest(r, n)
          /\ \/ /\ verification' = [verification EXCEPT ![SentTo(r, n)].state = "over"]
                /\ VisitGoes(r, "idle")
             \/ /\ verification[SentTo(r, n)].attempts >= MaxCodeAttempts
                /\ VisitGoes(r, "idle")
                /\ UNCHANGED verification
             \/ /\ verification[SentTo(r, n)].attempts < MaxCodeAttempts
                /\ visit' = [visit EXCEPT
                     ![r].pc = IF visit[r].right THEN "consume" ELSE "attempt", ![r].sent = n]
                /\ UNCHANGED <<verification, requestCount>>
  /\ UNCHANGED <<registered, code, usage, profile, referral, granted>>

\* ... and then counts a wrong code, or consumes the row.  Whether somebody
\* else has consumed it in the meantime makes no difference.
CountAttempt(r) ==
  /\ visit[r].pc = "attempt"
  /\ verification' = [verification EXCEPT ![SentRead(r)].attempts = @ + 1]
  /\ VisitGoes(r, "idle")
  /\ UNCHANGED <<registered, code, usage, profile, referral, granted>>

\* The password that a reset then sets is in Users.
ConsumeVerification(r) ==
  /\ visit[r].pc = "consume"
  /\ verification' = [verification EXCEPT ![SentRead(r)].state = "over"]
  /\ VisitGoes(r, IF visit[r].purpose = "registration" THEN "insert" ELSE "idle")
  /\ UNCHANGED <<registered, code, usage, profile, referral, granted>>

\* handleResetPasswordByEmailVerification
BeginPasswordReset(r, e, right) ==
  /\ e \in registered
  /\ RequestBegins(r, [IdleVisit EXCEPT !.pc = "read", !.purpose = "password_reset",
                                          !.email = e, !.right = right])
  /\ UNCHANGED tables

-----------------------------------------------------------------------------
(* Codes.                                                                  *)

\* validateUsableCode.  When a code starts and expires is part of active.
UsableCode(c) == code[c].state = "there" /\ code[c].active /\ code[c].used < code[c].max

ForRegistration(c) == CodeType[c] \in {"invite", "promo"}

\* A code of type invite grants nothing.
GrantsCredits(c) == CodeType[c] # "invite"

InTransaction(r) == visit[r].pc \in {"code", "bind", "reward", "wallet", "commit"}

\* Row locks: codeByHashForUpdate, and the balances of AddWithTx.
LocksCode(r, c) ==
  visit[r].code = c /\ visit[r].pc \in {"bind", "reward", "wallet", "commit"}

LocksWallet(r, e) ==
  /\ visit[r].pc = "commit"
  /\ e = IF visit[r].purpose = "redeem" THEN visit[r].email ELSE visit[r].referrer

\* (Variation: the row is read without FOR UPDATE.)
AnyCode(c) == TRUE

CodeIsFree(c) == \A r \in Visits : ~LocksCode(r, c)

\* consumeWithTx: the row is locked, checked again, and the use is recorded.
NextAfterCode(r) == IF visit[r].purpose = "redeem" THEN "wallet" ELSE "bind"

ConsumeCode(r) ==
  LET c == visit[r].code
      e == visit[r].email
      right == ForRegistration(c) = (visit[r].purpose = "registration")
  IN  /\ visit[r].pc = "code"
      /\ CodeIsFree(c)
      /\ VisitGoes(r, IF UsableCode(c) /\ right /\ <<e, c>> \notin usage
                        THEN NextAfterCode(r) ELSE "idle")
      /\ UNCHANGED tables

\* handleRedeemBusinessCode
BeginRedeem(r, e, c) ==
  /\ e \in registered
  /\ RequestBegins(r, [IdleVisit EXCEPT !.pc = "code", !.email = e, !.code = c])
  /\ UNCHANGED tables

LockOwnWallet(r) ==
  /\ visit[r].pc = "wallet"
  /\ \A s \in Visits : ~LocksWallet(s, visit[r].email)
  /\ VisitGoes(r, "commit")
  /\ UNCHANGED tables

\* Update and UpdateStatusBatch; they wait for the lock of the row.
UpdateCode(c, max, active) ==
  /\ code[c].state = "there" /\ CodeIsFree(c)
  /\ code' = [code EXCEPT ![c].max = max, ![c].active = active,
                          ![c].peak = IF max > @ THEN max ELSE @]
  /\ OneStepRequest
  /\ UNCHANGED <<verification, registered, usage, profile, referral, granted>>

\* Delete; the uses go with the code.
DeleteCode(c) ==
  /\ code[c].state = "there" /\ CodeIsFree(c)
  /\ code' = [code EXCEPT ![c].state = "gone"]
  /\ usage' = {u \in usage : u[2] # c}
  /\ OneStepRequest
  /\ UNCHANGED <<verification, registered, profile, referral, granted>>

-----------------------------------------------------------------------------
(* handleRegisterBusinessUser.                                             *)

\* ValidateRegistrationCode looks at the code without a lock; a code that is not
\* required is ignored.  Referrals and their reward are switched on.
BeginRegister(r, e, c, referrer, right) ==
  /\ \E required \in CodeRequired :
       IF required THEN c # NoCode /\ UsableCode(c) /\ ForRegistration(c) ELSE c = NoCode
  /\ RequestBegins(r, [pc |-> "read", purpose |-> "registration", email |-> e, code |-> c,
                       referrer |-> referrer, right |-> right, sent |-> 0])
  /\ UNCHANGED tables

\* A look whether the address is taken comes first, but what decides is the
\* unique index: an insert waits for a transaction that has inserted the same
\* address, and fails once that one has committed.
InsertUser(r) ==
  LET e == visit[r].email
  IN  /\ visit[r].pc = "insert"
      /\ \A s \in Visits : InTransaction(s) /\ visit[s].email = e =>
                           visit[s].purpose # "registration"
      /\ VisitGoes(r, IF e \in registered THEN "idle" ELSE IF visit[r].code # NoCode THEN "code" ELSE "bind")
      /\ UNCHANGED tables

\* BindAffiliateReferralWithTx: an unknown code of a referrer is ignored.
BindReferral(r) ==
  /\ visit[r].pc = "bind"
  /\ \/ /\ visit[r].referrer \in profile \ {visit[r].email}
        /\ VisitGoes(r, "reward")
     \/ /\ visit[r].referrer \notin profile \ {visit[r].email}
        /\ visit' = [visit EXCEPT ![r].pc = "commit", ![r].referrer = NoUser]
        /\ UNCHANGED requestCount
  /\ UNCHANGED tables

\* The addition to the referrer's wallet waits for its lock.
LockReferrerWallet(r) ==
  /\ visit[r].pc = "reward"
  /\ \A s \in Visits : ~LocksWallet(s, visit[r].referrer)
  /\ VisitGoes(r, "commit")
  /\ UNCHANGED tables

\* What the transaction has written: the user, the default credits, the use of
\* the code and its credits, the referral and its reward.
GrantsOf(req) ==
  (IF req.purpose = "registration" THEN {<<"default", req.email, NoCode>>} ELSE {})
  \cup (IF req.code # NoCode /\ GrantsCredits(req.code)
        THEN {<<"code", req.email, req.code>>} ELSE {})
  \cup (IF req.referrer # NoUser THEN {<<"reward", req.email, NoCode>>} ELSE {})

CommitRequest(r) ==
  LET req == visit[r]
  IN  /\ req.pc = "commit"
      /\ registered' = IF req.purpose = "registration" THEN registered \cup {req.email} ELSE registered
      /\ code' = IF req.code = NoCode THEN code ELSE [code EXCEPT ![req.code].used = @ + 1]
      /\ usage' = IF req.code = NoCode THEN usage ELSE usage \cup {<<req.email, req.code>>}
      /\ referral' = IF req.referrer = NoUser THEN referral
                     ELSE [referral EXCEPT ![req.email] = req.referrer]
      /\ granted' = [g \in Grants |-> granted[g] + IF g \in GrantsOf(req) THEN 1 ELSE 0]
      /\ VisitGoes(r, "idle")
      /\ UNCHANGED <<verification, profile>>

\* EnsureAffiliateProfile; of two inserts the second does nothing.
EnsureAffiliateProfile(e) ==
  /\ e \in registered
  /\ profile' = profile \cup {e}
  /\ OneStepRequest
  /\ UNCHANGED <<verification, registered, code, usage, referral, granted>>

\* The process dies or the request is cancelled: its transaction is rolled back.
RequestAborts(r) ==
  /\ visit[r].pc # "idle"
  /\ VisitGoes(r, "idle")
  /\ UNCHANGED tables

-----------------------------------------------------------------------------

RegistrationInit ==
  /\ verification = [v \in SentCodes |-> [state |-> "unused", attempts |-> 0]]
  /\ registered \in SUBSET Emails  \* earlier registrations, all with a profile
  /\ \E max \in MaxUses :
       code = [c \in Codes |-> [state |-> "there", active |-> TRUE, max |-> max,
                                used |-> 0, peak |-> max]]
  /\ usage = {}
  /\ profile = registered
  /\ referral = [e \in Emails |-> NoUser]
  /\ granted = [g \in Grants |-> IF g[1] = "default" /\ g[2] \in registered THEN 1 ELSE 0]
  /\ visit = [r \in Visits |-> IdleVisit]
  /\ requestCount = 0

RegistrationNext ==
  \/ \E e \in Emails, p \in Purposes, n \in 1..MaxSent : SendVerificationCode(e, p, n)
  \/ \E e \in Emails : EnsureAffiliateProfile(e)
  \/ \E c \in Codes, max \in MaxUses, active \in BOOLEAN : UpdateCode(c, max, active)
  \/ \E c \in Codes : DeleteCode(c)
  \/ \E r \in Visits, e \in Emails, right \in BOOLEAN :
       \/ BeginPasswordReset(r, e, right)
       \/ \E c \in Codes \cup {NoCode}, referrer \in Emails \cup {NoUser} :
            BeginRegister(r, e, c, referrer, right)
  \/ \E r \in Visits, e \in Emails, c \in Codes : BeginRedeem(r, e, c)
  \/ \E r \in Visits :
       \/ ReadVerification(r) \/ CountAttempt(r) \/ ConsumeVerification(r)
       \/ InsertUser(r) \/ ConsumeCode(r) \/ BindReferral(r)
       \/ LockReferrerWallet(r) \/ LockOwnWallet(r) \/ CommitRequest(r) \/ RequestAborts(r)

RegistrationSpec == RegistrationInit /\ [][RegistrationNext]_registrationVars

-----------------------------------------------------------------------------

RegistrationTypeOK ==
  /\ verification \in [SentCodes -> SentCode]
  /\ registered \subseteq Emails
  /\ code \in [Codes -> CodeRow]
  /\ usage \subseteq Emails \X Codes
  /\ profile \subseteq Emails
  /\ referral \in [Emails -> Emails \cup {NoUser}]
  /\ granted \in [Grants -> Nat]
  /\ visit \in [Visits -> Visit]
  /\ requestCount \in 0..MaxRequests

\* Requests that race for the last use of a code never use it more often than
\* it ever allowed, and the count of its uses is the number of its users.
CodesAreNotOverused ==
  \A c \in Codes : code[c].state = "there" =>
    /\ code[c].used <= code[c].peak
    /\ code[c].used = Cardinality({e \in Emails : <<e, c>> \in usage})

\* Whatever fails, races or dies on the way: a user who is registered has got
\* the default credits once, a use of a code its credits once, a referral its
\* reward once, and nobody else has got anything.
GrantsMatch ==
  \A e \in Emails :
    /\ granted[<<"default", e, NoCode>>] = IF e \in registered THEN 1 ELSE 0
    /\ granted[<<"reward", e, NoCode>>] = IF referral[e] # NoUser THEN 1 ELSE 0
    /\ \A c \in Codes : code[c].state = "there" =>
         granted[<<"code", e, c>>] = IF <<e, c>> \in usage /\ GrantsCredits(c) THEN 1 ELSE 0
    /\ e \notin registered => referral[e] = NoUser /\ \A c \in Codes : <<e, c>> \notin usage

\* Requests that guess at the same time pass the limit of attempts at one code by no
\* more than their number.
AttemptsAreBounded ==
  \A v \in SentCodes : verification[v].attempts < MaxCodeAttempts + Cardinality(Visits)

RegistrationConsistent == CodesAreNotOverused /\ GrantsMatch /\ AttemptsAreBounded

=============================================================================
