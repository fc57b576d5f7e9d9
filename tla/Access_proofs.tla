---------------------------- MODULE Access_proofs ----------------------------
(***************************************************************************)
(* Registration, users and keys, for any number of each and of requests.   *)
(* In all three a handler reads and then writes; the invariants say what   *)
(* it still may rely on in between: the row lock of a code and the unique  *)
(* index for a registration, a count that is in flight for a guess, an     *)
(* update in hand for a key.                                               *)
(***************************************************************************)
EXTENDS Access, TLAPS, FiniteSetTheorems

-----------------------------------------------------------------------------
(* Registration.                                                           *)

TransactionSteps == {"code", "bind", "reward", "wallet", "commit"}
LockingSteps == {"bind", "reward", "wallet", "commit"}

\* A request is at the steps its purpose has, and at a row of those sent.
PurposeFits(v) ==
  /\ v.pc \in {"attempt", "consume"} => v.sent \in 1..MaxSent
  /\ v.pc \in {"read", "attempt", "consume"} => v.purpose # "redeem"
  /\ v.pc \in {"insert", "bind", "reward"} => v.purpose = "registration"
  /\ v.pc \in {"code", "commit"} => v.purpose # "password_reset"
  /\ v.pc = "wallet" => v.purpose = "redeem"
  /\ v.pc = "code" => v.code # NoCode
  /\ v.pc \in {"code", "wallet", "commit"} /\ v.purpose = "redeem" =>
       v.code # NoCode /\ v.referrer = NoUser

\* A user who is inserted is new; who redeems a code is a user.
UserFits(v) ==
  /\ v.pc \in TransactionSteps /\ v.purpose = "registration" => v.email \notin registered
  /\ v.pc \in {"code", "wallet", "commit"} /\ v.purpose = "redeem" => v.email \in registered

\* A code that is locked can still be used, once more and by this user.
CodeFits(v) ==
  v.pc \in LockingSteps /\ v.code # NoCode =>
    /\ code[v.code].state = "there"
    /\ code[v.code].used < code[v.code].max
    /\ <<v.email, v.code>> \notin usage

VisitsFit == \A r \in Visits : PurposeFits(visit[r]) /\ UserFits(visit[r]) /\ CodeFits(visit[r])

\* What two requests cannot both have: the row of a code, and an address in the
\* unique index.
LocksClash(v, w) ==
  \/ v.code \in Codes /\ v.code = w.code /\ v.pc \in LockingSteps /\ w.pc \in LockingSteps
  \/ /\ v.email = w.email /\ v.purpose = "registration" /\ w.purpose = "registration"
     /\ v.pc \in TransactionSteps /\ w.pc \in TransactionSteps

VisitsApart == \A r, s \in Visits : r # s => ~LocksClash(visit[r], visit[s])

PeaksHold == \A c \in Codes : code[c].max <= code[c].peak

RowsFit == PeaksHold /\ CodesAreNotOverused /\ GrantsMatch

RegCore == RegistrationTypeOK /\ VisitsFit /\ VisitsApart /\ RowsFit

\* Requests that are about to count an attempt at a code.
Guessing(v) == {r \in Visits : visit[r].pc = "attempt" /\ SentRead(r) = v}

GuessesFit ==
  \A v \in SentCodes :
    verification[v].attempts + Cardinality(Guessing(v)) < MaxCodeAttempts + Cardinality(Visits)

RegInv == RegCore /\ GuessesFit

-----------------------------------------------------------------------------

LEMMA IdleVisitTyped == IdleVisit \in Visit /\ IdleVisit.pc = "idle"
<1>1. (CHOOSE e \in Emails : TRUE) \in Emails BY RegistrationAssumption
<1>2. 0 \in 0..MaxSent BY RegistrationAssumption
<1> QED BY <1>1, <1>2 DEF IdleVisit, Visit

\* One request moves on and the rows of codes, users and grants stay.
LEMMA VisitMoves ==
  ASSUME RegCore, NEW r \in Visits, NEW v \in Visit,
         visit' = [visit EXCEPT ![r] = v],
         UNCHANGED <<registered, code, usage, profile, referral, granted>>,
         verification' \in [SentCodes -> SentCode],
         requestCount' \in 0..MaxRequests,
         PurposeFits(v), UserFits(v), CodeFits(v),
         \A s \in Visits : s # r => ~LocksClash(v, visit[s])
  PROVE  RegCore'
<1> USE DEF RegCore
<1>0. /\ visit \in [Visits -> Visit]
      /\ visit'[r] = v /\ \A s \in Visits : s # r => visit'[s] = visit[s]
  BY DEF RegistrationTypeOK
<1>1. RegistrationTypeOK' BY DEF RegistrationTypeOK
<1>2. VisitsFit'
  <2> SUFFICES ASSUME NEW s \in Visits
               PROVE  (PurposeFits(visit[s]) /\ UserFits(visit[s]) /\ CodeFits(visit[s]))'
    BY DEF VisitsFit
  <2>1. visit'[s] = v \/ visit'[s] = visit[s] BY <1>0
  <2>2. CASE visit'[s] = v BY <2>2 DEF PurposeFits, UserFits, CodeFits
  <2>3. CASE visit'[s] = visit[s]
    <3>1. PurposeFits(visit[s]) /\ UserFits(visit[s]) /\ CodeFits(visit[s]) BY DEF VisitsFit
    <3> QED BY <3>1, <2>3 DEF PurposeFits, UserFits, CodeFits
  <2> QED BY <2>1, <2>2, <2>3
<1>3. VisitsApart'
  <2> SUFFICES ASSUME NEW s \in Visits, NEW t \in Visits, s # t
               PROVE  ~LocksClash(visit'[s], visit'[t])
    BY DEF VisitsApart, LocksClash
  <2>1. CASE s = r BY <2>1, <1>0
  <2>2. CASE t = r
    <3>1. ~LocksClash(v, visit[s]) /\ visit'[s] = visit[s] BY <1>0, <2>2
    <3>2. LocksClash(visit[s], v) => LocksClash(v, visit[s]) BY DEF LocksClash
    <3> QED BY <1>0, <2>2, <3>1, <3>2
  <2>3. CASE s # r /\ t # r BY <2>3, <1>0 DEF VisitsApart
  <2> QED BY <2>1, <2>2, <2>3
<1>4. RowsFit' BY DEF RowsFit, PeaksHold, CodesAreNotOverused, GrantsMatch
<1> QED BY <1>1, <1>2, <1>3, <1>4

\* A request that is over has nothing.
LEMMA VisitEnds ==
  ASSUME RegCore, NEW r \in Visits, VisitGoes(r, "idle"),
         UNCHANGED <<registered, code, usage, profile, referral, granted>>,
         verification' \in [SentCodes -> SentCode]
  PROVE  RegCore'
<1>1. visit' = [visit EXCEPT ![r] = IdleVisit] /\ UNCHANGED requestCount BY DEF VisitGoes
<1>2. PurposeFits(IdleVisit) /\ UserFits(IdleVisit) /\ CodeFits(IdleVisit)
  BY IdleVisitTyped DEF PurposeFits, UserFits, CodeFits, TransactionSteps, LockingSteps
<1>3. \A s \in Visits : ~LocksClash(IdleVisit, visit[s])
  BY IdleVisitTyped DEF LocksClash, TransactionSteps, LockingSteps
<1>4. requestCount \in 0..MaxRequests BY DEF RegCore, RegistrationTypeOK
<1> QED BY <1>1, <1>2, <1>3, <1>4, IdleVisitTyped, VisitMoves

\* A request that goes on has what it had, but for the step.
LEMMA VisitStepTyped ==
  ASSUME RegCore, NEW r \in Visits,
         NEW pc \in {"read", "attempt", "consume", "insert", "code", "bind", "reward",
                     "wallet", "commit"},
         NEW v, v = [visit[r] EXCEPT !.pc = pc]
  PROVE  /\ v \in Visit /\ v.pc = pc
         /\ v.purpose = visit[r].purpose /\ v.email = visit[r].email
         /\ v.code = visit[r].code /\ v.referrer = visit[r].referrer
         /\ VisitGoes(r, pc) <=> visit' = [visit EXCEPT ![r] = v] /\ UNCHANGED requestCount
         /\ PurposeFits(visit[r]) /\ UserFits(visit[r]) /\ CodeFits(visit[r])
         /\ \A s \in Visits : s # r => ~LocksClash(visit[r], visit[s])
         /\ requestCount \in 0..MaxRequests
         /\ verification \in [SentCodes -> SentCode]
<1>1. visit[r] \in Visit BY DEF RegCore, RegistrationTypeOK
<1>2. visit \in [Visits -> Visit] BY DEF RegCore, RegistrationTypeOK
<1>3. VisitGoes(r, pc) <=> visit' = [visit EXCEPT ![r] = v] /\ UNCHANGED requestCount
  BY <1>2 DEF VisitGoes
<1>4. /\ v \in Visit /\ v.pc = pc
      /\ v.purpose = visit[r].purpose /\ v.email = visit[r].email
      /\ v.code = visit[r].code /\ v.referrer = visit[r].referrer
  BY <1>1 DEF Visit
<1> QED BY <1>3, <1>4 DEF RegCore, RegistrationTypeOK, VisitsFit, VisitsApart

LEMMA ReadCore ==
  ASSUME RegCore, NEW r \in Visits, ReadVerification(r)
  PROVE  RegCore'
<1>1. UNCHANGED <<registered, code, usage, profile, referral, granted>> /\ visit[r].pc = "read"
  BY DEF ReadVerification
<1>2. visit[r] \in Visit /\ verification \in [SentCodes -> SentCode]
  BY DEF RegCore, RegistrationTypeOK
<1>3. verification' = verification \/
      \E n \in 1..MaxSent : verification' = [verification EXCEPT ![SentTo(r, n)].state = "over"]
  BY DEF ReadVerification
<1>4. verification' \in [SentCodes -> SentCode] BY <1>2, <1>3 DEF SentCode
<1>5. CASE VisitGoes(r, "idle") BY <1>1, <1>4, <1>5, VisitEnds
<1>6. CASE ~VisitGoes(r, "idle")
  <2>1. PICK n \in 1..MaxSent :
          /\ visit' = [visit EXCEPT
               ![r].pc = IF visit[r].right THEN "consume" ELSE "attempt", ![r].sent = n]
          /\ UNCHANGED requestCount
    BY <1>6 DEF ReadVerification
  <2> DEFINE next == IF visit[r].right THEN "consume" ELSE "attempt"
             v == [visit[r] EXCEPT !.pc = next, !.sent = n]
  <2>2. next \in {"consume", "attempt"} OBVIOUS
  <2>3. visit' = [visit EXCEPT ![r] = v] BY <2>1 DEF RegCore, RegistrationTypeOK
  <2> HIDE DEF next
  <2>0. n \in 0..MaxSent BY RegistrationAssumption
  <2>4. v \in Visit /\ v.pc = next /\ v.sent = n /\ v.purpose = visit[r].purpose
    BY <1>2, <2>0, <2>2 DEF Visit
  <2> HIDE DEF v
  <2>5. requestCount' \in 0..MaxRequests BY <2>1 DEF RegCore, RegistrationTypeOK
  <2>6. PurposeFits(visit[r]) BY DEF RegCore, VisitsFit
  <2>7. PurposeFits(v) BY <1>1, <2>2, <2>4, <2>6 DEF PurposeFits
  <2>8. UserFits(v) /\ CodeFits(v) /\ \A s \in Visits : ~LocksClash(v, visit[s])
    BY <2>2, <2>4 DEF UserFits, CodeFits, LocksClash, TransactionSteps, LockingSteps
  <2> QED BY <1>1, <1>4, <2>3, <2>4, <2>5, <2>7, <2>8, VisitMoves
<1> QED BY <1>5, <1>6

\* The row that a request has read is one of those sent.
LEMMA ReadRowTyped ==
  ASSUME RegCore, NEW r \in Visits, visit[r].pc \in {"attempt", "consume"}
  PROVE  /\ SentRead(r) \in SentCodes /\ verification[SentRead(r)] \in SentCode
         /\ verification \in [SentCodes -> SentCode] /\ visit[r] \in Visit
<1>1. visit[r] \in Visit /\ verification \in [SentCodes -> SentCode] /\ PurposeFits(visit[r])
  BY DEF RegCore, RegistrationTypeOK, VisitsFit
<1>2. visit[r].email \in Emails /\ visit[r].purpose \in Purposes /\ visit[r].sent \in 1..MaxSent
  BY <1>1 DEF PurposeFits, Visit
<1>3. SentRead(r) \in SentCodes BY <1>2 DEF SentRead, SentTo, SentCodes
<1> QED BY <1>1, <1>3

LEMMA CountCore ==
  ASSUME RegCore, NEW r \in Visits, CountAttempt(r)
  PROVE  RegCore'
<1> DEFINE u == SentRead(r)
           row == [verification[u] EXCEPT !.attempts = verification[u].attempts + 1]
<1>1. /\ u \in SentCodes /\ verification[u] \in SentCode
      /\ verification \in [SentCodes -> SentCode]
  BY ReadRowTyped DEF CountAttempt
<1>2. row \in SentCode BY <1>1 DEF SentCode
<1>3. verification' = [verification EXCEPT ![u] = row] BY DEF CountAttempt
<1> HIDE DEF row, u
<1>4. verification' \in [SentCodes -> SentCode] BY <1>1, <1>2, <1>3
<1> QED BY <1>4, VisitEnds DEF CountAttempt

LEMMA ConsumeVerificationCore ==
  ASSUME RegCore, NEW r \in Visits, ConsumeVerification(r)
  PROVE  RegCore'
<1>1. visit[r] \in Visit /\ verification \in [SentCodes -> SentCode]
  BY DEF RegCore, RegistrationTypeOK
<1>2. verification' \in [SentCodes -> SentCode]
  BY <1>1 DEF ConsumeVerification, SentCode
<1>3. UNCHANGED <<registered, code, usage, profile, referral, granted>>
  BY DEF ConsumeVerification
<1>4. CASE visit[r].purpose = "registration"
  <2> DEFINE v == [visit[r] EXCEPT !.pc = "insert"]
  <2> HIDE DEF v
  <2>1. VisitGoes(r, "insert") BY <1>4 DEF ConsumeVerification
  <2>2. /\ v \in Visit /\ v.pc = "insert" /\ v.purpose = "registration"
        /\ requestCount \in 0..MaxRequests
        /\ visit' = [visit EXCEPT ![r] = v] /\ UNCHANGED requestCount
    BY <1>4, <2>1, VisitStepTyped DEF v
  <2>3. PurposeFits(v) BY <2>2 DEF PurposeFits
  <2>4. UserFits(v) /\ CodeFits(v) /\ \A s \in Visits : ~LocksClash(v, visit[s])
    BY <2>2 DEF UserFits, CodeFits, LocksClash, TransactionSteps, LockingSteps
  <2> QED BY <1>2, <1>3, <2>2, <2>3, <2>4, VisitMoves
<1>5. CASE visit[r].purpose # "registration"
  BY <1>2, <1>3, <1>5, VisitEnds DEF ConsumeVerification
<1> QED BY <1>4, <1>5

\* A request begins with nothing; who redeems a code is a user.
LEMMA BeginCore ==
  ASSUME RegCore, NEW r \in Visits, NEW v \in Visit, RequestBegins(r, v), UNCHANGED tables,
         v.pc \in {"read", "code"},
         v.pc = "read" => v.purpose # "redeem",
         v.pc = "code" => /\ v.purpose = "redeem" /\ v.code # NoCode /\ v.referrer = NoUser
                          /\ v.email \in registered
  PROVE  RegCore'
<1>1. /\ visit' = [visit EXCEPT ![r] = v] /\ requestCount' \in 0..MaxRequests
      /\ verification' \in [SentCodes -> SentCode]
  BY RegistrationAssumption DEF RequestBegins, RegCore, RegistrationTypeOK, tables
<1>2. PurposeFits(v) /\ UserFits(v) /\ CodeFits(v)
  BY DEF PurposeFits, UserFits, CodeFits, TransactionSteps, LockingSteps
<1>3. \A s \in Visits : ~LocksClash(v, visit[s])
  BY DEF LocksClash, TransactionSteps, LockingSteps
<1> QED BY <1>1, <1>2, <1>3, VisitMoves DEF tables

LEMMA BeginsCore ==
  ASSUME RegCore, NEW r \in Visits, NEW e \in Emails, NEW right \in BOOLEAN,
         \/ BeginPasswordReset(r, e, right)
         \/ \E c \in Codes \cup {NoCode}, referrer \in Emails \cup {NoUser} :
              BeginRegister(r, e, c, referrer, right)
         \/ \E c \in Codes : BeginRedeem(r, e, c)
  PROVE  RegCore'
<1>1. CASE BeginPasswordReset(r, e, right)
  <2> DEFINE v == [IdleVisit EXCEPT !.pc = "read", !.purpose = "password_reset",
                                     !.email = e, !.right = right]
  <2>1. v \in Visit /\ v.pc = "read" /\ v.purpose = "password_reset"
    BY IdleVisitTyped, RegistrationAssumption DEF Visit
  <2>2. RequestBegins(r, v) /\ UNCHANGED tables BY <1>1 DEF BeginPasswordReset
  <2> QED BY <2>1, <2>2, BeginCore
<1>2. ASSUME NEW c \in Codes \cup {NoCode}, NEW referrer \in Emails \cup {NoUser},
             BeginRegister(r, e, c, referrer, right)
      PROVE  RegCore'
  <2> DEFINE v == [pc |-> "read", purpose |-> "registration", email |-> e, code |-> c,
                   referrer |-> referrer, right |-> right, sent |-> 0]
  <2>1. v \in Visit /\ v.pc = "read" /\ v.purpose = "registration"
    BY RegistrationAssumption DEF Visit
  <2>2. RequestBegins(r, v) /\ UNCHANGED tables BY <1>2 DEF BeginRegister
  <2> QED BY <2>1, <2>2, BeginCore
<1>3. ASSUME NEW c \in Codes, BeginRedeem(r, e, c)
      PROVE  RegCore'
  <2> DEFINE v == [IdleVisit EXCEPT !.pc = "code", !.email = e, !.code = c]
  <2>1. /\ v \in Visit /\ v.pc = "code" /\ v.purpose = "redeem" /\ v.code # NoCode
        /\ v.referrer = NoUser /\ v.email = e
    BY IdleVisitTyped, RegistrationAssumption DEF Visit, IdleVisit
  <2>2. RequestBegins(r, v) /\ UNCHANGED tables /\ e \in registered BY <1>3 DEF BeginRedeem
  <2> HIDE DEF v
  <2> QED BY <2>1, <2>2, BeginCore
<1> QED BY <1>1, <1>2, <1>3

\* The transaction of a registration starts when nobody else inserts the address.
LEMMA InsertCore ==
  ASSUME RegCore, NEW r \in Visits, InsertUser(r)
  PROVE  RegCore'
<1>1. UNCHANGED tables BY DEF InsertUser
<1>2. verification \in [SentCodes -> SentCode] /\ visit[r] \in Visit
  BY DEF RegCore, RegistrationTypeOK
<1>3. CASE visit[r].email \in registered
  BY <1>1, <1>2, <1>3, VisitEnds DEF InsertUser, tables
<1>4. CASE visit[r].email \notin registered
  <2> DEFINE next == IF visit[r].code # NoCode THEN "code" ELSE "bind"
             v == [visit[r] EXCEPT !.pc = next]
  <2>1. visit[r].pc = "insert" /\ VisitGoes(r, next) BY <1>4 DEF InsertUser
  <2>2. next \in {"code", "bind"} OBVIOUS
  <2>3. /\ v \in Visit /\ v.pc = next /\ v.purpose = visit[r].purpose /\ PurposeFits(visit[r])
        /\ v.email = visit[r].email /\ v.code = visit[r].code
        /\ requestCount \in 0..MaxRequests
        /\ visit' = [visit EXCEPT ![r] = v] /\ UNCHANGED requestCount
    <3> HIDE DEF next
    <3> QED BY <2>1, <2>2, VisitStepTyped DEF v
  <2>4. (v.pc = "code" <=> v.code # NoCode) /\ v.pc \in {"code", "bind"} BY <2>3
  <2> HIDE DEF next, v
  <2>5. v.purpose = "registration" BY <2>1, <2>3 DEF PurposeFits
  <2>6. PurposeFits(v) BY <2>4, <2>5 DEF PurposeFits
  <2>7. UserFits(v) /\ CodeFits(v)
    BY <1>4, <2>3, <2>4, <2>5 DEF UserFits, CodeFits, LockingSteps
  <2>8. ASSUME NEW s \in Visits, LocksClash(v, visit[s]) PROVE FALSE
    <3>1. ~(v.code \in Codes /\ v.pc \in LockingSteps)
      BY <2>4, RegistrationAssumption DEF LockingSteps
    <3>2. InTransaction(s) /\ visit[s].email = visit[r].email /\ visit[s].purpose = "registration"
      BY <2>3, <2>8, <3>1 DEF LocksClash, InTransaction, TransactionSteps
    <3> QED BY <3>2 DEF InsertUser
  <2> QED BY <1>1, <1>2, <2>3, <2>6, <2>7, <2>8, VisitMoves DEF tables
<1> QED BY <1>3, <1>4

\* A code is locked when nobody else has it, and looked at again.
LEMMA ConsumeCodeCore ==
  ASSUME RegCore, NEW r \in Visits, ConsumeCode(r)
  PROVE  RegCore'
<1> DEFINE c == visit[r].code
           good == /\ UsableCode(c) /\ (ForRegistration(c) = (visit[r].purpose = "registration"))
                   /\ <<visit[r].email, c>> \notin usage
<1>1. UNCHANGED tables /\ visit[r].pc = "code" /\ CodeIsFree(c) BY DEF ConsumeCode
<1>2. verification \in [SentCodes -> SentCode]
  BY DEF RegCore, RegistrationTypeOK
<1>3. CASE ~good BY <1>1, <1>2, <1>3, VisitEnds DEF ConsumeCode, tables
<1>4. CASE good
  <2> DEFINE next == NextAfterCode(r)
             v == [visit[r] EXCEPT !.pc = next]
  <2>1. VisitGoes(r, next) BY <1>4 DEF ConsumeCode
  <2>2. next \in {"wallet", "bind"} /\ (next = "wallet" <=> visit[r].purpose = "redeem")
    BY DEF NextAfterCode
  <2> HIDE DEF next
  <2>3. /\ v \in Visit /\ v.pc = next /\ v.purpose = visit[r].purpose
        /\ PurposeFits(visit[r]) /\ UserFits(visit[r])
        /\ v.email = visit[r].email /\ v.code = visit[r].code /\ v.referrer = visit[r].referrer
        /\ requestCount \in 0..MaxRequests
        /\ visit' = [visit EXCEPT ![r] = v] /\ UNCHANGED requestCount
        /\ \A s \in Visits : s # r => ~LocksClash(visit[r], visit[s])
    BY <2>1, <2>2, VisitStepTyped DEF v
  <2> HIDE DEF v
  <2>4. v.purpose \in {"registration", "password_reset", "redeem"}
    BY <2>3, RegistrationAssumption DEF Visit
  <2>5. PurposeFits(v) BY <1>1, <2>2, <2>3, <2>4 DEF PurposeFits
  <2>6. UserFits(v) BY <1>1, <2>2, <2>3 DEF UserFits, TransactionSteps
  <2>7. CodeFits(v) BY <1>4, <2>3 DEF CodeFits, UsableCode
  <2>8. ASSUME NEW s \in Visits, s # r, LocksClash(v, visit[s]) PROVE FALSE
    <3>1. visit[s].pc \in LockingSteps => visit[s].code # c
      BY <1>1 DEF CodeIsFree, LocksCode, LockingSteps
    <3>2. LocksClash(visit[r], visit[s])
      BY <1>1, <2>3, <2>8, <3>1 DEF LocksClash, TransactionSteps
    <3> QED BY <2>3, <2>8, <3>2
  <2> QED BY <1>1, <1>2, <2>3, <2>5, <2>6, <2>7, <2>8, VisitMoves DEF tables
<1> QED BY <1>3, <1>4

\* A request that has its locks keeps them up to its commit.
LEMMA LockedStepCore ==
  ASSUME RegCore, NEW r \in Visits, NEW v \in Visit, UNCHANGED <<tables, requestCount>>,
         visit' = [visit EXCEPT ![r] = v],
         visit[r].pc \in LockingSteps, v.pc \in LockingSteps,
         v.purpose = visit[r].purpose, v.email = visit[r].email, v.code = visit[r].code,
         PurposeFits(v)
  PROVE  RegCore'
<1>1. /\ visit[r] \in Visit /\ requestCount \in 0..MaxRequests
      /\ verification \in [SentCodes -> SentCode]
      /\ PurposeFits(visit[r]) /\ UserFits(visit[r]) /\ CodeFits(visit[r])
      /\ \A s \in Visits : s # r => ~LocksClash(visit[r], visit[s])
  BY DEF RegCore, RegistrationTypeOK, VisitsFit, VisitsApart
<1>2. UserFits(v) BY <1>1 DEF UserFits, PurposeFits, TransactionSteps, LockingSteps
<1>3. CodeFits(v) BY <1>1 DEF CodeFits
<1>4. \A s \in Visits : s # r => ~LocksClash(v, visit[s])
  BY <1>1 DEF LocksClash, TransactionSteps, LockingSteps
<1> QED BY <1>1, <1>2, <1>3, <1>4, VisitMoves DEF tables

LEMMA LockWalletCore ==
  ASSUME RegCore, NEW r \in Visits, LockOwnWallet(r) \/ LockReferrerWallet(r)
  PROVE  RegCore'
<1> DEFINE v == [visit[r] EXCEPT !.pc = "commit"]
<1>1. /\ visit[r].pc \in {"wallet", "reward"} /\ VisitGoes(r, "commit") /\ UNCHANGED tables
  BY DEF LockOwnWallet, LockReferrerWallet
<1>2. /\ v \in Visit /\ v.pc = "commit" /\ v.purpose = visit[r].purpose
      /\ v.email = visit[r].email /\ v.code = visit[r].code /\ v.referrer = visit[r].referrer
      /\ visit' = [visit EXCEPT ![r] = v] /\ UNCHANGED requestCount
      /\ PurposeFits(visit[r])
  BY <1>1, VisitStepTyped
<1> HIDE DEF v
<1>3. PurposeFits(v) BY <1>1, <1>2 DEF PurposeFits
<1> QED BY <1>1, <1>2, <1>3, LockedStepCore DEF LockingSteps

LEMMA BindCore ==
  ASSUME RegCore, NEW r \in Visits, BindReferral(r)
  PROVE  RegCore'
<1>1. visit[r].pc = "bind" /\ UNCHANGED tables BY DEF BindReferral
<1>2. PurposeFits(visit[r]) /\ visit[r] \in Visit /\ visit \in [Visits -> Visit]
  BY DEF RegCore, VisitsFit, RegistrationTypeOK
<1>3. CASE VisitGoes(r, "reward")
  <2> DEFINE v == [visit[r] EXCEPT !.pc = "reward"]
  <2>1. /\ v \in Visit /\ v.pc = "reward" /\ v.purpose = visit[r].purpose
        /\ v.email = visit[r].email /\ v.code = visit[r].code
        /\ visit' = [visit EXCEPT ![r] = v] /\ UNCHANGED requestCount
    BY <1>3, VisitStepTyped
  <2> HIDE DEF v
  <2>2. PurposeFits(v) BY <1>1, <1>2, <2>1 DEF PurposeFits
  <2> QED BY <1>1, <2>1, <2>2, LockedStepCore DEF LockingSteps
<1>4. CASE /\ visit' = [visit EXCEPT ![r].pc = "commit", ![r].referrer = NoUser]
           /\ UNCHANGED requestCount
  <2> DEFINE v == [visit[r] EXCEPT !.pc = "commit", !.referrer = NoUser]
  <2>1. /\ v \in Visit /\ v.pc = "commit" /\ v.purpose = visit[r].purpose
        /\ v.email = visit[r].email /\ v.code = visit[r].code
    BY <1>2 DEF Visit
  <2>2. visit' = [visit EXCEPT ![r] = v] /\ UNCHANGED requestCount BY <1>2, <1>4
  <2> HIDE DEF v
  <2>3. PurposeFits(v) BY <1>1, <1>2, <2>1 DEF PurposeFits
  <2> QED BY <1>1, <2>1, <2>2, <2>3, LockedStepCore DEF LockingSteps
<1> QED BY <1>3, <1>4 DEF BindReferral

LEMMA AbortCore ==
  ASSUME RegCore, NEW r \in Visits, RequestAborts(r)
  PROVE  RegCore'
<1>1. verification \in [SentCodes -> SentCode]
  BY DEF RegCore, RegistrationTypeOK
<1> QED BY <1>1, VisitEnds DEF RequestAborts, tables

\* Codes change under nobody's lock.
LEMMA UpdateCodeCore ==
  ASSUME RegCore, NEW c \in Codes, NEW max \in MaxUses, NEW active \in BOOLEAN,
         UpdateCode(c, max, active)
  PROVE  RegCore'
<1> USE DEF RegCore
<1> DEFINE peak == IF max > code[c].peak THEN max ELSE code[c].peak
           row == [code[c] EXCEPT !.max = max, !.active = active, !.peak = peak]
<1>1. code \in [Codes -> CodeRow] /\ code[c] \in CodeRow /\ MaxUses \subseteq Nat
  BY RegistrationAssumption DEF RegistrationTypeOK
<1>2. peak \in MaxUses /\ peak >= max /\ peak >= code[c].peak
  <2>1. code[c].peak \in MaxUses BY <1>1 DEF CodeRow
  <2>2. code[c].peak \in Nat /\ max \in Nat BY <1>1, <2>1
  <2> QED BY <2>1, <2>2
<1>3. code' = [code EXCEPT ![c] = row] BY <1>1 DEF UpdateCode
<1> HIDE DEF peak
<1>4. row \in CodeRow /\ row.state = code[c].state /\ row.used = code[c].used
      /\ row.max = max /\ row.peak = peak
  BY <1>1, <1>2 DEF CodeRow
<1> HIDE DEF row
<1>5. UNCHANGED <<verification, registered, usage, profile, referral, granted, visit>>
      /\ requestCount' \in 0..MaxRequests /\ CodeIsFree(c)
  BY RegistrationAssumption DEF UpdateCode, OneStepRequest, RegistrationTypeOK
<1>6. code'[c] = row /\ \A d \in Codes : d # c => code'[d] = code[d] BY <1>1, <1>3
<1>7. RegistrationTypeOK' BY <1>1, <1>3, <1>4, <1>5 DEF RegistrationTypeOK
<1>8. VisitsFit'
  <2> SUFFICES ASSUME NEW s \in Visits
               PROVE  (PurposeFits(visit[s]) /\ UserFits(visit[s]) /\ CodeFits(visit[s]))'
    BY DEF VisitsFit
  <2>1. PurposeFits(visit[s]) /\ UserFits(visit[s]) /\ CodeFits(visit[s]) /\ visit[s] \in Visit
    BY DEF VisitsFit, RegistrationTypeOK
  <2>2. visit[s].pc \in LockingSteps => visit[s].code # c
    BY <1>5 DEF CodeIsFree, LocksCode, LockingSteps
  <2>3. visit[s].code \in Codes \cup {NoCode} BY <2>1 DEF Visit
  <2>4. CodeFits(visit[s])' BY <1>5, <1>6, <2>1, <2>2, <2>3 DEF CodeFits
  <2> QED BY <1>5, <2>1, <2>4 DEF PurposeFits, UserFits
<1>9. VisitsApart' BY <1>5 DEF VisitsApart, LocksClash
<1>10. CodesAreNotOverused'
  <2> SUFFICES ASSUME NEW d \in Codes, code'[d].state = "there"
               PROVE  /\ code'[d].used <= code'[d].peak
                      /\ code'[d].used = Cardinality({e \in Emails : <<e, d>> \in usage})
    BY <1>5 DEF CodesAreNotOverused
  <2>1. code'[d].state = code[d].state /\ code'[d].used = code[d].used BY <1>4, <1>6
  <2>2. code[d].used <= code[d].peak /\ code[d].used = Cardinality({e \in Emails : <<e, d>> \in usage})
    BY <2>1 DEF RowsFit, CodesAreNotOverused
  <2>3. code[d].peak <= code'[d].peak
    BY <1>1, <1>2, <1>4, <1>6 DEF CodeRow
  <2>4. code'[d].used \in Nat /\ code[d].peak \in Nat /\ code'[d].peak \in Nat
    BY <1>1, <1>2, <1>4, <1>6 DEF CodeRow
  <2> QED BY <2>1, <2>2, <2>3, <2>4
<1>11. PeaksHold' BY <1>2, <1>4, <1>6 DEF RowsFit, PeaksHold
<1>12. GrantsMatch' BY <1>4, <1>5, <1>6 DEF RowsFit, GrantsMatch
<1> QED BY <1>7, <1>8, <1>9, <1>10, <1>11, <1>12 DEF RowsFit

\* The uses of a code go with it; what they granted stays.
LEMMA DeleteCodeCore ==
  ASSUME RegCore, NEW c \in Codes, DeleteCode(c)
  PROVE  RegCore'
<1> USE DEF RegCore
<1>1. code \in [Codes -> CodeRow] /\ code[c] \in CodeRow BY DEF RegistrationTypeOK
<1>2. UNCHANGED <<verification, registered, profile, referral, granted, visit>>
      /\ requestCount' \in 0..MaxRequests /\ CodeIsFree(c)
      /\ usage' = {u \in usage : u[2] # c}
  BY RegistrationAssumption DEF DeleteCode, OneStepRequest, RegistrationTypeOK
<1>3. code' = [code EXCEPT ![c] = [code[c] EXCEPT !.state = "gone"]] BY <1>1 DEF DeleteCode
<1>4. [code[c] EXCEPT !.state = "gone"] \in CodeRow BY <1>1 DEF CodeRow
<1>5. /\ code'[c].state = "gone" /\ code'[c].max = code[c].max /\ code'[c].peak = code[c].peak
      /\ \A d \in Codes : d # c => code'[d] = code[d]
  BY <1>1, <1>3 DEF CodeRow
<1>6. usage \subseteq Emails \X Codes BY DEF RegistrationTypeOK
<1>7. \A e \in Emails, d \in Codes : d # c => (<<e, d>> \in usage' <=> <<e, d>> \in usage)
  BY <1>2
<1>8. RegistrationTypeOK' BY <1>1, <1>2, <1>3, <1>4 DEF RegistrationTypeOK
<1>9. VisitsFit'
  <2> SUFFICES ASSUME NEW s \in Visits
               PROVE  (PurposeFits(visit[s]) /\ UserFits(visit[s]) /\ CodeFits(visit[s]))'
    BY DEF VisitsFit
  <2>1. PurposeFits(visit[s]) /\ UserFits(visit[s]) /\ CodeFits(visit[s]) /\ visit[s] \in Visit
    BY DEF VisitsFit, RegistrationTypeOK
  <2>2. visit[s].pc \in LockingSteps => visit[s].code # c
    BY <1>2 DEF CodeIsFree, LocksCode, LockingSteps
  <2>3. visit[s].code \in Codes \cup {NoCode} /\ visit[s].email \in Emails BY <2>1 DEF Visit
  <2>4. CodeFits(visit[s])' BY <1>2, <1>5, <2>1, <2>2, <2>3 DEF CodeFits
  <2> QED BY <1>2, <2>1, <2>4 DEF PurposeFits, UserFits
<1>10. VisitsApart' BY <1>2 DEF VisitsApart, LocksClash
<1>11. CodesAreNotOverused'
  <2> SUFFICES ASSUME NEW d \in Codes, code'[d].state = "there"
               PROVE  /\ code'[d].used <= code'[d].peak
                      /\ code'[d].used = Cardinality({e \in Emails : <<e, d>> \in usage'})
    BY DEF CodesAreNotOverused
  <2>1. d # c /\ code'[d] = code[d] BY <1>5
  <2>2. {e \in Emails : <<e, d>> \in usage'} = {e \in Emails : <<e, d>> \in usage}
    BY <1>7, <2>1
  <2> QED BY <2>1, <2>2 DEF RowsFit, CodesAreNotOverused
<1>12. PeaksHold' BY <1>5 DEF RowsFit, PeaksHold
<1>13. GrantsMatch'
  <2> SUFFICES ASSUME NEW e \in Emails
               PROVE  /\ granted[<<"default", e, NoCode>>] = IF e \in registered THEN 1 ELSE 0
                      /\ granted[<<"reward", e, NoCode>>] = IF referral[e] # NoUser THEN 1 ELSE 0
                      /\ \A d \in Codes : code'[d].state = "there" =>
                           granted[<<"code", e, d>>] =
                             IF <<e, d>> \in usage' /\ GrantsCredits(d) THEN 1 ELSE 0
                      /\ e \notin registered =>
                           referral[e] = NoUser /\ \A d \in Codes : <<e, d>> \notin usage'
    BY <1>2 DEF GrantsMatch, GrantsCredits
  <2>1. ASSUME NEW d \in Codes, code'[d].state = "there"
        PROVE  granted[<<"code", e, d>>] =
                 IF <<e, d>> \in usage' /\ GrantsCredits(d) THEN 1 ELSE 0
    <3>1. d # c /\ code[d].state = "there" BY <1>5, <2>1
    <3>2. granted[<<"code", e, d>>] = IF <<e, d>> \in usage /\ GrantsCredits(d) THEN 1 ELSE 0
      BY <3>1 DEF RowsFit, GrantsMatch
    <3>3. <<e, d>> \in usage' <=> <<e, d>> \in usage BY <1>7, <3>1
    <3> QED BY <3>2, <3>3
  <2>2. \A d \in Codes : <<e, d>> \in usage' => <<e, d>> \in usage BY <1>2
  <2> QED BY <2>1, <2>2 DEF RowsFit, GrantsMatch
<1> QED BY <1>8, <1>9, <1>10, <1>11, <1>12, <1>13 DEF RowsFit

\* Nothing that is kept changes with a profile or with a code that is sent.
LEMMA SendOrProfileCore ==
  ASSUME RegCore,
         \/ \E e \in Emails, p \in Purposes, n \in 1..MaxSent : SendVerificationCode(e, p, n)
         \/ \E e \in Emails : EnsureAffiliateProfile(e)
  PROVE  RegCore'
<1> USE DEF RegCore
<1>1. /\ UNCHANGED <<registered, code, usage, referral, granted, visit>>
      /\ requestCount' \in 0..MaxRequests /\ profile' \subseteq Emails
  <2>1. requestCount \in 0..MaxRequests /\ profile \subseteq Emails BY DEF RegistrationTypeOK
  <2>2. OneStepRequest /\ UNCHANGED <<registered, code, usage, referral, granted>>
    BY DEF SendVerificationCode, EnsureAffiliateProfile
  <2>3. profile' \subseteq Emails BY <2>1 DEF SendVerificationCode, EnsureAffiliateProfile
  <2> QED BY <2>1, <2>2, <2>3, RegistrationAssumption DEF OneStepRequest
<1>2. verification' \in [SentCodes -> SentCode]
  <2>1. verification \in [SentCodes -> SentCode]
    BY DEF RegistrationTypeOK
  <2>2. [state |-> "live", attempts |-> 0] \in SentCode BY DEF SentCode
  <2>3. verification' = verification \/ \E v \in SentCodes :
          verification' = [verification EXCEPT ![v] = [state |-> "live", attempts |-> 0]]
    BY DEF SendVerificationCode, EnsureAffiliateProfile, SentCodes
  <2> QED BY <2>1, <2>2, <2>3
<1>3. RegistrationTypeOK' BY <1>1, <1>2 DEF RegistrationTypeOK
<1>4. VisitsFit' /\ VisitsApart'
  BY <1>1 DEF VisitsFit, VisitsApart, PurposeFits, UserFits, CodeFits, LocksClash
<1>5. RowsFit' BY <1>1 DEF RowsFit, PeaksHold, CodesAreNotOverused, GrantsMatch
<1> QED BY <1>3, <1>4, <1>5

-----------------------------------------------------------------------------
(* The commit of a request.                                                *)

\* What it grants, entry by entry.
LEMMA CommitGrants ==
  ASSUME RegCore, NEW r \in Visits, CommitRequest(r), NEW e \in Emails
  PROVE  /\ granted' \in [Grants -> Nat]
         /\ granted'[<<"default", e, NoCode>>] = granted[<<"default", e, NoCode>>] +
              IF visit[r].purpose = "registration" /\ e = visit[r].email THEN 1 ELSE 0
         /\ granted'[<<"reward", e, NoCode>>] = granted[<<"reward", e, NoCode>>] +
              IF visit[r].referrer # NoUser /\ e = visit[r].email THEN 1 ELSE 0
         /\ \A c \in Codes : granted'[<<"code", e, c>>] = granted[<<"code", e, c>>] +
              IF c = visit[r].code /\ GrantsCredits(c) /\ e = visit[r].email THEN 1 ELSE 0
<1>1. granted \in [Grants -> Nat] /\ visit[r] \in Visit BY DEF RegCore, RegistrationTypeOK
<1>2. granted' = [g \in Grants |-> granted[g] + IF g \in GrantsOf(visit[r]) THEN 1 ELSE 0]
  BY DEF CommitRequest
<1>3. granted' \in [Grants -> Nat] BY <1>1, <1>2
<1>4. /\ <<"default", e, NoCode>> \in Grants /\ <<"reward", e, NoCode>> \in Grants
      /\ \A c \in Codes : <<"code", e, c>> \in Grants
  BY DEF Grants
<1>5. <<"default", e, NoCode>> \in GrantsOf(visit[r]) <=>
        visit[r].purpose = "registration" /\ e = visit[r].email
  BY DEF GrantsOf
<1>6. <<"reward", e, NoCode>> \in GrantsOf(visit[r]) <=>
        visit[r].referrer # NoUser /\ e = visit[r].email
  BY DEF GrantsOf
<1>7. ASSUME NEW c \in Codes
      PROVE  <<"code", e, c>> \in GrantsOf(visit[r]) <=>
               c = visit[r].code /\ GrantsCredits(c) /\ e = visit[r].email
  <2>1. c # NoCode BY RegistrationAssumption
  <2> QED BY <2>1 DEF GrantsOf
<1>8. ASSUME NEW c \in Codes
      PROVE  granted'[<<"code", e, c>>] = granted[<<"code", e, c>>] +
              IF c = visit[r].code /\ GrantsCredits(c) /\ e = visit[r].email THEN 1 ELSE 0
  BY <1>2, <1>4, <1>7
<1>9. granted'[<<"default", e, NoCode>>] = granted[<<"default", e, NoCode>>] +
              IF visit[r].purpose = "registration" /\ e = visit[r].email THEN 1 ELSE 0
  BY <1>2, <1>4, <1>5
<1>10. granted'[<<"reward", e, NoCode>>] = granted[<<"reward", e, NoCode>>] +
              IF visit[r].referrer # NoUser /\ e = visit[r].email THEN 1 ELSE 0
  BY <1>2, <1>4, <1>6
<1> QED BY <1>3, <1>8, <1>9, <1>10

\* What it finds: a new user or one of the users, and a code that can be used.
LEMMA CommitFinds ==
  ASSUME RegCore, NEW r \in Visits, CommitRequest(r)
  PROVE  /\ visit[r] \in Visit /\ visit[r].pc = "commit"
         /\ visit[r].email \in Emails /\ visit[r].code \in Codes \cup {NoCode}
         /\ visit[r].referrer \in Emails \cup {NoUser}
         /\ visit[r].purpose \in {"registration", "redeem"}
         /\ visit[r].purpose = "registration" <=> visit[r].email \notin registered
         /\ visit[r].purpose = "redeem" => visit[r].referrer = NoUser
         /\ visit[r].code # NoCode =>
              /\ code[visit[r].code].state = "there"
              /\ code[visit[r].code].used < code[visit[r].code].max
              /\ <<visit[r].email, visit[r].code>> \notin usage
<1>1. visit[r] \in Visit /\ visit[r].pc = "commit"
  BY DEF RegCore, RegistrationTypeOK, CommitRequest
<1>2. PurposeFits(visit[r]) /\ UserFits(visit[r]) /\ CodeFits(visit[r])
  BY DEF RegCore, VisitsFit
<1>3. visit[r].email \in Emails /\ visit[r].code \in Codes \cup {NoCode}
      /\ visit[r].referrer \in Emails \cup {NoUser}
      /\ visit[r].purpose \in {"registration", "password_reset", "redeem"}
  BY <1>1, RegistrationAssumption DEF Visit
<1> QED BY <1>1, <1>2, <1>3 DEF PurposeFits, UserFits, CodeFits, TransactionSteps, LockingSteps

LEMMA CommitCodes ==
  ASSUME RegCore, NEW r \in Visits, CommitRequest(r)
  PROVE  /\ code' \in [Codes -> CodeRow] /\ usage' \subseteq Emails \X Codes
         /\ PeaksHold' /\ CodesAreNotOverused'
         /\ \A d \in Codes : code'[d].state = code[d].state
         /\ \A d \in Codes : d # visit[r].code => code'[d] = code[d]
         /\ \A e \in Emails, d \in Codes :
              <<e, d>> \in usage' <=>
                <<e, d>> \in usage \/ (e = visit[r].email /\ d = visit[r].code)
<1> DEFINE c == visit[r].code
           u == visit[r].email
<1>1. /\ code \in [Codes -> CodeRow] /\ usage \subseteq Emails \X Codes /\ NoCode \notin Codes
      /\ PeaksHold /\ CodesAreNotOverused
  BY RegistrationAssumption DEF RegCore, RegistrationTypeOK, RowsFit
<1>2. /\ u \in Emails /\ c \in Codes \cup {NoCode}
      /\ c # NoCode => /\ code[c].state = "there" /\ code[c].used < code[c].max
                       /\ <<u, c>> \notin usage
  BY CommitFinds
<1>3. CASE c = NoCode
  <2>1. code' = code /\ usage' = usage BY <1>3 DEF CommitRequest
  <2> QED BY <1>1, <1>3, <2>1 DEF PeaksHold, CodesAreNotOverused
<1>4. CASE c # NoCode
  <2> DEFINE row == [code[c] EXCEPT !.used = code[c].used + 1]
  <2>1. c \in Codes /\ code' = [code EXCEPT ![c] = row] /\ usage' = usage \cup {<<u, c>>}
    BY <1>2, <1>4 DEF CommitRequest
  <2>2. row \in CodeRow /\ row.state = code[c].state /\ row.max = code[c].max
        /\ row.peak = code[c].peak /\ row.used = code[c].used + 1
    <3>1. code[c] \in CodeRow BY <1>1, <2>1
    <3> QED BY <3>1 DEF CodeRow
  <2> HIDE DEF c, u, row
  <2>3. code'[c] = row /\ \A d \in Codes : d # c => code'[d] = code[d] BY <1>1, <2>1
  <2>4. code' \in [Codes -> CodeRow] /\ usage' \subseteq Emails \X Codes
    BY <1>1, <1>2, <2>1, <2>2
  <2>5. PeaksHold' BY <1>1, <2>2, <2>3 DEF PeaksHold
  <2>6. \A e \in Emails, d \in Codes :
          <<e, d>> \in usage' <=> <<e, d>> \in usage \/ (e = u /\ d = c)
    BY <2>1
  <2>7. CodesAreNotOverused'
    <3> SUFFICES ASSUME NEW d \in Codes, code'[d].state = "there"
                 PROVE  /\ code'[d].used <= code'[d].peak
                        /\ code'[d].used = Cardinality({e \in Emails : <<e, d>> \in usage'})
      BY DEF CodesAreNotOverused
    <3> DEFINE Users0 == {e \in Emails : <<e, d>> \in usage}
    <3>1. CASE d # c
      <4>1. {e \in Emails : <<e, d>> \in usage'} = Users0 BY <2>6, <3>1
      <4>2. code'[d] = code[d] BY <2>3, <3>1
      <4> QED BY <1>1, <4>1, <4>2 DEF CodesAreNotOverused
    <3>2. CASE d = c
      <4>1. {e \in Emails : <<e, d>> \in usage'} = Users0 \cup {u} BY <1>2, <2>6, <3>2
      <4>2. u \notin Users0 BY <1>2, <1>4, <3>2
      <4>3. IsFiniteSet(Users0) BY FS_Subset, RegistrationAssumption
      <4>4. Cardinality(Users0 \cup {u}) = Cardinality(Users0) + 1
        BY <4>2, <4>3, FS_AddElement
      <4>5. code[c].used = Cardinality(Users0) BY <1>1, <1>2, <1>4, <2>1, <3>2 DEF CodesAreNotOverused
      <4>6. code[c].max <= code[c].peak /\ code[c] \in CodeRow BY <1>1, <2>1 DEF PeaksHold
      <4>7. code[c].max \in Nat /\ code[c].peak \in Nat /\ code[c].used \in Nat
        BY <4>6, RegistrationAssumption DEF CodeRow
      <4>8. code[c].used + 1 <= code[c].peak BY <1>2, <1>4, <4>6, <4>7
      <4> QED BY <2>2, <2>3, <3>2, <4>1, <4>4, <4>5, <4>8
    <3> QED BY <3>1, <3>2
  <2>8. \A d \in Codes : code'[d].state = code[d].state BY <2>2, <2>3
  <2> QED BY <2>3, <2>4, <2>5, <2>6, <2>7, <2>8 DEF c, u
<1> QED BY <1>3, <1>4

LEMMA CommitVisits ==
  ASSUME RegCore, NEW r \in Visits, CommitRequest(r)
  PROVE  /\ visit' \in [Visits -> Visit] /\ VisitsFit' /\ VisitsApart'
<1>0. visit \in [Visits -> Visit] /\ visit[r] \in Visit /\ VisitsApart
  BY DEF RegCore, RegistrationTypeOK
<1>1. visit' = [visit EXCEPT ![r] = IdleVisit] BY DEF CommitRequest, VisitGoes
<1>2. visit' \in [Visits -> Visit] BY <1>0, <1>1, IdleVisitTyped
<1>3. visit'[r] = IdleVisit /\ \A s \in Visits : s # r => visit'[s] = visit[s] BY <1>0, <1>1
<1>4. VisitsApart'
  <2> SUFFICES ASSUME NEW s \in Visits, NEW t \in Visits, s # t
               PROVE  ~LocksClash(visit'[s], visit'[t])
    BY DEF VisitsApart, LocksClash
  <2>1. CASE s = r \/ t = r
    BY <1>3, <2>1, IdleVisitTyped DEF LocksClash, TransactionSteps, LockingSteps
  <2>2. CASE s # r /\ t # r BY <1>0, <1>3, <2>2 DEF VisitsApart
  <2> QED BY <2>1, <2>2
<1>5. VisitsFit'
  <2> SUFFICES ASSUME NEW s \in Visits
               PROVE  (PurposeFits(visit[s]) /\ UserFits(visit[s]) /\ CodeFits(visit[s]))'
    BY DEF VisitsFit
  <2>1. CASE s = r
    <3>1. visit'[s] = IdleVisit BY <1>3, <2>1
    <3> QED BY <3>1, IdleVisitTyped
        DEF PurposeFits, UserFits, CodeFits, TransactionSteps, LockingSteps
  <2>2. CASE s # r
    <3>1. visit'[s] = visit[s] /\ visit[s] \in Visit BY <1>0, <1>3, <2>2
    <3>2. PurposeFits(visit[s]) /\ UserFits(visit[s]) /\ CodeFits(visit[s])
      BY DEF RegCore, VisitsFit
    <3>3. ~LocksClash(visit[r], visit[s]) BY <1>0, <2>2 DEF VisitsApart
    <3>4. PurposeFits(visit[s])' BY <3>1, <3>2 DEF PurposeFits
    <3>5. UserFits(visit[s])'
      <4>1. registered \subseteq registered'
            /\ \A e \in registered' : e \in registered \/
                 (visit[r].purpose = "registration" /\ e = visit[r].email)
        BY DEF CommitRequest
      <4>2. visit[r].pc = "commit" BY DEF CommitRequest
      <4> QED BY <3>1, <3>2, <3>3, <4>1, <4>2 DEF UserFits, LocksClash, TransactionSteps
    <3>6. CodeFits(visit[s])'
      <4> SUFFICES ASSUME visit[s].pc \in LockingSteps, visit[s].code # NoCode
                   PROVE  /\ code'[visit[s].code].state = "there"
                          /\ code'[visit[s].code].used < code'[visit[s].code].max
                          /\ <<visit[s].email, visit[s].code>> \notin usage'
        BY <3>1 DEF CodeFits
      <4>1. visit[s].code \in Codes /\ visit[s].email \in Emails BY <3>1 DEF Visit
      <4>2. visit[s].code # visit[r].code
        BY <3>3, <4>1 DEF LocksClash, CommitRequest, LockingSteps
      <4> QED BY <3>2, <4>1, <4>2, CommitCodes DEF CodeFits
    <3> QED BY <3>4, <3>5, <3>6
  <2> QED BY <2>1, <2>2
<1> QED BY <1>2, <1>4, <1>5

LEMMA CommitMatches ==
  ASSUME RegCore, NEW r \in Visits, CommitRequest(r)
  PROVE  GrantsMatch'
<1> SUFFICES ASSUME NEW e \in Emails
             PROVE  /\ granted'[<<"default", e, NoCode>>] = IF e \in registered' THEN 1 ELSE 0
                    /\ granted'[<<"reward", e, NoCode>>] = IF referral'[e] # NoUser THEN 1 ELSE 0
                    /\ \A c \in Codes : code'[c].state = "there" =>
                         granted'[<<"code", e, c>>] =
                           IF <<e, c>> \in usage' /\ GrantsCredits(c) THEN 1 ELSE 0
                    /\ e \notin registered' =>
                         referral'[e] = NoUser /\ \A c \in Codes : <<e, c>> \notin usage'
  BY DEF GrantsMatch, GrantsCredits
<1>1. /\ granted[<<"default", e, NoCode>>] = IF e \in registered THEN 1 ELSE 0
      /\ granted[<<"reward", e, NoCode>>] = IF referral[e] # NoUser THEN 1 ELSE 0
      /\ \A c \in Codes : code[c].state = "there" =>
           granted[<<"code", e, c>>] = IF <<e, c>> \in usage /\ GrantsCredits(c) THEN 1 ELSE 0
      /\ e \notin registered => referral[e] = NoUser /\ \A c \in Codes : <<e, c>> \notin usage
  BY DEF RegCore, RowsFit, GrantsMatch
<1>2. e \in registered' <=>
        e \in registered \/ (visit[r].purpose = "registration" /\ e = visit[r].email)
  BY DEF CommitRequest
<1>3. referral'[e] = IF visit[r].referrer # NoUser /\ e = visit[r].email
                     THEN visit[r].referrer ELSE referral[e]
  BY DEF CommitRequest, RegCore, RegistrationTypeOK
<1>4. /\ visit[r].purpose \in {"registration", "redeem"}
      /\ visit[r].purpose = "registration" <=> visit[r].email \notin registered
      /\ visit[r].purpose = "redeem" => visit[r].referrer = NoUser
      /\ visit[r].code # NoCode => <<visit[r].email, visit[r].code>> \notin usage
      /\ visit[r].code \in Codes \cup {NoCode} /\ NoCode \notin Codes
  BY CommitFinds, RegistrationAssumption
<1>5. granted'[<<"default", e, NoCode>>] = IF e \in registered' THEN 1 ELSE 0
  BY <1>1, <1>2, <1>4, CommitGrants
<1>6. granted'[<<"reward", e, NoCode>>] = IF referral'[e] # NoUser THEN 1 ELSE 0
  BY <1>1, <1>3, <1>4, CommitGrants
<1>7. ASSUME NEW c \in Codes, code'[c].state = "there"
      PROVE  granted'[<<"code", e, c>>] = IF <<e, c>> \in usage' /\ GrantsCredits(c) THEN 1 ELSE 0
  <2>1. granted[<<"code", e, c>>] = IF <<e, c>> \in usage /\ GrantsCredits(c) THEN 1 ELSE 0
    BY <1>1, <1>7, CommitCodes
  <2>2. <<e, c>> \in usage' <=> <<e, c>> \in usage \/ (e = visit[r].email /\ c = visit[r].code)
    BY CommitCodes
  <2>3. granted'[<<"code", e, c>>] = granted[<<"code", e, c>>] +
              IF c = visit[r].code /\ GrantsCredits(c) /\ e = visit[r].email THEN 1 ELSE 0
    BY CommitGrants
  <2>4. c = visit[r].code /\ e = visit[r].email => <<e, c>> \notin usage
    BY <1>4
  <2> HIDE DEF GrantsCredits
  <2>5. CASE c = visit[r].code /\ e = visit[r].email BY <2>1, <2>2, <2>3, <2>4, <2>5
  <2>6. CASE ~(c = visit[r].code /\ e = visit[r].email)
    <3>1. granted[<<"code", e, c>>] \in {0, 1} BY <2>1
    <3> QED BY <2>1, <2>2, <2>3, <2>6, <3>1
  <2> QED BY <2>5, <2>6
<1>8. ASSUME e \notin registered'
      PROVE  referral'[e] = NoUser /\ \A c \in Codes : <<e, c>> \notin usage'
  <2>1. e \notin registered /\ e # visit[r].email BY <1>2, <1>4, <1>8
  <2> QED BY <1>1, <1>3, <2>1, CommitCodes
<1> QED BY <1>5, <1>6, <1>7, <1>8

LEMMA CommitCore ==
  ASSUME RegCore, NEW r \in Visits, CommitRequest(r)
  PROVE  RegCore'
<1>1. RegistrationTypeOK BY DEF RegCore
<1>2. referral' \in [Emails -> Emails \cup {NoUser}]
  BY <1>1, CommitFinds DEF RegistrationTypeOK, CommitRequest
<1>3. registered' \subseteq Emails
  BY <1>1, CommitFinds DEF RegistrationTypeOK, CommitRequest
<1>4. UNCHANGED <<verification, profile, requestCount>> BY DEF CommitRequest, VisitGoes
<1>5. granted' \in [Grants -> Nat]
  BY RegistrationAssumption, CommitGrants
<1>6. RegistrationTypeOK'
  BY <1>1, <1>2, <1>3, <1>4, <1>5, CommitCodes, CommitVisits DEF RegistrationTypeOK
<1> QED BY <1>6, CommitCodes, CommitVisits, CommitMatches DEF RegCore, RowsFit

-----------------------------------------------------------------------------
(* Attempts and the requests that are about to count one.                  *)

LEMMA GuessingIsFinite ==
  ASSUME NEW v
  PROVE  /\ IsFiniteSet(Guessing(v)) /\ Cardinality(Guessing(v)) \in Nat
         /\ Cardinality(Guessing(v)) <= Cardinality(Visits) /\ Cardinality(Visits) \in Nat
         /\ IsFiniteSet(Guessing(v)') /\ Cardinality(Guessing(v))' \in Nat
         /\ Cardinality(Guessing(v))' <= Cardinality(Visits)
<1>1. Guessing(v) \subseteq Visits /\ Guessing(v)' \subseteq Visits BY DEF Guessing
<1> QED BY <1>1, FS_Subset, FS_CardinalityType, RegistrationAssumption

LEMMA RowsTyped ==
  ASSUME RegistrationTypeOK, NEW v \in SentCodes
  PROVE  verification[v].attempts \in Nat
BY DEF RegistrationTypeOK, SentCode

\* Nobody comes to count an attempt, and no count grows.
LEMMA GuessesKept ==
  ASSUME RegInv, RegistrationTypeOK',
         \A v \in SentCodes : verification'[v].attempts <= verification[v].attempts,
         \A r \in Visits : visit'[r].pc = "attempt" => visit'[r] = visit[r]
  PROVE  GuessesFit'
<1> SUFFICES ASSUME NEW v \in SentCodes
             PROVE  verification'[v].attempts + Cardinality(Guessing(v))' <
                      MaxCodeAttempts + Cardinality(Visits)
  BY DEF GuessesFit
<1>1. Guessing(v)' \subseteq Guessing(v) BY DEF Guessing, SentRead, SentTo
<1>2. Cardinality(Guessing(v))' <= Cardinality(Guessing(v))
  BY <1>1, GuessingIsFinite, FS_Subset
<1>3. verification[v].attempts \in Nat /\ verification'[v].attempts \in Nat
  BY DEF RegInv, RegCore, RegistrationTypeOK, SentCode
<1>4. verification[v].attempts + Cardinality(Guessing(v)) < MaxCodeAttempts + Cardinality(Visits)
  BY DEF RegInv, GuessesFit
<1>5. verification'[v].attempts <= verification[v].attempts OBVIOUS
<1> QED BY <1>2, <1>3, <1>4, <1>5, GuessingIsFinite, RegistrationAssumption

\* An attempt that is counted is no longer about to be.
LEMMA GuessCounted ==
  ASSUME RegInv, NEW r \in Visits, CountAttempt(r)
  PROVE  GuessesFit'
<1> SUFFICES ASSUME NEW v \in SentCodes
             PROVE  verification'[v].attempts + Cardinality(Guessing(v))' <
                      MaxCodeAttempts + Cardinality(Visits)
  BY DEF GuessesFit
<1> DEFINE u == SentRead(r)
           row == [verification[u] EXCEPT !.attempts = verification[u].attempts + 1]
<1>1. /\ u \in SentCodes /\ verification[u] \in SentCode
      /\ verification \in [SentCodes -> SentCode] /\ visit \in [Visits -> Visit]
  BY ReadRowTyped DEF CountAttempt, RegInv, RegCore, RegistrationTypeOK
<1>2. visit[r].pc = "attempt" /\ visit' = [visit EXCEPT ![r] = IdleVisit]
      /\ verification' = [verification EXCEPT ![u] = row]
  BY DEF CountAttempt, VisitGoes
<1>3. visit'[r].pc = "idle" /\ \A s \in Visits : s # r => visit'[s] = visit[s]
  BY <1>1, <1>2, IdleVisitTyped
<1>4. verification[v].attempts \in Nat BY RowsTyped DEF RegInv, RegCore
<1>5. verification[v].attempts + Cardinality(Guessing(v)) < MaxCodeAttempts + Cardinality(Visits)
  BY DEF RegInv, GuessesFit
<1>6. Guessing(v)' = Guessing(v) \ {r} BY <1>3 DEF Guessing, SentRead, SentTo
<1>7. CASE v = u
  <2>1. r \in Guessing(v) BY <1>2, <1>7 DEF Guessing
  <2>2. Cardinality(Guessing(v))' = Cardinality(Guessing(v)) - 1
    BY <1>6, <2>1, GuessingIsFinite, FS_RemoveElement
  <2>3. row.attempts = verification[u].attempts + 1 BY <1>1 DEF SentCode
  <2> HIDE DEF u, row
  <2>4. verification'[v] = row BY <1>1, <1>2, <1>7
  <2> QED BY <1>4, <1>5, <1>7, <2>2, <2>3, <2>4, GuessingIsFinite, RegistrationAssumption
<1>8. CASE v # u
  <2> HIDE DEF u, row
  <2>1. verification'[v] = verification[v] BY <1>1, <1>2, <1>8
  <2>2. Cardinality(Guessing(v))' <= Cardinality(Guessing(v))
    BY <1>6, GuessingIsFinite, FS_Subset
  <2> QED BY <1>4, <1>5, <2>1, <2>2, GuessingIsFinite, RegistrationAssumption
<1> QED BY <1>7, <1>8

\* A code that ends keeps its count.
LEMMA EndsCounted ==
  ASSUME RegCore, NEW u, NEW v \in SentCodes,
         verification' = verification \/
           verification' = [verification EXCEPT ![u].state = "over"]
  PROVE  verification'[v].attempts <= verification[v].attempts
<1>1. verification \in [SentCodes -> SentCode] /\ verification[v] \in SentCode
  BY DEF RegCore, RegistrationTypeOK
<1>2. verification'[v] = verification[v] \/
      verification'[v] = [verification[v] EXCEPT !.state = "over"]
  BY <1>1
<1> QED BY <1>1, <1>2 DEF SentCode

\* A request comes to count an attempt while there are few, beside others.
LEMMA GuessBegins ==
  ASSUME RegInv, RegistrationTypeOK', NEW r \in Visits, ReadVerification(r)
  PROVE  GuessesFit'
<1>1. visit \in [Visits -> Visit] /\ visit[r] \in Visit /\ RegCore /\ visit[r].pc = "read"
  BY DEF RegInv, RegCore, RegistrationTypeOK, ReadVerification
<1>2. CASE VisitGoes(r, "idle")
  <2>1. \A v \in SentCodes : verification'[v].attempts <= verification[v].attempts
    BY <1>1, EndsCounted DEF ReadVerification
  <2>2. \A s \in Visits : visit'[s].pc = "attempt" => visit'[s] = visit[s]
    BY <1>1, <1>2, IdleVisitTyped DEF VisitGoes
  <2> QED BY <2>1, <2>2, GuessesKept
<1>3. CASE ~VisitGoes(r, "idle")
  <2>1. PICK n \in 1..MaxSent :
          /\ visit' = [visit EXCEPT
               ![r].pc = IF visit[r].right THEN "consume" ELSE "attempt", ![r].sent = n]
          /\ verification' = verification /\ verification[SentTo(r, n)].attempts < MaxCodeAttempts
    BY <1>3 DEF ReadVerification
  <2> SUFFICES ASSUME NEW v \in SentCodes
               PROVE  verification[v].attempts + Cardinality(Guessing(v))' <
                        MaxCodeAttempts + Cardinality(Visits)
    BY <2>1 DEF GuessesFit
  <2>2. verification[v].attempts \in Nat BY RowsTyped DEF RegInv, RegCore
  <2>3. /\ visit'[r].email = visit[r].email /\ visit'[r].purpose = visit[r].purpose
        /\ visit'[r].sent = n
        /\ \A s \in Visits : s # r => visit'[s] = visit[s]
    BY <1>1, <2>1 DEF Visit
  <2>4. SentRead(r)' = SentTo(r, n) /\ \A s \in Visits : s # r => SentRead(s)' = SentRead(s)
    BY <2>3 DEF SentRead, SentTo
  <2>5. CASE v = SentTo(r, n)
    BY <2>1, <2>2, <2>5, GuessingIsFinite, RegistrationAssumption
  <2>6. CASE v # SentTo(r, n)
    <3>1. Guessing(v)' \subseteq Guessing(v) BY <2>3, <2>4, <2>6 DEF Guessing
    <3>2. Cardinality(Guessing(v))' <= Cardinality(Guessing(v))
      BY <3>1, GuessingIsFinite, FS_Subset
    <3>3. verification[v].attempts + Cardinality(Guessing(v)) < MaxCodeAttempts + Cardinality(Visits)
      BY DEF RegInv, GuessesFit
    <3> QED BY <2>2, <3>2, <3>3, GuessingIsFinite, RegistrationAssumption
  <2> QED BY <2>5, <2>6
<1> QED BY <1>2, <1>3

\* Steps that do not lead to an attempt.
LEMMA GoesElsewhere ==
  ASSUME visit \in [Visits -> Visit],
         \/ UNCHANGED visit
         \/ \E r \in Visits : \E v : RequestBegins(r, v) /\ v.pc # "attempt"
         \/ \E r \in Visits, pc \in {"idle", "code", "bind", "reward", "wallet", "commit"} :
              VisitGoes(r, pc)
         \/ \E r \in Visits : visit' = [visit EXCEPT ![r].pc = "commit", ![r].referrer = NoUser]
  PROVE  \A s \in Visits : visit'[s].pc = "attempt" => visit'[s] = visit[s]
<1>1. CASE UNCHANGED visit BY <1>1
<1>2. ASSUME NEW r \in Visits, NEW v, visit' = [visit EXCEPT ![r] = v], v.pc # "attempt"
      PROVE  \A s \in Visits : visit'[s].pc = "attempt" => visit'[s] = visit[s]
  BY <1>2
<1>3. CASE \E r \in Visits : \E v : RequestBegins(r, v) /\ v.pc # "attempt"
  BY <1>2, <1>3 DEF RequestBegins
<1>4. ASSUME NEW r \in Visits, NEW pc \in {"idle", "code", "bind", "reward", "wallet", "commit"},
             VisitGoes(r, pc)
      PROVE  \A s \in Visits : visit'[s].pc = "attempt" => visit'[s] = visit[s]
  <2> DEFINE v == IF pc = "idle" THEN IdleVisit ELSE [visit[r] EXCEPT !.pc = pc]
  <2>1. visit' = [visit EXCEPT ![r] = v] BY <1>4 DEF VisitGoes
  <2>2. visit[r] \in Visit OBVIOUS
  <2>3. v.pc = pc BY <2>2, IdleVisitTyped DEF Visit
  <2> HIDE DEF v
  <2> QED BY <1>2, <2>1, <2>3
<1>5. ASSUME NEW r \in Visits,
             visit' = [visit EXCEPT ![r].pc = "commit", ![r].referrer = NoUser]
      PROVE  \A s \in Visits : visit'[s].pc = "attempt" => visit'[s] = visit[s]
  <2> DEFINE v == [visit[r] EXCEPT !.pc = "commit", !.referrer = NoUser]
  <2>1. visit' = [visit EXCEPT ![r] = v] BY <1>5
  <2>2. visit[r] \in Visit OBVIOUS
  <2>3. v.pc = "commit" BY <2>2 DEF Visit
  <2> HIDE DEF v
  <2> QED BY <1>2, <2>1, <2>3
<1> QED BY <1>1, <1>3, <1>4, <1>5

\* Whoever else moves comes to no attempt.
LEMMA OtherStepsGuessNot ==
  ASSUME RegInv, RegistrationTypeOK', RegistrationNext,
         ~\E r \in Visits : ReadVerification(r) \/ CountAttempt(r)
  PROVE  GuessesFit'
<1>0. visit \in [Visits -> Visit] /\ RegistrationTypeOK /\ RegCore
      /\ verification \in [SentCodes -> SentCode]
  BY DEF RegInv, RegCore, RegistrationTypeOK
<1>1. CASE \E e \in Emails, p \in Purposes, n \in 1..MaxSent : SendVerificationCode(e, p, n)
  <2>1. visit' = visit /\ \E u \in SentCodes :
          verification' = [verification EXCEPT ![u] = [state |-> "live", attempts |-> 0]]
    BY <1>1 DEF SendVerificationCode, OneStepRequest, SentCodes
  <2>2. ASSUME NEW v \in SentCodes
        PROVE  verification'[v].attempts <= verification[v].attempts
    <3>1. verification[v].attempts \in Nat BY <1>0, RowsTyped
    <3>2. verification'[v] = verification[v] \/
          verification'[v] = [state |-> "live", attempts |-> 0]
      BY <1>0, <2>1
    <3> QED BY <3>1, <3>2
  <2> QED BY <2>1, <2>2, GuessesKept
<1>2. CASE \E r \in Visits : ConsumeVerification(r)
  <2>1. PICK r \in Visits : ConsumeVerification(r) BY <1>2
  <2>2. /\ verification' = [verification EXCEPT ![SentRead(r)].state = "over"]
        /\ VisitGoes(r, "insert") \/ VisitGoes(r, "idle")
    BY <2>1 DEF ConsumeVerification
  <2>3. \A v \in SentCodes : verification'[v].attempts <= verification[v].attempts
    BY <1>0, <2>2, EndsCounted
  <2>4. \A s \in Visits : s # r => visit'[s] = visit[s] BY <1>0, <2>2 DEF VisitGoes
  <2>5. visit'[r].pc # "attempt"
    <3>1. CASE VisitGoes(r, "idle") BY <1>0, <3>1, IdleVisitTyped DEF VisitGoes
    <3>2. CASE VisitGoes(r, "insert") BY <1>0, <3>2 DEF VisitGoes, Visit
    <3> QED BY <2>2, <3>1, <3>2
  <2> QED BY <2>3, <2>4, <2>5, GuessesKept
<1>3. CASE /\ ~\E e \in Emails, p \in Purposes, n \in 1..MaxSent : SendVerificationCode(e, p, n)
           /\ ~\E r \in Visits : ConsumeVerification(r)
  <2>1. verification' = verification
    BY <1>3 DEF RegistrationNext, EnsureAffiliateProfile, UpdateCode, DeleteCode,
       BeginPasswordReset, BeginRegister, BeginRedeem, InsertUser, ConsumeCode, BindReferral,
       LockReferrerWallet, LockOwnWallet, CommitRequest, RequestAborts, tables
  <2>2. ASSUME NEW v \in SentCodes
        PROVE  verification'[v].attempts <= verification[v].attempts
    BY <1>0, <2>1, RowsTyped
  <2>3. \A s \in Visits : visit'[s].pc = "attempt" => visit'[s] = visit[s]
    <3>1. CASE \/ UNCHANGED visit
               \/ \E r \in Visits : \E v : RequestBegins(r, v) /\ v.pc # "attempt"
               \/ \E r \in Visits, pc \in {"idle", "code", "bind", "reward", "wallet", "commit"} :
                    VisitGoes(r, pc)
               \/ \E r \in Visits : visit' = [visit EXCEPT ![r].pc = "commit", ![r].referrer = NoUser]
      BY <1>0, <3>1, GoesElsewhere
    <3>2. ASSUME NEW r \in Visits, NEW e \in Emails, NEW right \in BOOLEAN,
                 BeginPasswordReset(r, e, right)
          PROVE  \E v : RequestBegins(r, v) /\ v.pc # "attempt"
      <4> DEFINE v == [IdleVisit EXCEPT !.pc = "read", !.purpose = "password_reset",
                                         !.email = e, !.right = right]
      <4>1. v.pc = "read" BY DEF IdleVisit
      <4>2. RequestBegins(r, v) BY <3>2 DEF BeginPasswordReset
      <4> QED BY <4>1, <4>2
    <3>3. ASSUME NEW r \in Visits, NEW e \in Emails, NEW right \in BOOLEAN, NEW c, NEW referrer,
                 BeginRegister(r, e, c, referrer, right)
          PROVE  \E v : RequestBegins(r, v) /\ v.pc # "attempt"
      <4> DEFINE v == [pc |-> "read", purpose |-> "registration", email |-> e, code |-> c,
                       referrer |-> referrer, right |-> right, sent |-> 0]
      <4>1. v.pc = "read" OBVIOUS
      <4>2. RequestBegins(r, v) BY <3>3 DEF BeginRegister
      <4> QED BY <4>1, <4>2
    <3>4. ASSUME NEW r \in Visits, NEW e \in Emails, NEW c \in Codes, BeginRedeem(r, e, c)
          PROVE  \E v : RequestBegins(r, v) /\ v.pc # "attempt"
      <4> DEFINE v == [IdleVisit EXCEPT !.pc = "code", !.email = e, !.code = c]
      <4>1. v.pc = "code" BY DEF IdleVisit
      <4>2. RequestBegins(r, v) BY <3>4 DEF BeginRedeem
      <4> QED BY <4>1, <4>2
    <3>5. ASSUME NEW r \in Visits,
                 \/ InsertUser(r) \/ ConsumeCode(r) \/ LockReferrerWallet(r)
                 \/ LockOwnWallet(r) \/ CommitRequest(r) \/ RequestAborts(r)
          PROVE  \E pc \in {"idle", "code", "bind", "reward", "wallet", "commit"} : VisitGoes(r, pc)
      <4>1. CASE InsertUser(r) BY <4>1 DEF InsertUser
      <4>2. CASE ConsumeCode(r) BY <4>2 DEF ConsumeCode, NextAfterCode
      <4>3. CASE LockReferrerWallet(r) \/ LockOwnWallet(r)
        BY <4>3 DEF LockReferrerWallet, LockOwnWallet
      <4>4. CASE CommitRequest(r) \/ RequestAborts(r) BY <4>4 DEF CommitRequest, RequestAborts
      <4> QED BY <3>5, <4>1, <4>2, <4>3, <4>4
    <3>6. ASSUME NEW r \in Visits, BindReferral(r)
          PROVE  VisitGoes(r, "reward")
                 \/ visit' = [visit EXCEPT ![r].pc = "commit", ![r].referrer = NoUser]
      BY <3>6 DEF BindReferral
    <3>7. ASSUME \/ \E e \in Emails : EnsureAffiliateProfile(e)
                 \/ \E c \in Codes, max \in MaxUses, active \in BOOLEAN : UpdateCode(c, max, active)
                 \/ \E c \in Codes : DeleteCode(c)
          PROVE  UNCHANGED visit
      BY <3>7 DEF EnsureAffiliateProfile, UpdateCode, DeleteCode, OneStepRequest
    <3> QED BY <1>3, <3>1, <3>2, <3>3, <3>4, <3>5, <3>6, <3>7 DEF RegistrationNext
  <2> QED BY <2>2, <2>3, GuessesKept
<1> QED BY <1>1, <1>2, <1>3

-----------------------------------------------------------------------------
(* The steps together.                                                     *)

LEMMA RegistrationInitially == RegistrationInit => RegInv
<1> SUFFICES ASSUME RegistrationInit PROVE RegInv OBVIOUS
<1> USE DEF RegistrationInit
<1>1. PICK max \in MaxUses : code = [c \in Codes |->
        [state |-> "there", active |-> TRUE, max |-> max, used |-> 0, peak |-> max]]
  OBVIOUS
<1>2. max \in Nat /\ max > 0 BY RegistrationAssumption
<1>3. RegistrationTypeOK
  <2>1. code \in [Codes -> CodeRow] BY <1>1, <1>2 DEF CodeRow
  <2>2. visit \in [Visits -> Visit] BY IdleVisitTyped
  <2>3. granted \in [Grants -> Nat] OBVIOUS
  <2>4. verification \in [SentCodes -> SentCode] BY DEF SentCode
  <2>5. requestCount \in 0..MaxRequests BY RegistrationAssumption
  <2>6. referral \in [Emails -> Emails \cup {NoUser}] OBVIOUS
  <2>7. registered \subseteq Emails /\ profile \subseteq Emails /\ usage \subseteq Emails \X Codes
    OBVIOUS
  <2> QED BY <2>1, <2>2, <2>3, <2>4, <2>5, <2>6, <2>7 DEF RegistrationTypeOK
<1>4. VisitsFit
  BY IdleVisitTyped
  DEF VisitsFit, PurposeFits, UserFits, CodeFits, TransactionSteps, LockingSteps
<1>5. VisitsApart
  BY IdleVisitTyped DEF VisitsApart, LocksClash, TransactionSteps, LockingSteps
<1>6. PeaksHold BY <1>1, <1>2 DEF PeaksHold
<1>7. CodesAreNotOverused
  <2> SUFFICES ASSUME NEW c \in Codes
               PROVE  /\ code[c].used <= code[c].peak
                      /\ code[c].used = Cardinality({e \in Emails : <<e, c>> \in usage})
    BY DEF CodesAreNotOverused
  <2>1. {e \in Emails : <<e, c>> \in usage} = {} OBVIOUS
  <2>2. code[c].used = 0 /\ code[c].peak = max BY <1>1
  <2>3. Cardinality({}) = 0 BY FS_EmptySet
  <2> HIDE DEF RegistrationInit
  <2>4. Cardinality({e \in Emails : <<e, c>> \in usage}) = 0 BY <2>1, <2>3, Zenon
  <2>5. 0 <= max BY <1>2
  <2> QED BY <2>2, <2>4, <2>5
<1>8. GrantsMatch
  <2> SUFFICES ASSUME NEW e \in Emails
               PROVE  /\ granted[<<"default", e, NoCode>>] = IF e \in registered THEN 1 ELSE 0
                      /\ granted[<<"reward", e, NoCode>>] = 0
                      /\ \A c \in Codes : granted[<<"code", e, c>>] = 0
    BY DEF GrantsMatch
  <2>1. /\ <<"default", e, NoCode>> \in Grants /\ <<"reward", e, NoCode>> \in Grants
        /\ \A c \in Codes : <<"code", e, c>> \in Grants
    BY DEF Grants
  <2> QED BY <2>1
<1>9. GuessesFit
  <2> SUFFICES ASSUME NEW v \in SentCodes
               PROVE  verification[v].attempts + Cardinality(Guessing(v)) <
                        MaxCodeAttempts + Cardinality(Visits)
    BY DEF GuessesFit
  <2>1. verification[v].attempts = 0 OBVIOUS
  <2> QED BY <2>1, GuessingIsFinite, RegistrationAssumption
<1> QED BY <1>3, <1>4, <1>5, <1>6, <1>7, <1>8, <1>9 DEF RegInv, RegCore, RowsFit

LEMMA RegistrationSteps == RegInv /\ [RegistrationNext]_registrationVars => RegInv'
<1> SUFFICES ASSUME RegInv, [RegistrationNext]_registrationVars PROVE RegInv' OBVIOUS
<1>0. RegCore BY DEF RegInv
<1>1. CASE UNCHANGED registrationVars
  <2> USE <1>1 DEF registrationVars
  <2>1. RegistrationTypeOK' BY DEF RegInv, RegCore, RegistrationTypeOK
  <2>2. VisitsFit' /\ VisitsApart'
    BY DEF RegInv, RegCore, VisitsFit, VisitsApart, PurposeFits, UserFits, CodeFits, LocksClash
  <2>3. PeaksHold' /\ CodesAreNotOverused'
    BY DEF RegInv, RegCore, RowsFit, PeaksHold, CodesAreNotOverused
  <2>4. GrantsMatch' BY DEF RegInv, RegCore, RowsFit, GrantsMatch
  <2>5. GuessesFit' BY DEF RegInv, GuessesFit, Guessing, SentRead, SentTo
  <2> QED BY <2>1, <2>2, <2>3, <2>4, <2>5 DEF RegInv, RegCore, RowsFit
<1>2. CASE RegistrationNext
  <2>1. RegCore'
    <3>1. CASE \/ \E e \in Emails, p \in Purposes, n \in 1..MaxSent : SendVerificationCode(e, p, n)
               \/ \E e \in Emails : EnsureAffiliateProfile(e)
      BY <1>0, <3>1, SendOrProfileCore
    <3>2. CASE \E c \in Codes, max \in MaxUses, active \in BOOLEAN : UpdateCode(c, max, active)
      BY <1>0, <3>2, UpdateCodeCore
    <3>3. CASE \E c \in Codes : DeleteCode(c) BY <1>0, <3>3, DeleteCodeCore
    <3>4. ASSUME NEW r \in Visits, NEW e \in Emails, NEW right \in BOOLEAN,
                 \/ BeginPasswordReset(r, e, right)
                 \/ \E c \in Codes \cup {NoCode}, referrer \in Emails \cup {NoUser} :
                      BeginRegister(r, e, c, referrer, right)
          PROVE  RegCore'
      BY <1>0, <3>4, BeginsCore
    <3>5. ASSUME NEW r \in Visits, NEW e \in Emails, NEW c \in Codes, BeginRedeem(r, e, c)
          PROVE  RegCore'
      <4>1. TRUE \in BOOLEAN OBVIOUS
      <4> QED BY <1>0, <3>5, <4>1, BeginsCore
    <3>6. ASSUME NEW r \in Visits,
                 \/ ReadVerification(r) \/ CountAttempt(r) \/ ConsumeVerification(r)
                 \/ InsertUser(r) \/ ConsumeCode(r) \/ BindReferral(r)
                 \/ LockReferrerWallet(r) \/ LockOwnWallet(r) \/ CommitRequest(r)
                 \/ RequestAborts(r)
          PROVE  RegCore'
      BY <1>0, <3>6, ReadCore, CountCore, ConsumeVerificationCore, InsertCore, ConsumeCodeCore,
         BindCore, LockWalletCore, CommitCore, AbortCore
    <3> QED BY <1>2, <3>1, <3>2, <3>3, <3>4, <3>5, <3>6 DEF RegistrationNext
  <2>2. GuessesFit'
    <3>0. RegistrationTypeOK' BY <2>1 DEF RegCore
    <3>1. CASE \E r \in Visits : ReadVerification(r) BY <3>0, <3>1, GuessBegins
    <3>2. CASE \E r \in Visits : CountAttempt(r) BY <3>0, <3>2, GuessCounted
    <3> QED BY <1>2, <3>0, <3>1, <3>2, OtherStepsGuessNot
  <2> QED BY <2>1, <2>2 DEF RegInv
<1> QED BY <1>1, <1>2

LEMMA RegInvPromises == RegInv => RegistrationTypeOK /\ RegistrationConsistent
<1> SUFFICES ASSUME RegInv PROVE RegistrationTypeOK /\ RegistrationConsistent OBVIOUS
<1>1. AttemptsAreBounded
  <2> SUFFICES ASSUME NEW v \in SentCodes
               PROVE  verification[v].attempts < MaxCodeAttempts + Cardinality(Visits)
    BY DEF AttemptsAreBounded
  <2>1. verification[v].attempts \in Nat BY RowsTyped DEF RegInv, RegCore
  <2>2. verification[v].attempts + Cardinality(Guessing(v)) < MaxCodeAttempts + Cardinality(Visits)
    BY DEF RegInv, GuessesFit
  <2> QED BY <2>1, <2>2, GuessingIsFinite, RegistrationAssumption
<1> QED BY <1>1 DEF RegistrationConsistent, RegInv, RegCore, RowsFit

\* Rows, users, grants and requests keep their types.
THEOREM RegistrationTypes == RegistrationSpec => []RegistrationTypeOK
BY RegistrationInitially, RegistrationSteps, RegInvPromises, PTL DEF RegistrationSpec

\* For any number of users, codes and requests, whatever races, fails or dies on
\* the way (CommitRequest, ConsumeCode and RequestAborts): no code is used more
\* often than it ever allowed, every user, use and referral has got what it grants
\* once, and guesses pass the limit by no more than the requests at one time.
THEOREM RegistrationIsConsistent == RegistrationSpec => []RegistrationConsistent
BY RegistrationInitially, RegistrationSteps, RegInvPromises, PTL DEF RegistrationSpec

-----------------------------------------------------------------------------
(* Users and sessions.                                                     *)

\* Logins that are still to be decided or counted, and those about to be counted.
GuessSteps == {"bootstrap", "authenticate", "failed"}
InFlight(k) == {c \in Callers : caller[c].pc \in GuessSteps /\ caller[c].key = k}
AboutToCount(k) == {c \in Callers : caller[c].pc = "failed" /\ caller[c].key = k}

\* A guess is counted or about to be, and no login begins behind a lock.
GuessesCounted ==
  \A k \in LoginKeys :
    /\ ~limiter[k].locked => limiter[k].failures < MaxFailures
    /\ limiter[k].failures + Cardinality(InFlight(k)) < MaxFailures + Cardinality(Callers)
    /\ guesses[k] <= limiter[k].failures + Cardinality(AboutToCount(k))

\* Every session that lives is younger than the last time the sessions of its user ended.
LiveSessionsAreNew ==
  \A t \in Tokens :
    session[t].state = "live" => session[t].closings = closings[session[t].user]

\* Who was restored has not been deleted again.
RestoredUsersAreThere == \A u \in restored : account[u].status \notin {"none", "deleted"}

UsersInv == UsersTypeOK /\ GuessesCounted /\ LiveSessionsAreNew /\ RestoredUsersAreThere

-----------------------------------------------------------------------------

LEMMA IdleCallerTyped ==
  /\ AnyUser \in Users /\ AnyPassword \in Passwords /\ AnyKey \in LoginKeys
  /\ IdleCaller \in Caller /\ IdleCaller.pc = "idle"
<1>1. AnyUser \in Users /\ AnyPassword \in Passwords
  BY UsersAssumption DEF AnyUser, AnyPassword
<1>2. LoginKeys # {}
  <2>1. PICK w \in Clients : TRUE BY UsersAssumption
  <2>2. [client |-> w, user |-> AnyUser, credential |-> "email"] \in LoginKeys
    BY <1>1 DEF LoginKeys
  <2> QED BY <2>2
<1>3. AnyKey \in LoginKeys BY <1>2 DEF AnyKey
<1> QED BY <1>1, <1>3 DEF IdleCaller, Caller

LEMMA CallerGoesTyped ==
  ASSUME UsersTypeOK, NEW c \in Callers,
         NEW pc \in {"idle", "authenticate", "failed", "right", "session", "update", "revoke",
                     "again", "remove"},
         CallerGoes(c, pc)
  PROVE  /\ caller' \in [Callers -> Caller] /\ calls' \in 0..MaxCalls
         /\ caller'[c].pc = pc
         /\ pc # "idle" => caller'[c].key = caller[c].key
         /\ \A d \in Callers : d # c => caller'[d] = caller[d]
<1> DEFINE v == IF pc = "idle" THEN IdleCaller ELSE [caller[c] EXCEPT !.pc = pc]
<1>1. caller \in [Callers -> Caller] /\ caller[c] \in Caller /\ calls \in 0..MaxCalls
  BY DEF UsersTypeOK
<1>2. caller' = [caller EXCEPT ![c] = v] /\ UNCHANGED calls BY DEF CallerGoes
<1>3. v \in Caller /\ v.pc = pc /\ (pc # "idle" => v.key = caller[c].key)
  BY <1>1, IdleCallerTyped DEF Caller
<1> HIDE DEF v
<1> QED BY <1>1, <1>2, <1>3

LEMMA CallBeginsTyped ==
  ASSUME UsersTypeOK, NEW c \in Callers, NEW v \in Caller, CallBegins(c, v)
  PROVE  /\ caller' \in [Callers -> Caller] /\ calls' \in 0..MaxCalls
         /\ caller[c].pc = "idle" /\ caller'[c] = v
         /\ \A d \in Callers : d # c => caller'[d] = caller[d]
BY UsersAssumption DEF UsersTypeOK, CallBegins

LEMMA InFlightIsFinite ==
  ASSUME NEW u
  PROVE  /\ IsFiniteSet(InFlight(u)) /\ Cardinality(InFlight(u)) \in Nat
         /\ IsFiniteSet(AboutToCount(u)) /\ Cardinality(AboutToCount(u)) \in Nat
         /\ Cardinality(AboutToCount(u)) <= Cardinality(InFlight(u))
         /\ Cardinality(InFlight(u)) <= Cardinality(Callers) /\ Cardinality(Callers) \in Nat
         /\ Cardinality(InFlight(u))' \in Nat /\ Cardinality(AboutToCount(u))' \in Nat
         /\ Cardinality(InFlight(u))' <= Cardinality(Callers)
         /\ IsFiniteSet(InFlight(u)') /\ IsFiniteSet(AboutToCount(u)')
<1>1. /\ AboutToCount(u) \subseteq InFlight(u) /\ InFlight(u) \subseteq Callers
      /\ AboutToCount(u)' \subseteq Callers /\ InFlight(u)' \subseteq Callers
  BY DEF AboutToCount, InFlight, GuessSteps
<1> QED BY <1>1, FS_Subset, FS_CardinalityType, UsersAssumption

\* Nobody comes to guess, and the limiter stays.
LEMMA GuessesStay ==
  ASSUME UsersInv, UsersTypeOK', UNCHANGED <<limiter, guesses>>,
         \A c \in Callers : caller'[c].pc \in GuessSteps =>
           /\ caller[c].pc \in GuessSteps /\ caller'[c].key = caller[c].key
           /\ caller'[c].pc = "failed" <=> caller[c].pc = "failed",
         \A c \in Callers : caller[c].pc = "failed" => caller'[c].pc \in GuessSteps
  PROVE  GuessesCounted'
<1> SUFFICES ASSUME NEW k \in LoginKeys
             PROVE  /\ ~limiter[k].locked => limiter[k].failures < MaxFailures
                    /\ limiter[k].failures + Cardinality(InFlight(k))' <
                         MaxFailures + Cardinality(Callers)
                    /\ guesses[k] <= limiter[k].failures + Cardinality(AboutToCount(k))'
  BY DEF GuessesCounted
<1>1. InFlight(k)' \subseteq InFlight(k) BY DEF InFlight
<1>2. AboutToCount(k)' = AboutToCount(k) BY DEF AboutToCount, GuessSteps
<1>3. Cardinality(InFlight(k))' <= Cardinality(InFlight(k))
  BY <1>1, InFlightIsFinite, FS_Subset
<1>4. limiter[k].failures \in Nat BY DEF UsersInv, UsersTypeOK
<1>5. /\ ~limiter[k].locked => limiter[k].failures < MaxFailures
      /\ limiter[k].failures + Cardinality(InFlight(k)) < MaxFailures + Cardinality(Callers)
      /\ guesses[k] <= limiter[k].failures + Cardinality(AboutToCount(k))
  BY DEF UsersInv, GuessesCounted
<1>6. limiter[k].failures + Cardinality(InFlight(k))' < MaxFailures + Cardinality(Callers)
  BY <1>3, <1>4, <1>5, InFlightIsFinite, UsersAssumption
<1> QED BY <1>2, <1>5, <1>6

-----------------------------------------------------------------------------
(* Logins.                                                                 *)

LEMMA BeginLoginKeeps ==
  ASSUME UsersInv, NEW c \in Callers, NEW k \in LoginKeys, NEW p \in Passwords, BeginLogin(c, k, p)
  PROVE  UsersInv'
<1> USE DEF UsersInv
<1> DEFINE v == [pc |-> "bootstrap", op |-> "login", key |-> k, user |-> k.user, password |-> p]
<1>1. v \in Caller /\ v.pc = "bootstrap" /\ v.key = k BY DEF Caller, LoginKeys
<1>2. CallBegins(c, v) BY DEF BeginLogin
<1> HIDE DEF v
<1>3. /\ caller' \in [Callers -> Caller] /\ calls' \in 0..MaxCalls
      /\ caller[c].pc = "idle" /\ caller'[c] = v
      /\ \A d \in Callers : d # c => caller'[d] = caller[d]
  BY <1>1, <1>2, CallBeginsTyped
<1>4. UNCHANGED <<account, session, closings, restored>> BY DEF BeginLogin
<1>5. /\ limiter \in [LoginKeys -> [failures: Nat, locked: BOOLEAN]] /\ guesses \in [LoginKeys -> Nat]
      /\ NoEntry \in [failures: Nat, locked: BOOLEAN] /\ 0 \in Nat
  BY DEF UsersTypeOK, NoEntry
<1>6. /\ limiter' \in [LoginKeys -> [failures: Nat, locked: BOOLEAN]] /\ guesses' \in [LoginKeys -> Nat]
      /\ limiter'[k].failures < MaxFailures
      /\ limiter'[k].locked = FALSE
      /\ (guesses'[k] = guesses[k] /\ limiter'[k] = limiter[k]) \/ guesses'[k] = 0
      /\ \A w \in LoginKeys : w # k => guesses'[w] = guesses[w] /\ limiter'[w] = limiter[w]
  <2>1. CASE limiter' = limiter /\ guesses' = guesses /\ ~limiter[k].locked
    <3>1. limiter[k].failures < MaxFailures /\ limiter[k].locked = FALSE
      BY <1>5, <2>1 DEF GuessesCounted
    <3> QED BY <1>5, <2>1, <3>1
  <2>2. CASE limiter' = [limiter EXCEPT ![k] = NoEntry] /\ guesses' = [guesses EXCEPT ![k] = 0]
    <3>1. 0 < MaxFailures BY UsersAssumption
    <3>2. limiter'[k] = NoEntry /\ guesses'[k] = 0 BY <1>5, <2>2
    <3>3. /\ limiter' \in [LoginKeys -> [failures: Nat, locked: BOOLEAN]] /\ guesses' \in [LoginKeys -> Nat]
          /\ \A w \in LoginKeys : w # k => guesses'[w] = guesses[w] /\ limiter'[w] = limiter[w]
      BY <1>5, <2>2
    <3> QED BY <3>1, <3>2, <3>3 DEF NoEntry
  <2> QED BY <2>1, <2>2 DEF BeginLogin
<1>7. UsersTypeOK' BY <1>3, <1>4, <1>6 DEF UsersTypeOK
<1>8. GuessesCounted'
  <2> SUFFICES ASSUME NEW w \in LoginKeys
               PROVE  /\ ~limiter'[w].locked => limiter'[w].failures < MaxFailures
                      /\ limiter'[w].failures + Cardinality(InFlight(w))' <
                           MaxFailures + Cardinality(Callers)
                      /\ guesses'[w] <= limiter'[w].failures + Cardinality(AboutToCount(w))'
    BY DEF GuessesCounted
  <2>1. AboutToCount(w)' = AboutToCount(w) BY <1>1, <1>3 DEF AboutToCount
  <2>2. w # k => InFlight(w)' = InFlight(w) BY <1>1, <1>3 DEF InFlight, GuessSteps
  <2>3. limiter'[w].failures \in Nat /\ limiter[w].failures \in Nat /\ guesses'[w] \in Nat
    BY <1>5, <1>6
  <2>4. /\ ~limiter[w].locked => limiter[w].failures < MaxFailures
        /\ limiter[w].failures + Cardinality(InFlight(w)) < MaxFailures + Cardinality(Callers)
        /\ guesses[w] <= limiter[w].failures + Cardinality(AboutToCount(w))
    BY DEF GuessesCounted
  <2>5. CASE w = k
    <3>1. guesses'[w] <= limiter'[w].failures + Cardinality(AboutToCount(w))'
      BY <1>6, <2>1, <2>3, <2>4, <2>5, InFlightIsFinite
    <3>2. limiter'[w].failures + Cardinality(InFlight(w))' < MaxFailures + Cardinality(Callers)
      BY <1>6, <2>3, <2>5, InFlightIsFinite, UsersAssumption
    <3> QED BY <1>6, <2>5, <3>1, <3>2
  <2>6. CASE w # k BY <1>6, <2>1, <2>2, <2>4, <2>6
  <2> QED BY <2>5, <2>6
<1>9. LiveSessionsAreNew' /\ RestoredUsersAreThere'
  BY <1>4 DEF LiveSessionsAreNew, RestoredUsersAreThere
<1> QED BY <1>7, <1>8, <1>9

LEMMA AuthenticateKeeps ==
  ASSUME UsersInv, NEW c \in Callers, AuthenticateUser(c)
  PROVE  UsersInv'
<1> USE DEF UsersInv
<1> DEFINE k == caller[c].key
<1>1. UNCHANGED <<account, session, limiter, closings, restored>> /\ caller[c].pc = "authenticate"
  BY DEF AuthenticateUser
<1>2. caller[c] \in Caller /\ k \in LoginKeys /\ guesses \in [LoginKeys -> Nat]
      /\ limiter \in [LoginKeys -> [failures: Nat, locked: BOOLEAN]]
  BY DEF UsersTypeOK, Caller
<1>3. guesses' = guesses \/ (CallerGoes(c, "failed") /\ guesses' = [guesses EXCEPT ![k] = guesses[k] + 1])
  BY DEF AuthenticateUser
<1>4. PICK pc \in {"right", "failed"} : CallerGoes(c, pc) BY DEF AuthenticateUser
<1>5. /\ caller' \in [Callers -> Caller] /\ calls' \in 0..MaxCalls
      /\ caller'[c].pc = pc /\ caller'[c].key = caller[c].key
      /\ \A d \in Callers : d # c => caller'[d] = caller[d]
  BY <1>4, CallerGoesTyped
<1>6. guesses' \in [LoginKeys -> Nat] BY <1>2, <1>3
<1>7. UsersTypeOK' BY <1>1, <1>5, <1>6 DEF UsersTypeOK
<1>8. LiveSessionsAreNew' /\ RestoredUsersAreThere'
  BY <1>1 DEF LiveSessionsAreNew, RestoredUsersAreThere
<1>9. CASE pc = "right"
  <2>1. ~CallerGoes(c, "failed")
    <3>1. CallerGoes(c, "failed") => caller'[c].pc = "failed" BY CallerGoesTyped
    <3> QED BY <1>5, <1>9, <3>1
  <2>2. guesses' = guesses BY <1>3, <2>1
  <2>3. GuessesCounted' BY <1>1, <1>5, <1>7, <1>9, <2>2, GuessesStay DEF GuessSteps
  <2> QED BY <1>7, <1>8, <2>3
<1>10. CASE pc = "failed"
  <2>1. GuessesCounted'
    <3> SUFFICES ASSUME NEW w \in LoginKeys
                 PROVE  /\ ~limiter[w].locked => limiter[w].failures < MaxFailures
                        /\ limiter[w].failures + Cardinality(InFlight(w))' <
                             MaxFailures + Cardinality(Callers)
                        /\ guesses'[w] <= limiter[w].failures + Cardinality(AboutToCount(w))'
      BY <1>1 DEF GuessesCounted
    <3>1. InFlight(w)' = InFlight(w) BY <1>1, <1>5, <1>10 DEF InFlight, GuessSteps
    <3>2. /\ ~limiter[w].locked => limiter[w].failures < MaxFailures
          /\ limiter[w].failures + Cardinality(InFlight(w)) < MaxFailures + Cardinality(Callers)
          /\ guesses[w] <= limiter[w].failures + Cardinality(AboutToCount(w))
      BY DEF GuessesCounted
    <3>3. limiter[w].failures \in Nat /\ guesses[w] \in Nat BY <1>2
    <3>4. CASE w = k
      <4>1. AboutToCount(w)' = AboutToCount(w) \cup {c} /\ c \notin AboutToCount(w)
        BY <1>1, <1>5, <1>10, <3>4 DEF AboutToCount
      <4>2. Cardinality(AboutToCount(w))' = Cardinality(AboutToCount(w)) + 1
        BY <4>1, InFlightIsFinite, FS_AddElement
      <4>3. guesses'[w] <= guesses[w] + 1 BY <1>2, <1>3, <3>3, <3>4
      <4>4. guesses'[w] \in Nat BY <1>6
      <4> QED BY <3>1, <3>2, <3>3, <4>2, <4>3, <4>4, InFlightIsFinite
    <3>5. CASE w # k
      <4>1. AboutToCount(w)' = AboutToCount(w) BY <1>1, <1>5, <3>5 DEF AboutToCount
      <4>2. guesses'[w] = guesses[w] BY <1>2, <1>3, <3>5
      <4> QED BY <3>1, <3>2, <4>1, <4>2
    <3> QED BY <3>4, <3>5
  <2> QED BY <1>7, <1>8, <2>1
<1> QED BY <1>9, <1>10

\* A failure that is counted is no longer about to be.
LEMMA RecordFailureKeeps ==
  ASSUME UsersInv, NEW c \in Callers, RecordFailure(c)
  PROVE  UsersInv'
<1> USE DEF UsersInv
<1> DEFINE k == caller[c].key
           n == limiter[k].failures + 1
<1>1. UNCHANGED <<account, session, closings, restored>> /\ caller[c].pc = "failed"
      /\ CallerGoes(c, "idle")
  BY DEF RecordFailure
<1>2. caller[c] \in Caller /\ k \in LoginKeys /\ guesses \in [LoginKeys -> Nat]
      /\ limiter \in [LoginKeys -> [failures: Nat, locked: BOOLEAN]]
      /\ limiter[k] \in [failures: Nat, locked: BOOLEAN]
  BY DEF UsersTypeOK, Caller
<1>3. /\ caller' \in [Callers -> Caller] /\ calls' \in 0..MaxCalls
      /\ caller'[c].pc = "idle"
      /\ \A d \in Callers : d # c => caller'[d] = caller[d]
  BY <1>1, CallerGoesTyped
<1>4. \/ /\ limiter' = [limiter EXCEPT ![k] =
                          [failures |-> n, locked |-> limiter[k].locked \/ Locks(n)]]
         /\ guesses' = guesses
      \/ /\ limiter' = [limiter EXCEPT ![k] = [failures |-> 1, locked |-> Locks(1)]]
         /\ guesses' = [guesses EXCEPT ![k] = 1]
  BY DEF RecordFailure
<1>5. /\ limiter' \in [LoginKeys -> [failures: Nat, locked: BOOLEAN]] /\ guesses' \in [LoginKeys -> Nat]
      /\ limiter'[k].failures < MaxFailures \/ limiter'[k].locked
      /\ \/ limiter'[k].failures = n /\ guesses'[k] = guesses[k]
         \/ limiter'[k].failures = 1 /\ guesses'[k] = 1
      /\ \A w \in LoginKeys : w # k => guesses'[w] = guesses[w] /\ limiter'[w] = limiter[w]
  <2>1. n \in Nat /\ 1 \in Nat BY <1>2
  <2>2. (limiter[k].locked \/ Locks(n)) \in BOOLEAN /\ Locks(1) \in BOOLEAN BY <1>2 DEF Locks
  <2>3. Locks(n) \/ n < MaxFailures BY <2>1, UsersAssumption DEF Locks
  <2>4. Locks(1) \/ 1 < MaxFailures BY UsersAssumption DEF Locks
  <2> DEFINE a == (limiter[k].locked \/ Locks(n))
             b == Locks(1)
  <2>5. (a \/ n < MaxFailures) /\ (b \/ 1 < MaxFailures) /\ a \in BOOLEAN /\ b \in BOOLEAN
    BY <2>2, <2>3, <2>4
  <2>6. \/ limiter' = [limiter EXCEPT ![k] = [failures |-> n, locked |-> a]] /\ guesses' = guesses
        \/ /\ limiter' = [limiter EXCEPT ![k] = [failures |-> 1, locked |-> b]]
           /\ guesses' = [guesses EXCEPT ![k] = 1]
    BY <1>4
  <2> HIDE DEF a, b, n
  <2> QED BY <1>2, <2>1, <2>5, <2>6
<1>6. UsersTypeOK' BY <1>1, <1>3, <1>5 DEF UsersTypeOK
<1>7. LiveSessionsAreNew' /\ RestoredUsersAreThere'
  BY <1>1 DEF LiveSessionsAreNew, RestoredUsersAreThere
<1>8. GuessesCounted'
  <2> SUFFICES ASSUME NEW w \in LoginKeys
               PROVE  /\ ~limiter'[w].locked => limiter'[w].failures < MaxFailures
                      /\ limiter'[w].failures + Cardinality(InFlight(w))' <
                           MaxFailures + Cardinality(Callers)
                      /\ guesses'[w] <= limiter'[w].failures + Cardinality(AboutToCount(w))'
    BY DEF GuessesCounted
  <2>1. /\ ~limiter[w].locked => limiter[w].failures < MaxFailures
        /\ limiter[w].failures + Cardinality(InFlight(w)) < MaxFailures + Cardinality(Callers)
        /\ guesses[w] <= limiter[w].failures + Cardinality(AboutToCount(w))
    BY DEF GuessesCounted
  <2>2. limiter[w].failures \in Nat /\ guesses[w] \in Nat BY <1>2
  <2>3. CASE w = k
    <3>1. /\ InFlight(w)' = InFlight(w) \ {c} /\ c \in InFlight(w)
          /\ AboutToCount(w)' = AboutToCount(w) \ {c} /\ c \in AboutToCount(w)
      BY <1>1, <1>3, <2>3 DEF InFlight, AboutToCount, GuessSteps
    <3>2. /\ Cardinality(InFlight(w))' = Cardinality(InFlight(w)) - 1
          /\ Cardinality(AboutToCount(w))' = Cardinality(AboutToCount(w)) - 1
      BY <3>1, InFlightIsFinite, FS_RemoveElement
    <3>3. limiter'[w].failures + Cardinality(InFlight(w))' < MaxFailures + Cardinality(Callers)
      BY <1>5, <2>1, <2>2, <2>3, <3>2, InFlightIsFinite, UsersAssumption
    <3>4. guesses'[w] <= limiter'[w].failures + Cardinality(AboutToCount(w))'
      BY <1>5, <2>1, <2>2, <2>3, <3>2, InFlightIsFinite
    <3> QED BY <1>5, <2>3, <3>3, <3>4
  <2>4. CASE w # k
    <3>1. InFlight(w)' = InFlight(w) /\ AboutToCount(w)' = AboutToCount(w)
      BY <1>1, <1>3, <2>4 DEF InFlight, AboutToCount, GuessSteps
    <3> QED BY <1>5, <2>1, <2>4, <3>1
  <2> QED BY <2>3, <2>4
<1> QED BY <1>6, <1>7, <1>8

LEMMA RecordSuccessKeeps ==
  ASSUME UsersInv, NEW c \in Callers, RecordSuccess(c)
  PROVE  UsersInv'
<1> USE DEF UsersInv
<1> DEFINE k == caller[c].key
<1>1. UNCHANGED <<account, session, closings, restored>> /\ caller[c].pc = "right"
      /\ CallerGoes(c, "session")
      /\ limiter' = [limiter EXCEPT ![k] = NoEntry] /\ guesses' = [guesses EXCEPT ![k] = 0]
  BY DEF RecordSuccess
<1>2. caller[c] \in Caller /\ k \in LoginKeys /\ guesses \in [LoginKeys -> Nat]
      /\ limiter \in [LoginKeys -> [failures: Nat, locked: BOOLEAN]]
      /\ NoEntry \in [failures: Nat, locked: BOOLEAN] /\ 0 \in Nat
  BY DEF UsersTypeOK, Caller, NoEntry
<1>3. /\ caller' \in [Callers -> Caller] /\ calls' \in 0..MaxCalls
      /\ caller'[c].pc = "session"
      /\ \A d \in Callers : d # c => caller'[d] = caller[d]
  BY <1>1, CallerGoesTyped
<1>4. UsersTypeOK' BY <1>1, <1>2, <1>3 DEF UsersTypeOK
<1>5. LiveSessionsAreNew' /\ RestoredUsersAreThere'
  BY <1>1 DEF LiveSessionsAreNew, RestoredUsersAreThere
<1>6. GuessesCounted'
  <2> SUFFICES ASSUME NEW w \in LoginKeys
               PROVE  /\ ~limiter'[w].locked => limiter'[w].failures < MaxFailures
                      /\ limiter'[w].failures + Cardinality(InFlight(w))' <
                           MaxFailures + Cardinality(Callers)
                      /\ guesses'[w] <= limiter'[w].failures + Cardinality(AboutToCount(w))'
    BY DEF GuessesCounted
  <2>1. InFlight(w)' = InFlight(w) /\ AboutToCount(w)' = AboutToCount(w)
    BY <1>1, <1>3 DEF InFlight, AboutToCount, GuessSteps
  <2>2. CASE w = k
    <3>1. limiter'[w].failures = 0 /\ guesses'[w] = 0 BY <1>1, <1>2, <2>2 DEF NoEntry
    <3> QED BY <3>1, InFlightIsFinite, UsersAssumption
  <2>3. CASE w # k
    <3>1. limiter'[w] = limiter[w] /\ guesses'[w] = guesses[w] BY <1>1, <1>2, <2>3
    <3> QED BY <2>1, <3>1 DEF GuessesCounted
  <2> QED BY <2>2, <2>3
<1> QED BY <1>4, <1>5, <1>6

\* A restart forgets the limiter and the logins alike.
LEMMA RestartKeeps ==
  ASSUME UsersInv, Restart
  PROVE  UsersInv'
<1> USE DEF UsersInv
<1>1. /\ limiter' = [k \in LoginKeys |-> NoEntry] /\ guesses' = [k \in LoginKeys |-> 0]
      /\ caller' = [c \in Callers |-> IdleCaller]
      /\ UNCHANGED <<account, session, closings, restored, calls>>
  BY DEF Restart
<1>2. NoEntry \in [failures: Nat, locked: BOOLEAN] BY DEF NoEntry
<1>3. UsersTypeOK' BY <1>1, <1>2, IdleCallerTyped DEF UsersTypeOK
<1>4. LiveSessionsAreNew' /\ RestoredUsersAreThere'
  BY <1>1 DEF LiveSessionsAreNew, RestoredUsersAreThere
<1>5. GuessesCounted'
  <2> SUFFICES ASSUME NEW w \in LoginKeys
               PROVE  /\ ~limiter'[w].locked => limiter'[w].failures < MaxFailures
                      /\ limiter'[w].failures + Cardinality(InFlight(w))' <
                           MaxFailures + Cardinality(Callers)
                      /\ guesses'[w] <= limiter'[w].failures + Cardinality(AboutToCount(w))'
    BY DEF GuessesCounted
  <2>1. limiter'[w].failures = 0 /\ guesses'[w] = 0 BY <1>1 DEF NoEntry
  <2> QED BY <2>1, InFlightIsFinite, UsersAssumption
<1> QED BY <1>3, <1>4, <1>5

-----------------------------------------------------------------------------
(* Accounts and sessions.                                                  *)

\* One request goes on, to no guess; the limiter does not see it.
LEMMA CallerGoesQuietly ==
  ASSUME UsersInv, NEW c \in Callers,
         NEW pc \in {"idle", "authenticate", "update", "revoke", "again", "remove"},
         CallerGoes(c, pc), caller[c].pc # "failed",
         pc = "authenticate" => caller[c].pc = "bootstrap",
         UNCHANGED <<limiter, guesses>>,
         account' \in [Users -> Account],
         session' \in [Tokens -> [user: Users, state: {"none", "live", "over"}, closings: Nat]],
         closings' \in [Users -> Nat], restored' \subseteq Users
  PROVE  UsersTypeOK' /\ GuessesCounted'
<1>1. /\ caller' \in [Callers -> Caller] /\ calls' \in 0..MaxCalls
      /\ caller'[c].pc = pc /\ (pc # "idle" => caller'[c].key = caller[c].key)
      /\ \A d \in Callers : d # c => caller'[d] = caller[d]
  BY CallerGoesTyped DEF UsersInv
<1>2. UsersTypeOK' BY <1>1 DEF UsersTypeOK, UsersInv
<1>3. GuessesCounted' BY <1>1, <1>2, GuessesStay DEF GuessSteps
<1> QED BY <1>2, <1>3

\* Nothing but the callers changes, and none of them guesses.
LEMMA RowsKept ==
  ASSUME UsersInv, UNCHANGED <<account, session, limiter, guesses, closings, restored>>,
         \/ \E c \in Callers, v \in Caller :
              CallBegins(c, v) /\ v.pc \in {"update", "again"}
         \/ \E c \in Callers, pc \in {"idle", "update", "revoke", "again", "remove"} :
              CallerGoes(c, pc) /\ caller[c].pc # "failed"
  PROVE  UsersInv'
<1>1. LiveSessionsAreNew' /\ RestoredUsersAreThere'
  BY DEF UsersInv, LiveSessionsAreNew, RestoredUsersAreThere
<1>2. ASSUME NEW c \in Callers, NEW v \in Caller, CallBegins(c, v), v.pc \in {"update", "again"}
      PROVE  UsersTypeOK' /\ GuessesCounted'
  <2>1. /\ caller' \in [Callers -> Caller] /\ calls' \in 0..MaxCalls
        /\ caller[c].pc = "idle" /\ caller'[c] = v
        /\ \A d \in Callers : d # c => caller'[d] = caller[d]
    BY <1>2, CallBeginsTyped DEF UsersInv
  <2>2. UsersTypeOK' BY <2>1 DEF UsersInv, UsersTypeOK
  <2>3. GuessesCounted' BY <1>2, <2>1, <2>2, GuessesStay DEF GuessSteps
  <2> QED BY <2>2, <2>3
<1>3. ASSUME NEW c \in Callers, NEW pc \in {"idle", "update", "revoke", "again", "remove"},
             CallerGoes(c, pc), caller[c].pc # "failed"
      PROVE  UsersTypeOK' /\ GuessesCounted'
  BY <1>3, CallerGoesQuietly DEF UsersInv, UsersTypeOK
<1> QED BY <1>1, <1>2, <1>3 DEF UsersInv

LEMMA RequestsKeep ==
  ASSUME UsersInv, NEW c \in Callers, NEW u \in Users, NEW p \in Passwords,
         \/ \E op \in Operations : BeginOperation(c, op, u, p)
         \/ BeginPurge(c, u) \/ ReadAgain(c) \/ AbortCall(c)
  PROVE  UsersInv'
<1>1. ASSUME NEW op \in Operations, BeginOperation(c, op, u, p)
      PROVE  UsersInv'
  <2> DEFINE v == [IdleCaller EXCEPT !.pc = "update", !.op = op, !.user = u, !.password = p]
  <2>1. v \in Caller /\ v.pc = "update" BY IdleCallerTyped DEF Caller, Operations, Closings
  <2>2. CallBegins(c, v) /\ UNCHANGED <<account, session, limiter, guesses, closings, restored>>
    BY <1>1 DEF BeginOperation
  <2> QED BY <2>1, <2>2, RowsKept
<1>2. CASE BeginPurge(c, u)
  <2> DEFINE v == [IdleCaller EXCEPT !.pc = "again", !.op = "purge", !.user = u]
  <2>1. v \in Caller /\ v.pc = "again" BY IdleCallerTyped DEF Caller
  <2>2. CallBegins(c, v) /\ UNCHANGED <<account, session, limiter, guesses, closings, restored>>
    BY <1>2 DEF BeginPurge
  <2> QED BY <2>1, <2>2, RowsKept
<1>3. CASE ReadAgain(c)
  <2>1. PICK pc \in {"idle", "remove"} : CallerGoes(c, pc) BY <1>3 DEF ReadAgain
  <2> QED BY <1>3, <2>1, RowsKept DEF ReadAgain
<1>4. CASE AbortCall(c) BY <1>4, RowsKept DEF AbortCall
<1> QED BY <1>1, <1>2, <1>3, <1>4

LEMMA BootstrapKeeps ==
  ASSUME UsersInv, NEW c \in Callers, EnsureBootstrapUsers(c)
  PROVE  UsersInv'
<1>1. /\ caller[c].pc = "bootstrap" /\ CallerGoes(c, "authenticate")
      /\ UNCHANGED <<session, limiter, guesses, closings, restored>>
      /\ account' = [u \in Users |->
           IF u \in Bootstrap /\ account[u].status = "none"
           THEN [status |-> "active", password |-> AnyPassword] ELSE account[u]]
  BY DEF EnsureBootstrapUsers
<1>2. account' \in [Users -> Account]
  <2>1. [status |-> "active", password |-> AnyPassword] \in Account
    BY IdleCallerTyped DEF Account
  <2>2. account \in [Users -> Account] BY DEF UsersInv, UsersTypeOK
  <2> QED BY <1>1, <2>1, <2>2
<1>3. \A u \in Users : account[u].status \notin {"none", "deleted"} => account'[u] = account[u]
  BY <1>1
<1>4. UsersTypeOK' /\ GuessesCounted'
  BY <1>1, <1>2, CallerGoesQuietly DEF UsersInv, UsersTypeOK
<1>5. LiveSessionsAreNew' BY <1>1 DEF UsersInv, LiveSessionsAreNew
<1>6. RestoredUsersAreThere'
  BY <1>1, <1>3 DEF UsersInv, UsersTypeOK, RestoredUsersAreThere
<1> QED BY <1>4, <1>5, <1>6 DEF UsersInv

LEMMA CreateUserKeeps ==
  ASSUME UsersInv, NEW u \in Users, NEW p \in Passwords, CreateUser(u, p)
  PROVE  UsersInv'
<1>1. /\ account[u].status = "none" /\ calls' = calls + 1 /\ calls < MaxCalls
      /\ account' = [account EXCEPT ![u] = [status |-> "active", password |-> p]]
      /\ UNCHANGED <<session, limiter, guesses, closings, restored, caller>>
  BY DEF CreateUser
<1>2. account \in [Users -> Account] /\ [status |-> "active", password |-> p] \in Account
      /\ calls \in 0..MaxCalls
  BY DEF UsersInv, UsersTypeOK, Account
<1>3. UsersTypeOK' BY <1>1, <1>2, UsersAssumption DEF UsersInv, UsersTypeOK
<1>4. GuessesCounted'
  BY <1>1 DEF UsersInv, GuessesCounted, InFlight, AboutToCount
<1>5. LiveSessionsAreNew' BY <1>1 DEF UsersInv, LiveSessionsAreNew
<1>6. RestoredUsersAreThere'
  BY <1>1, <1>2 DEF UsersInv, UsersTypeOK, RestoredUsersAreThere
<1> QED BY <1>3, <1>4, <1>5, <1>6 DEF UsersInv

\* Who is restored is active, and who is deleted is not restored any more.
LEMMA UpdateAccountKeeps ==
  ASSUME UsersInv, NEW c \in Callers, UpdateAccount(c)
  PROVE  UsersInv'
<1> DEFINE u == caller[c].user
           op == caller[c].op
           row == Written(account[u], op, caller[c].password)
<1>1. UNCHANGED <<session, limiter, guesses, closings>> /\ caller[c].pc = "update"
  BY DEF UpdateAccount
<1>2. /\ caller[c] \in Caller /\ u \in Users /\ caller[c].password \in Passwords
      /\ account \in [Users -> Account] /\ account[u] \in Account /\ restored \subseteq Users
  BY DEF UsersInv, UsersTypeOK, Caller
<1>3. CASE UNCHANGED <<account, restored>> /\ CallerGoes(c, "idle")
  BY <1>1, <1>3, RowsKept
<1>4. CASE ~(UNCHANGED <<account, restored>> /\ CallerGoes(c, "idle"))
  <2>1. /\ account[u].status # "none" /\ account' = [account EXCEPT ![u] = row]
        /\ restored' = CASE op = "restore" -> restored \cup {u}
                         [] op = "delete"  -> restored \ {u}
                         [] OTHER          -> restored
    BY <1>4 DEF UpdateAccount
  <2>2. PICK pc \in {"revoke", "idle"} : CallerGoes(c, pc) BY <1>4 DEF UpdateAccount
  <2>3. row \in Account BY <1>2 DEF Written, Account
  <2>4. /\ op = "restore" => row.status = "active"
        /\ op # "delete" /\ account[u].status \notin {"none", "deleted"} =>
             row.status \notin {"none", "deleted"}
    BY <1>2, <2>1 DEF Written, Account
  <2>5. /\ op = "restore" => restored' = restored \cup {u}
        /\ op = "delete" => restored' = restored \ {u}
        /\ op \notin {"restore", "delete"} => restored' = restored
    BY <2>1
  <2> HIDE DEF row, op, u
  <2>6. account' \in [Users -> Account] /\ restored' \subseteq Users
    BY <1>2, <2>1, <2>3, <2>5
  <2>7. UsersTypeOK' /\ GuessesCounted'
    BY <1>1, <2>2, <2>6, CallerGoesQuietly DEF UsersInv, UsersTypeOK
  <2>8. LiveSessionsAreNew' BY <1>1 DEF UsersInv, LiveSessionsAreNew
  <2>9. RestoredUsersAreThere'
    <3> SUFFICES ASSUME NEW w \in restored'
                 PROVE  account'[w].status \notin {"none", "deleted"}
      BY DEF RestoredUsersAreThere
    <3>1. w \in Users BY <2>6
    <3>2. CASE w # u
      <4>1. w \in restored /\ account'[w] = account[w] BY <1>2, <2>1, <2>5, <3>1, <3>2
      <4> QED BY <4>1 DEF UsersInv, RestoredUsersAreThere
    <3>3. CASE w = u
      <4>1. account'[w] = row BY <1>2, <2>1, <3>3
      <4>2. op # "delete" BY <2>5, <3>3
      <4>3. op = "restore" \/ w \in restored BY <2>5, <4>2
      <4>4. w \in restored => account[u].status \notin {"none", "deleted"}
        BY <3>3 DEF UsersInv, RestoredUsersAreThere
      <4> QED BY <2>4, <4>1, <4>2, <4>3, <4>4
    <3> QED BY <3>2, <3>3
  <2> QED BY <2>7, <2>8, <2>9 DEF UsersInv
<1> QED BY <1>3, <1>4

\* A session is created with the count of its user, or not at all.
LEMMA CreateSessionKeeps ==
  ASSUME UsersInv, NEW c \in Callers, NEW t \in Tokens, CreateSession(c, t)
  PROVE  UsersInv'
<1> DEFINE u == caller[c].user
           row == [user |-> u, state |-> "live", closings |-> closings[u]]
<1>1. /\ UNCHANGED <<account, limiter, guesses, closings, restored>> /\ caller[c].pc = "session"
      /\ CallerGoes(c, "idle")
      /\ session' = session \/ session' = [session EXCEPT ![t] = row]
  BY DEF CreateSession
<1>2. /\ caller[c] \in Caller /\ u \in Users /\ closings \in [Users -> Nat]
      /\ session \in [Tokens -> [user: Users, state: {"none", "live", "over"}, closings: Nat]]
  BY DEF UsersInv, UsersTypeOK, Caller
<1>3. row \in [user: Users, state: {"none", "live", "over"}, closings: Nat]
      /\ row.closings = closings[row.user]
  BY <1>2
<1> HIDE DEF row
<1>4. session' \in [Tokens -> [user: Users, state: {"none", "live", "over"}, closings: Nat]]
      /\ \A s \in Tokens : session'[s] = session[s] \/ session'[s] = row
  BY <1>1, <1>2, <1>3
<1>5. UsersTypeOK' /\ GuessesCounted'
  BY <1>1, <1>4, CallerGoesQuietly DEF UsersInv, UsersTypeOK
<1>6. LiveSessionsAreNew' BY <1>1, <1>3, <1>4 DEF UsersInv, LiveSessionsAreNew
<1>7. RestoredUsersAreThere' BY <1>1 DEF UsersInv, RestoredUsersAreThere
<1> QED BY <1>5, <1>6, <1>7 DEF UsersInv

LEMMA EndSessionKeeps ==
  ASSUME UsersInv, NEW t \in Tokens, EndSession(t)
  PROVE  UsersInv'
<1> DEFINE row == [session[t] EXCEPT !.state = "over"]
<1>1. /\ UNCHANGED <<account, limiter, guesses, closings, restored, caller, calls>>
      /\ session' = [session EXCEPT ![t] = row]
  BY DEF EndSession
<1>2. session \in [Tokens -> [user: Users, state: {"none", "live", "over"}, closings: Nat]]
  BY DEF UsersInv, UsersTypeOK
<1>3. row \in [user: Users, state: {"none", "live", "over"}, closings: Nat] /\ row.state = "over"
  BY <1>2
<1> HIDE DEF row
<1>4. UsersTypeOK' BY <1>1, <1>2, <1>3 DEF UsersInv, UsersTypeOK
<1>5. GuessesCounted' BY <1>1 DEF UsersInv, GuessesCounted, InFlight, AboutToCount
<1>6. LiveSessionsAreNew' BY <1>1, <1>2, <1>3 DEF UsersInv, LiveSessionsAreNew
<1>7. RestoredUsersAreThere' BY <1>1 DEF UsersInv, RestoredUsersAreThere
<1> QED BY <1>4, <1>5, <1>6, <1>7 DEF UsersInv

\* The sessions of one user end.
LEMMA SessionsEndTyped ==
  ASSUME UsersInv, NEW u \in Users,
         session' = [t \in Tokens |->
           IF session[t].state = "live" /\ session[t].user = u
           THEN [session[t] EXCEPT !.state = "over"] ELSE session[t]]
  PROVE  /\ session' \in [Tokens -> [user: Users, state: {"none", "live", "over"}, closings: Nat]]
         /\ \A t \in Tokens : session'[t].state = "live" =>
              session'[t] = session[t] /\ session'[t].user # u
<1>1. session \in [Tokens -> [user: Users, state: {"none", "live", "over"}, closings: Nat]]
  BY DEF UsersInv, UsersTypeOK
<1>2. ASSUME NEW t \in Tokens
      PROVE  [session[t] EXCEPT !.state = "over"] \in
               [user: Users, state: {"none", "live", "over"}, closings: Nat]
             /\ [session[t] EXCEPT !.state = "over"].state = "over"
  <2>1. session[t] \in [user: Users, state: {"none", "live", "over"}, closings: Nat] BY <1>1
  <2> QED BY <2>1
<1> QED BY <1>1, <1>2

LEMMA RevokeSessionsKeeps ==
  ASSUME UsersInv, NEW c \in Callers, RevokeSessions(c)
  PROVE  UsersInv'
<1> DEFINE u == caller[c].user
<1>1. /\ UNCHANGED <<account, limiter, guesses, restored>> /\ caller[c].pc = "revoke"
      /\ CallerGoes(c, "idle") /\ closings' = [closings EXCEPT ![u] = closings[u] + 1]
      /\ session' = [t \in Tokens |->
           IF session[t].state = "live" /\ session[t].user = u
           THEN [session[t] EXCEPT !.state = "over"] ELSE session[t]]
  BY DEF RevokeSessions, SessionsEnd
<1>2. u \in Users /\ closings \in [Users -> Nat]
  BY DEF UsersInv, UsersTypeOK, Caller
<1> HIDE DEF u
<1>3. /\ session' \in [Tokens -> [user: Users, state: {"none", "live", "over"}, closings: Nat]]
      /\ \A t \in Tokens : session'[t].state = "live" =>
           session'[t] = session[t] /\ session'[t].user # u
  BY <1>1, <1>2, SessionsEndTyped
<1>4. closings' \in [Users -> Nat] /\ \A w \in Users : w # u => closings'[w] = closings[w]
  BY <1>1, <1>2
<1>5. UsersTypeOK' /\ GuessesCounted'
  BY <1>1, <1>3, <1>4, CallerGoesQuietly DEF UsersInv, UsersTypeOK
<1>6. LiveSessionsAreNew'
  BY <1>3, <1>4 DEF UsersInv, UsersTypeOK, LiveSessionsAreNew
<1>7. RestoredUsersAreThere' BY <1>1 DEF UsersInv, RestoredUsersAreThere
<1> QED BY <1>5, <1>6, <1>7 DEF UsersInv

\* Only a row that is deleted is removed, and a user who was restored is not deleted.
LEMMA RemoveUserKeeps ==
  ASSUME UsersInv, NEW c \in Callers, RemoveUser(c)
  PROVE  UsersInv'
<1> DEFINE u == caller[c].user
           row == [account[u] EXCEPT !.status = "none"]
<1>1. UNCHANGED <<limiter, guesses, closings, restored>> /\ caller[c].pc = "remove"
      /\ CallerGoes(c, "idle")
  BY DEF RemoveUser
<1>2. u \in Users /\ account \in [Users -> Account] /\ restored \subseteq Users
  BY DEF UsersInv, UsersTypeOK, Caller
<1>3. CASE account[u].status # "deleted"
  BY <1>1, <1>3, RowsKept DEF RemoveUser
<1>4. CASE account[u].status = "deleted"
  <2>1. /\ account' = [account EXCEPT ![u] = row]
        /\ session' = [t \in Tokens |->
             IF session[t].state = "live" /\ session[t].user = u
             THEN [session[t] EXCEPT !.state = "over"] ELSE session[t]]
    BY <1>4 DEF RemoveUser, RowGoes, SessionsEnd
  <2>2. row \in Account
    <3>1. account[u] \in Account BY <1>2
    <3> QED BY <3>1 DEF Account
  <2> HIDE DEF row, u
  <2>3. account' \in [Users -> Account] /\ \A w \in Users : w # u => account'[w] = account[w]
    BY <1>2, <2>1, <2>2
  <2>4. /\ session' \in [Tokens -> [user: Users, state: {"none", "live", "over"}, closings: Nat]]
        /\ \A t \in Tokens : session'[t].state = "live" =>
             session'[t] = session[t] /\ session'[t].user # u
    BY <1>2, <2>1, SessionsEndTyped
  <2>5. UsersTypeOK' /\ GuessesCounted'
    BY <1>1, <2>3, <2>4, CallerGoesQuietly DEF UsersInv, UsersTypeOK
  <2>6. LiveSessionsAreNew'
    BY <1>1, <2>4 DEF UsersInv, LiveSessionsAreNew
  <2>7. u \notin restored BY <1>4 DEF UsersInv, RestoredUsersAreThere
  <2>8. RestoredUsersAreThere'
    BY <1>1, <1>2, <2>3, <2>7 DEF UsersInv, RestoredUsersAreThere
  <2> QED BY <2>5, <2>6, <2>8 DEF UsersInv
<1> QED BY <1>3, <1>4

-----------------------------------------------------------------------------
(* The steps together.                                                     *)

LEMMA UsersInitially == UsersInit => UsersInv
<1> SUFFICES ASSUME UsersInit PROVE UsersInv OBVIOUS
<1> DEFINE Row == [user: Users, state: {"none", "live", "over"}, closings: Nat]
           Live == {[NoSession EXCEPT !.user = a, !.state = "live"] : a \in Admins}
           First == {NoSession} \cup Live
<1>0. /\ session \in [Tokens -> First]
      /\ \A x \in First : x \in Row /\ x.closings = 0
  <2>1. session \in [Tokens -> First] BY DEF UsersInit
  <2>2. NoSession \in Row /\ NoSession.closings = 0 BY IdleCallerTyped DEF NoSession
  <2>3. ASSUME NEW a \in Admins
        PROVE  /\ [NoSession EXCEPT !.user = a, !.state = "live"] \in Row
               /\ [NoSession EXCEPT !.user = a, !.state = "live"].closings = 0
    <3>1. a \in Users BY UsersAssumption
    <3> QED BY <2>2, <3>1
  <2>4. \A x \in Live : x \in Row /\ x.closings = 0 BY <2>3
  <2> HIDE DEF Live, Row
  <2> QED BY <2>1, <2>2, <2>4
<1> HIDE DEF First
<1>1. UsersTypeOK
  <2>1. PICK old \in SUBSET (Users \ Admins) :
       account = [u \in Users |->
         [status |-> IF u \in Admins \cup old THEN "active" ELSE "none", password |-> AnyPassword]]
    BY DEF UsersInit
  <2>2. account \in [Users -> Account]
    <3>1. \A u \in Users :
       [status |-> IF u \in Admins \cup old THEN "active" ELSE "none", password |-> AnyPassword]
         \in Account
      BY IdleCallerTyped DEF Account
    <3> QED BY <2>1, <3>1
  <2>3. session \in [Tokens -> [user: Users, state: {"none", "live", "over"}, closings: Nat]]
    <3> HIDE DEF Row
    <3>1. session \in [Tokens -> Row] BY <1>0
    <3> QED BY <3>1 DEF Row
  <2>4. limiter \in [LoginKeys -> [failures: Nat, locked: BOOLEAN]]
    <3>1. NoEntry \in [failures: Nat, locked: BOOLEAN] BY DEF NoEntry
    <3> QED BY <3>1 DEF UsersInit
  <2>5. caller \in [Callers -> Caller] BY IdleCallerTyped DEF UsersInit
  <2>6. calls \in 0..MaxCalls
    <3>1. calls = 0 BY DEF UsersInit
    <3> QED BY <3>1, UsersAssumption
  <2>7. guesses \in [LoginKeys -> Nat] /\ closings \in [Users -> Nat] /\ restored \subseteq Users
    BY DEF UsersInit
  <2> QED BY <2>2, <2>3, <2>4, <2>5, <2>6, <2>7 DEF UsersTypeOK
<1>2. GuessesCounted
  <2> SUFFICES ASSUME NEW w \in LoginKeys
               PROVE  /\ ~limiter[w].locked => limiter[w].failures < MaxFailures
                      /\ limiter[w].failures + Cardinality(InFlight(w)) <
                           MaxFailures + Cardinality(Callers)
                      /\ guesses[w] <= limiter[w].failures + Cardinality(AboutToCount(w))
    BY DEF GuessesCounted
  <2>1. limiter[w].failures = 0 /\ guesses[w] = 0 BY DEF UsersInit, NoEntry
  <2> QED BY <2>1, InFlightIsFinite, UsersAssumption
<1>3. LiveSessionsAreNew
  <2> SUFFICES ASSUME NEW t \in Tokens
               PROVE  session[t].closings = closings[session[t].user]
    BY DEF LiveSessionsAreNew
  <2>1. session[t].user \in Users BY <1>1 DEF UsersTypeOK
  <2>3. session[t].closings = 0 BY <1>0
  <2> QED BY <2>1, <2>3 DEF UsersInit
<1>4. RestoredUsersAreThere BY DEF UsersInit, RestoredUsersAreThere
<1> QED BY <1>1, <1>2, <1>3, <1>4 DEF UsersInv

LEMMA UsersSteps == UsersInv /\ [UsersNext]_usersVars => UsersInv'
<1> SUFFICES ASSUME UsersInv, [UsersNext]_usersVars PROVE UsersInv' OBVIOUS
<1>1. CASE UNCHANGED usersVars
  <2> USE <1>1 DEF usersVars
  <2>1. UsersTypeOK' BY DEF UsersInv, UsersTypeOK
  <2>2. GuessesCounted' BY DEF UsersInv, GuessesCounted, InFlight, AboutToCount
  <2>3. LiveSessionsAreNew' /\ RestoredUsersAreThere'
    BY DEF UsersInv, LiveSessionsAreNew, RestoredUsersAreThere
  <2> QED BY <2>1, <2>2, <2>3 DEF UsersInv
<1>2. CASE UsersNext
  <2>0. ASSUME NEW c \in Callers, NEW k \in LoginKeys, NEW p \in Passwords, BeginLogin(c, k, p)
        PROVE  UsersInv'
    BY <2>0, BeginLoginKeeps
  <2>1. ASSUME NEW c \in Callers, NEW u \in Users, NEW p \in Passwords,
               \E op \in Operations : BeginOperation(c, op, u, p)
        PROVE  UsersInv'
    BY <2>1, RequestsKeep
  <2>2. ASSUME NEW c \in Callers, NEW u \in Users, BeginPurge(c, u)
        PROVE  UsersInv'
    <3>1. AnyPassword \in Passwords BY IdleCallerTyped
    <3> QED BY <2>2, <3>1, RequestsKeep
  <2>3. ASSUME NEW c \in Callers,
               \/ EnsureBootstrapUsers(c) \/ AuthenticateUser(c) \/ RecordFailure(c)
               \/ RecordSuccess(c) \/ UpdateAccount(c) \/ RevokeSessions(c) \/ RemoveUser(c)
        PROVE  UsersInv'
    BY <2>3, BootstrapKeeps, AuthenticateKeeps, RecordFailureKeeps, RecordSuccessKeeps,
       UpdateAccountKeeps, RevokeSessionsKeeps, RemoveUserKeeps
  <2>4. ASSUME NEW c \in Callers, ReadAgain(c) \/ AbortCall(c)
        PROVE  UsersInv'
    <3>1. AnyPassword \in Passwords /\ AnyUser \in Users BY IdleCallerTyped
    <3> QED BY <2>4, <3>1, RequestsKeep
  <2>5. ASSUME NEW u \in Users, NEW p \in Passwords, CreateUser(u, p)
        PROVE  UsersInv'
    BY <2>5, CreateUserKeeps
  <2>6. ASSUME NEW t \in Tokens, EndSession(t) \/ \E c \in Callers : CreateSession(c, t)
        PROVE  UsersInv'
    BY <2>6, EndSessionKeeps, CreateSessionKeeps
  <2> QED BY <1>2, <2>0, <2>1, <2>2, <2>3, <2>4, <2>5, <2>6, RestartKeeps DEF UsersNext
<1> QED BY <1>1, <1>2

LEMMA UsersInvPromises == UsersInv => UsersTypeOK /\ UsersConsistent
<1> SUFFICES ASSUME UsersInv PROVE UsersTypeOK /\ UsersConsistent OBVIOUS
<1>1. GuessesAreBounded
  <2> SUFFICES ASSUME NEW k \in LoginKeys PROVE guesses[k] < MaxFailures + Cardinality(Callers)
    BY DEF GuessesAreBounded
  <2>1. guesses[k] \in Nat /\ limiter[k].failures \in Nat BY DEF UsersInv, UsersTypeOK
  <2>2. /\ limiter[k].failures + Cardinality(InFlight(k)) < MaxFailures + Cardinality(Callers)
        /\ guesses[k] <= limiter[k].failures + Cardinality(AboutToCount(k))
    BY DEF UsersInv, GuessesCounted
  <2> QED BY <2>1, <2>2, InFlightIsFinite, UsersAssumption
<1>2. ClosedSessionsStayClosed
  BY DEF UsersInv, LiveSessionsAreNew, ClosedSessionsStayClosed, Usable
<1>3. RestoredUsersStay BY DEF UsersInv, RestoredUsersAreThere, RestoredUsersStay
<1> QED BY <1>1, <1>2, <1>3 DEF UsersInv, UsersConsistent

\* Accounts, sessions, the limiter's entries and requests keep their types.
THEOREM UsersTypes == UsersSpec => []UsersTypeOK
BY UsersInitially, UsersSteps, UsersInvPromises, PTL DEF UsersSpec

\* For any number of users, clients and requests: under one key of the limiter wrong
\* passwords pass the limit by fewer than the requests at one time (RecordFailure), no
\* session that was ended works again (RevokeSessions), and no removal takes a user who
\* was restored (RemoveUser).
THEOREM UsersAreConsistent == UsersSpec => []UsersConsistent
BY UsersInitially, UsersSteps, UsersInvPromises, PTL DEF UsersSpec

-----------------------------------------------------------------------------
(* Keys.                                                                   *)

\* An update that has a revoked key in hand is remembered.
RevocationsFit == UpdatesInHand \cap RevokedRows \subseteq meddled

\* The keys that no such update brought back.
KeptKeys == LiveKeys \ meddled

\* One creation at a time, which has counted fewer keys than the limit.
CreationsFit ==
  ~crowded =>
    /\ ~InsertsCross
    /\ Cardinality(KeptKeys) <= MaxSelfServeKeys
    /\ (\E h \in KeyHandlers : handler[h].pc = "insert") => Cardinality(KeptKeys) < MaxSelfServeKeys

\* What an update is about to write is a status.
WritesFit == \A h \in KeyHandlers : handler[h].pc = "write" => handler[h].to \in KeyStatus

KeysInv == ApiKeysTypeOK /\ WritesFit /\ RevocationsFit /\ CreationsFit

-----------------------------------------------------------------------------

LEMMA LiveKeysFinite ==
  /\ IsFiniteSet(LiveKeys) /\ Cardinality(LiveKeys) \in Nat
  /\ IsFiniteSet(KeptKeys) /\ Cardinality(KeptKeys) \in Nat
  /\ IsFiniteSet(KeptKeys') /\ Cardinality(KeptKeys)' \in Nat
<1>1. LiveKeys \subseteq ApiKeyIds /\ KeptKeys \subseteq ApiKeyIds /\ KeptKeys' \subseteq ApiKeyIds
  BY DEF LiveKeys, KeyRows, KeptKeys
<1> QED BY <1>1, FS_Subset, FS_CardinalityType, ApiKeysAssumption

\* What a handler does to itself.
LEMMA HandlerMoves ==
  ASSUME ApiKeysTypeOK, WritesFit, NEW h \in KeyHandlers,
         NEW v \in Handler, handler' = [handler EXCEPT ![h] = v],
         v.pc = "write" => v.to \in KeyStatus
  PROVE  /\ handler' \in [KeyHandlers -> Handler] /\ handler'[h] = v
         /\ \A g \in KeyHandlers : g # h => handler'[g] = handler[g]
         /\ WritesFit'
<1>1. handler' \in [KeyHandlers -> Handler] /\ handler'[h] = v
      /\ \A g \in KeyHandlers : g # h => handler'[g] = handler[g]
  BY DEF ApiKeysTypeOK
<1>2. WritesFit' BY <1>1 DEF WritesFit
<1> QED BY <1>1, <1>2

\* What a step does: a key is inserted, or keys that were not revoked are the only ones
\* that count, those of the updates in hand aside.
KeyStepEffect ==
  /\ apiKey' \in [ApiKeyIds -> KeyStatus \cup {"unused", "gone"}]
  /\ apiAccess' \in BOOLEAN
  /\ handler' \in [KeyHandlers -> Handler]
  /\ asked' \in 0..MaxKeyRequests
  /\ WritesFit'
  /\ \/ \E h \in KeyHandlers, k \in ApiKeyIds :
          /\ handler[h].pc = "insert" /\ LiveKeys' = LiveKeys \cup {k}
          /\ \A g \in KeyHandlers : handler'[g].pc = "insert" => g # h /\ handler[g].pc = "insert"
     \/ /\ \A k \in LiveKeys' : k \in LiveKeys \/ (k \in UpdatesInHand /\ apiKey[k] = "revoked")
        /\ (\E h \in KeyHandlers : handler'[h].pc = "insert") =>
             \/ \E h \in KeyHandlers : handler[h].pc = "insert"
             \/ Cardinality(LiveKeys) < MaxSelfServeKeys /\ LiveKeys' = LiveKeys

\* A request that only begins.
LEMMA AskEffect ==
  ASSUME ApiKeysTypeOK, WritesFit, NEW h \in KeyHandlers, NEW v \in Handler, Ask(h),
         handler' = [handler EXCEPT ![h] = v],
         v.pc # "write",
         v.pc = "insert" => Cardinality(LiveKeys) < MaxSelfServeKeys
  PROVE  KeyStepEffect
<1>1. /\ handler' \in [KeyHandlers -> Handler] /\ handler'[h] = v
      /\ \A g \in KeyHandlers : g # h => handler'[g] = handler[g]
      /\ WritesFit'
  BY HandlerMoves
<1>2. /\ apiKey' = apiKey /\ apiAccess' = apiAccess /\ asked' \in 0..MaxKeyRequests
  BY ApiKeysAssumption DEF Ask, ApiKeysTypeOK
<1>3. LiveKeys' = LiveKeys BY <1>2 DEF LiveKeys, KeyRows
<1>4. (\E g \in KeyHandlers : handler'[g].pc = "insert") =>
             \/ \E g \in KeyHandlers : handler[g].pc = "insert"
             \/ Cardinality(LiveKeys) < MaxSelfServeKeys
  BY <1>1
<1> QED BY <1>1, <1>2, <1>3, <1>4 DEF KeyStepEffect, ApiKeysTypeOK

\* A request that ends, and may set a key: one that is there, to "revoked" or "gone" or
\* to what the update in hand is to write.
LEMMA KeyEndsEffect ==
  ASSUME ApiKeysTypeOK, WritesFit, NEW h \in KeyHandlers, KeyEnds(h),
         NEW k, NEW to \in KeyStatus \cup {"gone"},
         apiKey' = apiKey \/ SetKey(k, to),
         to \in {"revoked", "gone"} \/ k \in UpdatesInHand
  PROVE  KeyStepEffect
<1>1. NoHandler \in Handler /\ NoHandler.pc = "idle" BY DEF Handler, NoHandler
<1>2. /\ handler' \in [KeyHandlers -> Handler] /\ handler'[h] = NoHandler
      /\ \A g \in KeyHandlers : g # h => handler'[g] = handler[g]
      /\ WritesFit'
  BY <1>1, HandlerMoves DEF KeyEnds
<1>3. apiAccess' = apiAccess /\ asked' = asked BY DEF KeyEnds
<1>4. apiKey \in [ApiKeyIds -> KeyStatus \cup {"unused", "gone"}] BY DEF ApiKeysTypeOK
<1>5. apiKey' = apiKey \/ (k \in KeyRows /\ apiKey' = [apiKey EXCEPT ![k] = to])
  BY DEF SetKey
<1>6. apiKey' \in [ApiKeyIds -> KeyStatus \cup {"unused", "gone"}] BY <1>4, <1>5
<1>7. \A d \in ApiKeyIds : apiKey'[d] # apiKey[d] =>
        d = k /\ apiKey[k] \in KeyStatus /\ apiKey'[k] = to
  BY <1>4, <1>5 DEF KeyRows
<1>8. \A d \in LiveKeys' : d \in LiveKeys \/ (d \in UpdatesInHand /\ apiKey[d] = "revoked")
  <2> SUFFICES ASSUME NEW d \in LiveKeys', d \notin LiveKeys
               PROVE  d \in UpdatesInHand /\ apiKey[d] = "revoked"
    OBVIOUS
  <2>1. d \in ApiKeyIds /\ apiKey'[d] \in KeyStatus /\ apiKey'[d] # "revoked"
    BY DEF LiveKeys, KeyRows
  <2>2. apiKey'[d] # apiKey[d] BY <2>1 DEF LiveKeys, KeyRows
  <2>3. d = k /\ apiKey[d] \in KeyStatus /\ apiKey'[d] = to BY <1>7, <2>1, <2>2
  <2>4. to \notin {"revoked", "gone"} BY <2>1, <2>3 DEF KeyStatus
  <2> QED BY <2>1, <2>3, <2>4 DEF LiveKeys, KeyRows
<1>9. \A g \in KeyHandlers : handler'[g].pc = "insert" => handler[g].pc = "insert"
  BY <1>1, <1>2
<1> QED BY <1>2, <1>3, <1>6, <1>8, <1>9 DEF KeyStepEffect, ApiKeysTypeOK

LEMMA InsertKeyEffect ==
  ASSUME ApiKeysTypeOK, WritesFit, NEW h \in KeyHandlers, NEW k \in ApiKeyIds, InsertKey(h, k)
  PROVE  KeyStepEffect
<1>1. NoHandler \in Handler /\ NoHandler.pc = "idle" BY DEF Handler, NoHandler
<1>2. /\ handler' \in [KeyHandlers -> Handler] /\ handler'[h] = NoHandler
      /\ \A g \in KeyHandlers : g # h => handler'[g] = handler[g]
      /\ WritesFit'
  BY <1>1, HandlerMoves DEF InsertKey, KeyEnds
<1>3. apiAccess' = apiAccess /\ asked' = asked /\ handler[h].pc = "insert"
  BY DEF InsertKey, KeyEnds
<1>4. /\ apiKey \in [ApiKeyIds -> KeyStatus \cup {"unused", "gone"}]
      /\ apiKey[k] = "unused" /\ apiKey' = [apiKey EXCEPT ![k] = "active"]
  BY DEF ApiKeysTypeOK, InsertKey
<1>5. apiKey' \in [ApiKeyIds -> KeyStatus \cup {"unused", "gone"}] BY <1>4 DEF KeyStatus
<1>6. LiveKeys' = LiveKeys \cup {k} BY <1>4 DEF LiveKeys, KeyRows, KeyStatus
<1>7. \A g \in KeyHandlers : handler'[g].pc = "insert" => g # h /\ handler[g].pc = "insert"
  BY <1>1, <1>2
<1> QED BY <1>2, <1>3, <1>5, <1>6, <1>7 DEF KeyStepEffect, ApiKeysTypeOK

LEMMA ReadKeyEffect ==
  ASSUME ApiKeysTypeOK, WritesFit, NEW h \in KeyHandlers, ReadKey(h)
  PROVE  KeyStepEffect
<1> DEFINE r == handler[h]
<1>1. r \in Handler /\ r.pc = "read" /\ apiKey' = apiKey BY DEF ApiKeysTypeOK, ReadKey
<1>2. CASE r.id \in KeyRows
  <2> DEFINE v == [pc |-> "write", id |-> r.id, to |-> WrittenStatus(r)]
  <2>1. v \in Handler /\ v.pc = "write" /\ v.id = r.id /\ v.to \in KeyStatus
    BY <1>1, <1>2 DEF Handler, WrittenStatus, KeyRows
  <2>2. handler' = [handler EXCEPT ![h] = v] /\ UNCHANGED <<apiAccess, asked>>
    BY <1>2 DEF ReadKey, HandlerGoes
  <2> HIDE DEF v
  <2>3. /\ handler' \in [KeyHandlers -> Handler] /\ handler'[h] = v
        /\ \A g \in KeyHandlers : g # h => handler'[g] = handler[g]
        /\ WritesFit'
    BY <2>1, <2>2, HandlerMoves
  <2>4. LiveKeys' = LiveKeys BY <1>1 DEF LiveKeys, KeyRows
  <2>5. \A g \in KeyHandlers : handler'[g].pc = "insert" => handler[g].pc = "insert"
    BY <2>1, <2>3
  <2> QED BY <1>1, <2>2, <2>3, <2>4, <2>5 DEF KeyStepEffect, ApiKeysTypeOK
<1>3. CASE r.id \notin KeyRows
  <2>1. KeyEnds(h) BY <1>3 DEF ReadKey
  <2>2. NoHandler \in Handler /\ NoHandler.pc = "idle" BY DEF Handler, NoHandler
  <2>3. /\ handler' \in [KeyHandlers -> Handler] /\ handler'[h] = NoHandler
        /\ \A g \in KeyHandlers : g # h => handler'[g] = handler[g]
        /\ WritesFit'
        /\ apiAccess' = apiAccess /\ asked' = asked
    BY <2>1, <2>2, HandlerMoves DEF KeyEnds
  <2>4. LiveKeys' = LiveKeys BY <1>1 DEF LiveKeys, KeyRows
  <2>5. \A g \in KeyHandlers : handler'[g].pc = "insert" => handler[g].pc = "insert"
    BY <2>2, <2>3
  <2> QED BY <1>1, <2>3, <2>4, <2>5 DEF KeyStepEffect, ApiKeysTypeOK
<1> QED BY <1>2, <1>3

LEMMA KeyStepsDo == ApiKeysTypeOK /\ WritesFit /\ KeyStep => KeyStepEffect
<1> SUFFICES ASSUME ApiKeysTypeOK, WritesFit, KeyStep PROVE KeyStepEffect OBVIOUS
<1>1. ASSUME NEW h \in KeyHandlers, BeginCreateKey(h)
      PROVE  KeyStepEffect
  <2> DEFINE v == [pc |-> "insert", id |-> NoApiKey, to |-> "keep"]
  <2>1. v \in Handler /\ v.pc = "insert" BY DEF Handler
  <2>2. Ask(h) /\ handler' = [handler EXCEPT ![h] = v]
        /\ Cardinality(LiveKeys) < MaxSelfServeKeys
    BY <1>1 DEF BeginCreateKey, HandlerGoes
  <2> QED BY <2>1, <2>2, AskEffect
<1>2. ASSUME NEW h \in KeyHandlers, NEW k \in ApiKeyIds,
             \/ BeginRevoke(h, k) \/ BeginAdminRevoke(h, k) \/ BeginDeleteKey(h, k)
             \/ AuthenticateKey(h, k)
      PROVE  KeyStepEffect
  <2>1. PICK pc \in {"revoke", "delete", "admitted"} : Ask(h) /\ HandlerGoes(h, pc, k, "keep")
    BY <1>2 DEF BeginRevoke, BeginAdminRevoke, BeginDeleteKey, AuthenticateKey
  <2> DEFINE v == [pc |-> pc, id |-> k, to |-> "keep"]
  <2>2. v \in Handler /\ v.pc = pc BY DEF Handler
  <2>3. handler' = [handler EXCEPT ![h] = v] BY <2>1 DEF HandlerGoes
  <2> HIDE DEF v
  <2> QED BY <2>1, <2>2, <2>3, AskEffect
<1>3. ASSUME NEW h \in KeyHandlers, NEW k \in ApiKeyIds, NEW to \in KeyStatus \cup {"keep"},
             BeginToggle(h, k, to) \/ BeginAdminUpdate(h, k, to)
      PROVE  KeyStepEffect
  <2> DEFINE v == [pc |-> "read", id |-> k, to |-> to]
  <2>1. v \in Handler /\ v.pc = "read" BY DEF Handler
  <2>2. Ask(h) /\ handler' = [handler EXCEPT ![h] = v]
    BY <1>3 DEF BeginToggle, BeginAdminUpdate, HandlerGoes
  <2> HIDE DEF v
  <2> QED BY <2>1, <2>2, AskEffect
<1>4. ASSUME NEW h \in KeyHandlers, WriteKey(h)
      PROVE  KeyStepEffect
  <2> DEFINE k == handler[h].id
             to == handler[h].to
  <2>1. handler[h] \in Handler /\ handler[h].pc = "write" /\ SetKey(k, to) /\ KeyEnds(h)
    BY <1>4 DEF WriteKey, ApiKeysTypeOK
  <2>2. k \in UpdatesInHand BY <2>1 DEF UpdatesInHand
  <2>3. to \in KeyStatus BY <2>1 DEF WritesFit
  <2> HIDE DEF k, to
  <2> QED BY <2>1, <2>2, <2>3, KeyEndsEffect
<1>5. ASSUME NEW h \in KeyHandlers, RevokeKey(h) \/ DeleteKey(h) \/ EndExternal(h)
      PROVE  KeyStepEffect
  <2> DEFINE k == handler[h].id
  <2>1. KeyEnds(h) /\ (apiKey' = apiKey \/ SetKey(k, "revoked") \/ SetKey(k, "gone"))
    BY <1>5 DEF RevokeKey, DeleteKey, EndExternal
  <2>2. "revoked" \in KeyStatus \cup {"gone"} /\ "gone" \in KeyStatus \cup {"gone"}
    BY DEF KeyStatus
  <2> HIDE DEF k
  <2> QED BY <2>1, <2>2, KeyEndsEffect
<1>6. ASSUME NEW on \in BOOLEAN, SetApiAccess(on)
      PROVE  KeyStepEffect
  <2>1. UNCHANGED <<apiKey, handler>> /\ apiAccess' \in BOOLEAN /\ asked' \in 0..MaxKeyRequests
    BY <1>6, ApiKeysAssumption DEF SetApiAccess, ApiKeysTypeOK
  <2>2. LiveKeys' = LiveKeys /\ UpdatesInHand' = UpdatesInHand
    BY <2>1 DEF LiveKeys, KeyRows, UpdatesInHand
  <2>3. WritesFit' BY <2>1 DEF WritesFit
  <2> QED BY <2>1, <2>2, <2>3 DEF KeyStepEffect, ApiKeysTypeOK
<1>7. {"active", "disabled"} \subseteq KeyStatus \cup {"keep"} BY DEF KeyStatus
<1> QED BY <1>1, <1>2, <1>3, <1>4, <1>5, <1>6, <1>7, InsertKeyEffect, ReadKeyEffect DEF KeyStep

-----------------------------------------------------------------------------
(* The steps together, with their histories.                               *)

LEMMA KeyStepsKeep ==
  ASSUME KeysInv, KeyStepEffect,
         meddled' = meddled \cup (UpdatesInHand' \cap RevokedRows'),
         crowded' = (crowded \/ InsertsCross')
  PROVE  KeysInv'
<1> USE DEF KeysInv
<1>1. ApiKeysTypeOK'
  <2>1. meddled' \subseteq ApiKeyIds BY DEF RevokedRows, ApiKeysTypeOK
  <2>2. crowded' \in BOOLEAN BY DEF ApiKeysTypeOK, InsertsCross
  <2> QED BY <2>1, <2>2 DEF KeyStepEffect, ApiKeysTypeOK
<1>2. WritesFit' BY DEF KeyStepEffect
<1>3. RevocationsFit' BY DEF RevocationsFit
<1>4. CreationsFit'
  <2> SUFFICES ASSUME ~crowded'
               PROVE  /\ ~InsertsCross'
                      /\ Cardinality(KeptKeys)' <= MaxSelfServeKeys
                      /\ (\E h \in KeyHandlers : handler'[h].pc = "insert") =>
                           Cardinality(KeptKeys)' < MaxSelfServeKeys
    BY DEF CreationsFit
  <2>1. ~crowded /\ ~InsertsCross /\ ~InsertsCross' BY DEF CreationsFit
  <2>2. /\ Cardinality(KeptKeys) <= MaxSelfServeKeys
        /\ (\E h \in KeyHandlers : handler[h].pc = "insert") =>
             Cardinality(KeptKeys) < MaxSelfServeKeys
    BY <2>1 DEF CreationsFit
  <2>3. CASE \E h \in KeyHandlers, k \in ApiKeyIds :
               /\ handler[h].pc = "insert" /\ LiveKeys' = LiveKeys \cup {k}
               /\ \A g \in KeyHandlers :
                    handler'[g].pc = "insert" => g # h /\ handler[g].pc = "insert"
    <3>1. PICK h \in KeyHandlers, k \in ApiKeyIds :
               /\ handler[h].pc = "insert" /\ LiveKeys' = LiveKeys \cup {k}
               /\ \A g \in KeyHandlers :
                    handler'[g].pc = "insert" => g # h /\ handler[g].pc = "insert"
      BY <2>3
    <3>2. KeptKeys' \subseteq KeptKeys \cup {k} BY <3>1 DEF KeptKeys
    <3>3. IsFiniteSet(KeptKeys \cup {k}) /\ Cardinality(KeptKeys \cup {k}) <= Cardinality(KeptKeys) + 1
          /\ Cardinality(KeptKeys \cup {k}) \in Nat
      <4>1. IsFiniteSet(KeptKeys) /\ Cardinality(KeptKeys) \in Nat BY LiveKeysFinite
      <4>2. IsFiniteSet(KeptKeys \cup {k}) BY <4>1, FS_AddElement
      <4>3. Cardinality(KeptKeys \cup {k}) =
              IF k \in KeptKeys THEN Cardinality(KeptKeys) ELSE Cardinality(KeptKeys) + 1
        BY <4>1, FS_AddElement
      <4> QED BY <4>1, <4>2, <4>3
    <3>4. Cardinality(KeptKeys)' <= Cardinality(KeptKeys \cup {k})
      BY <3>2, <3>3, FS_Subset
    <3>5. ~\E g \in KeyHandlers : handler'[g].pc = "insert"
      BY <2>1, <3>1 DEF InsertsCross
    <3> QED BY <2>1, <2>2, <3>1, <3>3, <3>4, <3>5, LiveKeysFinite, ApiKeysAssumption
  <2>4. CASE /\ \A k \in LiveKeys' :
                  k \in LiveKeys \/ (k \in UpdatesInHand /\ apiKey[k] = "revoked")
             /\ (\E h \in KeyHandlers : handler'[h].pc = "insert") =>
                  \/ \E h \in KeyHandlers : handler[h].pc = "insert"
                  \/ Cardinality(LiveKeys) < MaxSelfServeKeys /\ LiveKeys' = LiveKeys
    <3>1. \A k \in ApiKeyIds : k \in UpdatesInHand /\ apiKey[k] = "revoked" => k \in meddled
      BY DEF RevocationsFit, RevokedRows
    <3>2. KeptKeys' \subseteq KeptKeys
      <4>1. LiveKeys' \subseteq ApiKeyIds BY DEF LiveKeys, KeyRows
      <4> QED BY <2>4, <3>1, <4>1 DEF KeptKeys
    <3>3. Cardinality(KeptKeys)' <= Cardinality(KeptKeys)
      BY <3>2, LiveKeysFinite, FS_Subset
    <3>4. KeptKeys \subseteq LiveKeys BY DEF KeptKeys
    <3>5. Cardinality(KeptKeys) <= Cardinality(LiveKeys) BY <3>4, LiveKeysFinite, FS_Subset
    <3> QED BY <2>1, <2>2, <2>4, <3>3, <3>5, LiveKeysFinite, ApiKeysAssumption
  <2> QED BY <2>3, <2>4 DEF KeyStepEffect
<1> QED BY <1>1, <1>2, <1>3, <1>4

\* A key that an administrator creates is remembered.
LEMMA AdminStepsKeep ==
  ASSUME KeysInv, NEW h \in KeyHandlers, AdminCreate(h), crowded' = TRUE,
         meddled' = meddled \cup (UpdatesInHand' \cap RevokedRows')
  PROVE  KeysInv'
<1>1. ApiKeysTypeOK /\ WritesFit BY DEF KeysInv
<1> DEFINE v == [pc |-> "insert", id |-> NoApiKey, to |-> "keep"]
<1>2. v \in Handler /\ v.pc = "insert" BY DEF Handler
<1>3. handler' = [handler EXCEPT ![h] = v] /\ Ask(h) BY DEF AdminCreate, HandlerGoes
<1> HIDE DEF v
<1>4. handler' \in [KeyHandlers -> Handler] /\ WritesFit' BY <1>1, <1>2, <1>3, HandlerMoves
<1>5. /\ apiKey' = apiKey /\ apiAccess' = apiAccess /\ asked' \in 0..MaxKeyRequests
  BY <1>1, <1>3, ApiKeysAssumption DEF Ask, ApiKeysTypeOK
<1>6. meddled' \subseteq ApiKeyIds BY <1>1 DEF RevokedRows, ApiKeysTypeOK
<1>7. ApiKeysTypeOK' BY <1>1, <1>4, <1>5, <1>6 DEF ApiKeysTypeOK
<1>8. RevocationsFit' /\ CreationsFit' BY DEF RevocationsFit, CreationsFit
<1> QED BY <1>4, <1>7, <1>8 DEF KeysInv

LEMMA KeysInitially == ApiKeysInit => KeysInv
<1> SUFFICES ASSUME ApiKeysInit PROVE KeysInv OBVIOUS
<1>1. NoHandler \in Handler /\ NoHandler.pc = "idle" BY DEF Handler, NoHandler
<1>2. ApiKeysTypeOK
  <2>1. asked = 0 /\ 0 \in 0..MaxKeyRequests BY ApiKeysAssumption DEF ApiKeysInit
  <2> QED BY <1>1, <2>1 DEF ApiKeysInit, ApiKeysTypeOK
<1>3. WritesFit /\ RevocationsFit
  BY <1>1 DEF ApiKeysInit, WritesFit, RevocationsFit, RevokedRows
<1>4. CreationsFit
  <2>1. LiveKeys = {} BY DEF LiveKeys, KeyRows, ApiKeysInit, KeyStatus
  <2>2. Cardinality(KeptKeys) = 0 BY <2>1, FS_EmptySet DEF KeptKeys
  <2>3. ~\E h \in KeyHandlers : handler[h].pc = "insert" BY <1>1 DEF ApiKeysInit
  <2> QED BY <2>2, <2>3, ApiKeysAssumption DEF CreationsFit, InsertsCross
<1> QED BY <1>2, <1>3, <1>4 DEF KeysInv

LEMMA KeysSteps == KeysInv /\ [ApiKeysNext]_apiKeyVars => KeysInv'
<1> SUFFICES ASSUME KeysInv, [ApiKeysNext]_apiKeyVars PROVE KeysInv' OBVIOUS
<1>1. CASE UNCHANGED apiKeyVars
  <2> USE <1>1 DEF apiKeyVars
  <2>1. ApiKeysTypeOK' /\ WritesFit' BY DEF KeysInv, ApiKeysTypeOK, WritesFit
  <2>2. RevocationsFit' BY DEF KeysInv, RevocationsFit, RevokedRows, UpdatesInHand
  <2>3. CreationsFit' BY DEF KeysInv, CreationsFit, InsertsCross, LiveKeys, KeyRows, KeptKeys
  <2> QED BY <2>1, <2>2, <2>3 DEF KeysInv
<1>2. CASE ApiKeysNext
  <2>1. meddled' = meddled \cup (UpdatesInHand' \cap RevokedRows') BY <1>2 DEF ApiKeysNext
  <2>2. CASE KeyStep /\ crowded' = (crowded \/ InsertsCross')
    <3>1. KeyStepEffect BY <2>2, KeyStepsDo DEF KeysInv
    <3> QED BY <2>1, <2>2, <3>1, KeyStepsKeep
  <2>3. CASE (\E h \in KeyHandlers : AdminCreate(h)) /\ crowded' = TRUE
    BY <2>1, <2>3, AdminStepsKeep
  <2> QED BY <1>2, <2>2, <2>3 DEF ApiKeysNext
<1> QED BY <1>1, <1>2

LEMMA KeysInvPromises == KeysInv => ApiKeysTypeOK /\ SelfServeLimitHolds
BY DEF KeysInv, CreationsFit, KeptKeys, SelfServeLimitHolds

\* Keys, requests and histories keep their types.
THEOREM ApiKeysTypes == ApiKeysSpec => []ApiKeysTypeOK
BY KeysInitially, KeysSteps, KeysInvPromises, PTL DEF ApiKeysSpec

\* For any number of keys and requests, in any order: creations that do not overlap keep
\* the limit of keys (BeginCreateKey, InsertKey); the keys beyond it are ones that an
\* update had in hand while they were revoked, and that its write may bring back (WriteKey).
THEOREM ApiKeysAreSafe == ApiKeysSpec => []SelfServeLimitHolds
BY KeysInitially, KeysSteps, KeysInvPromises, PTL DEF ApiKeysSpec

-----------------------------------------------------------------------------

\* Who gets in, for any number of users, sessions, keys and requests (Users, ApiKeys).
THEOREM AccessIsSafe == UsersSpec /\ ApiKeysSpec => []AccessHolds
<1>1. UsersConsistent /\ SelfServeLimitHolds => AccessHolds BY DEF AccessHolds
<1> QED BY <1>1, UsersAreConsistent, ApiKeysAreSafe, PTL

=============================================================================
