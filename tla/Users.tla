-------------------------------- MODULE Users --------------------------------
(***************************************************************************)
(* Accounts and sessions: logins behind the limiter of failed ones, the    *)
(* creation, change, deletion, restoration and final removal of users, and *)
(* the sessions that disabling and deleting a user end, and a password     *)
(* that is set for the user (by an administrator, or with a code); the     *)
(* password a user changes with the old one ends no session.               *)
(*                                                                         *)
(* A step is a statement on the database or a call of the limiter, which   *)
(* its mutex makes atomic.  The limiter is in memory.  Its key is the      *)
(* client's address and the credential as it was typed, and a user has     *)
(* two, the e-mail address and the user name: what is counted under one    *)
(* key does not stop a login under another.  Credentials of nobody and a   *)
(* change of the user name are left out.                                   *)
(***************************************************************************)
EXTENDS Integers, FiniteSets

CONSTANTS
  Users,
  Clients,      \* the addresses that logins come from
  Admins,       \* the users whose role is "admin"
  Bootstrap,    \* the users the environment declares
  Passwords,
  Tokens,       \* bound: sessions that are ever opened
  MaxFailures,  \* 5
  Callers,      \* bound: requests that go on at one time
  MaxCalls      \* bound

ASSUME UsersAssumption ==
  /\ Admins \subseteq Users /\ Bootstrap \subseteq Users
  /\ MaxFailures \in Nat \ {0} /\ MaxCalls \in Nat
  /\ IsFiniteSet(Users) /\ IsFiniteSet(Callers)
  /\ Passwords # {} /\ Users # {} /\ Clients # {}

VARIABLES
  account,   \* business_users
  session,   \* user_sessions
  limiter,   \* loginRateLimiter.entries
  guesses,   \* history: wrong passwords tried since the count of a key last started
  closings,  \* history: operations on a user that have ended its sessions
  restored,  \* history: users who were restored after they were last deleted
  caller,
  calls

usersVars == <<account, session, limiter, guesses, closings, restored, caller, calls>>

Account == [status: {"none", "active", "disabled", "deleted"}, password: Passwords]

\* loginRateLimitKey, and the user its credential finds
LoginKeys == [client: Clients, user: Users, credential: {"email", "username"}]

NoEntry == [failures |-> 0, locked |-> FALSE]

AnyUser == CHOOSE u \in Users : TRUE

AnyPassword == CHOOSE p \in Passwords : TRUE

AnyKey == CHOOSE k \in LoginKeys : TRUE

Closings == {"disable", "reset", "delete"}

Operations == Closings \cup {"enable", "restore", "change"}

IdleCaller == [pc |-> "idle", op |-> "login", key |-> AnyKey, user |-> AnyUser,
               password |-> AnyPassword]

Caller == [pc: {"idle", "bootstrap", "authenticate", "failed", "right", "session",
                "update", "revoke", "again", "remove"},
           op: Operations \cup {"login", "purge"}, key: LoginKeys, user: Users,
           password: Passwords]

CallBegins(c, begun) ==
  /\ caller[c].pc = "idle"
  /\ calls < MaxCalls
  /\ calls' = calls + 1
  /\ caller' = [caller EXCEPT ![c] = begun]

CallerGoes(c, pc) ==
  /\ caller' = [caller EXCEPT ![c] = IF pc = "idle" THEN IdleCaller ELSE [@ EXCEPT !.pc = pc]]
  /\ UNCHANGED calls

\* GetSessionByToken
Usable(t) == session[t].state = "live" /\ account[session[t].user].status = "active"

\* requireAdminAuth; an administrator neither disables nor deletes itself.
AnAdminWho(Who) == \E t \in Tokens : Usable(t) /\ session[t].user \in Admins \cap Who

-----------------------------------------------------------------------------
(* handleLogin                                                             *)

\* allow: a lock that is old enough is forgotten; how old is not modelled.
BeginLogin(c, k, p) ==
  /\ CallBegins(c, [pc |-> "bootstrap", op |-> "login", key |-> k, user |-> k.user,
                    password |-> p])
  /\ \/ ~limiter[k].locked /\ UNCHANGED <<limiter, guesses>>
     \/ /\ limiter[k].locked
        /\ limiter' = [limiter EXCEPT ![k] = NoEntry]
        /\ guesses' = [guesses EXCEPT ![k] = 0]
  /\ UNCHANGED <<account, session, closings, restored>>

\* EnsureBootstrapUsers: those that exist stay as they are, whatever their status.
EnsureBootstrapUsers(c) ==
  /\ caller[c].pc = "bootstrap"
  /\ account' = [u \in Users |->
       IF u \in Bootstrap /\ account[u].status = "none"
       THEN [status |-> "active", password |-> AnyPassword] ELSE account[u]]
  /\ CallerGoes(c, "authenticate")
  /\ UNCHANGED <<session, limiter, guesses, closings, restored>>

\* Authenticate of the store, and the refusal of users who log in by their name (one
\* that looks like an address passes), which counts as a failure and is no guess.
AuthenticateUser(c) ==
  LET k == caller[c].key
      u == caller[c].user
      right == account[u].status = "active" /\ caller[c].password = account[u].password
  IN  /\ caller[c].pc = "authenticate"
      /\ \/ right /\ CallerGoes(c, "right") /\ UNCHANGED guesses
         \/ /\ right /\ u \notin Admins /\ k.credential = "username"
            /\ CallerGoes(c, "failed") /\ UNCHANGED guesses
         \/ /\ ~right
            /\ CallerGoes(c, "failed")
            /\ guesses' = [guesses EXCEPT ![k] = @ + 1]
      /\ UNCHANGED <<account, session, limiter, closings, restored>>

Locks(failures) == failures >= MaxFailures

\* recordFailure, which starts anew when the lock is old enough.
RecordFailure(c) ==
  LET k == caller[c].key
      Recorded(n) == [limiter EXCEPT ![k] = [failures |-> n, locked |-> limiter[k].locked \/ Locks(n)]]
  IN  /\ caller[c].pc = "failed"
      /\ \/ /\ limiter' = Recorded(limiter[k].failures + 1)
            /\ UNCHANGED guesses
         \/ /\ limiter[k].locked
            /\ limiter' = [limiter EXCEPT ![k] = [failures |-> 1, locked |-> Locks(1)]]
            /\ guesses' = [guesses EXCEPT ![k] = 1]
      /\ CallerGoes(c, "idle")
      /\ UNCHANGED <<account, session, closings, restored>>

RecordSuccess(c) ==
  /\ caller[c].pc = "right"
  /\ limiter' = [limiter EXCEPT ![caller[c].key] = NoEntry]
  /\ guesses' = [guesses EXCEPT ![caller[c].key] = 0]
  /\ CallerGoes(c, "session")
  /\ UNCHANGED <<account, session, closings, restored>>

\* createAuthSession: the foreign key refuses the session of a user who is gone,
\* and nothing refuses that of one who has been disabled or deleted meanwhile.
CreateSession(c, t) ==
  LET u == caller[c].user
  IN  /\ caller[c].pc = "session"
      /\ session[t].state = "none"
      /\ IF account[u].status = "none" THEN UNCHANGED session
         ELSE session' = [session EXCEPT ![t] =
                [user |-> u, state |-> "live", closings |-> closings[u]]]
      /\ CallerGoes(c, "idle")
      /\ UNCHANGED <<account, limiter, guesses, closings, restored>>

\* handleLogout, and the time of a session that is over.
EndSession(t) ==
  /\ session[t].state = "live"
  /\ session' = [session EXCEPT ![t].state = "over"]
  /\ UNCHANGED <<account, limiter, guesses, closings, restored, caller, calls>>

-----------------------------------------------------------------------------
(* Users.                                                                  *)

\* CreateUserWithUsername: by an administrator, or by the user (Registration).
CreateUser(u, p) ==
  /\ calls < MaxCalls
  /\ account[u].status = "none"
  /\ account' = [account EXCEPT ![u] = [status |-> "active", password |-> p]]
  /\ calls' = calls + 1
  /\ UNCHANGED <<session, limiter, guesses, closings, restored, caller>>

\* DeleteUser counts the administrators after it has read the row; the two reads
\* are one step here.
LastAdmin(u) == u \in Admins /\ \A a \in Admins \ {u} : account[a].status \in {"none", "deleted"}

\* SetUserStatus, ResetUserPassword (also by a code sent to the address),
\* UpdateUser with a password, DeleteUser, RestoreUser and ChangeUserPassword
\* read the row first ...
BeginOperation(c, op, u, p) ==
  /\ account[u].status # "none"
  /\ (account[u].status = "deleted") <=> (op = "restore")
  /\ op \in {"disable", "delete"} => AnAdminWho(Users \ {u})
  /\ op \in {"enable", "restore"} => AnAdminWho(Users)
  /\ op = "reset" => AnAdminWho(Users) \/ account[u].status = "active"
  /\ op = "change" => \E t \in Tokens : Usable(t) /\ session[t].user = u
  /\ op = "delete" => ~LastAdmin(u)
  /\ CallBegins(c, [IdleCaller EXCEPT !.pc = "update", !.op = op, !.user = u, !.password = p])
  /\ UNCHANGED <<account, session, limiter, guesses, closings, restored>>

\* ... and then write it whatever it has become since.
Written(old, op, p) ==
  IF op \in {"reset", "change"} THEN [old EXCEPT !.password = p]
  ELSE [old EXCEPT !.status = CASE op = "disable" -> "disabled"
                                [] op = "delete"  -> "deleted"
                                [] OTHER          -> "active"]

UpdateAccount(c) ==
  LET u == caller[c].user
      op == caller[c].op
  IN  /\ caller[c].pc = "update"
      /\ \/ /\ account[u].status = "none"
            /\ CallerGoes(c, "idle")
            /\ UNCHANGED <<account, restored>>
         \/ /\ account[u].status # "none"
            /\ account' = [account EXCEPT ![u] = Written(@, op, caller[c].password)]
            /\ restored' = CASE op = "restore" -> restored \cup {u}
                             [] op = "delete"  -> restored \ {u}
                             [] OTHER          -> restored
            /\ CallerGoes(c, IF op \in Closings THEN "revoke" ELSE "idle")
      /\ UNCHANGED <<session, limiter, guesses, closings>>

SessionsEnd(u) ==
  session' = [t \in Tokens |->
    IF session[t].state = "live" /\ session[t].user = u
    THEN [session[t] EXCEPT !.state = "over"] ELSE session[t]]

\* RevokeSessionsByUserID
RevokeSessions(c) ==
  LET u == caller[c].user
  IN  /\ caller[c].pc = "revoke"
      /\ SessionsEnd(u)
      /\ closings' = [closings EXCEPT ![u] = @ + 1]
      /\ CallerGoes(c, "idle")
      /\ UNCHANGED <<account, limiter, guesses, restored>>

\* purgeDeletedBusinessUser: of one user, or of each in turn whose deletion is a
\* week old at the start of nearly every request of an administrator.  The data
\* are cleared before the row is read again.
BeginPurge(c, u) ==
  /\ account[u].status = "deleted"
  /\ AnAdminWho(Users)
  /\ CallBegins(c, [IdleCaller EXCEPT !.pc = "again", !.op = "purge", !.user = u])
  /\ UNCHANGED <<account, session, limiter, guesses, closings, restored>>

ReadAgain(c) ==
  /\ caller[c].pc = "again"
  /\ CallerGoes(c, IF account[caller[c].user].status = "deleted" THEN "remove" ELSE "idle")
  /\ UNCHANGED <<account, session, limiter, guesses, closings, restored>>

RowGoes(u) == account' = [account EXCEPT ![u].status = "none"] /\ SessionsEnd(u)

\* (Variation: it removes the row that it has read.)
RemoveAsRead(c) ==
  /\ caller[c].pc = "remove"
  /\ RowGoes(caller[c].user)
  /\ CallerGoes(c, "idle")
  /\ UNCHANGED <<limiter, guesses, closings, restored>>

\* PurgeDeletedUser's transaction: it removes the row only if it is still
\* deleted, and with it the sessions, or is rolled back.
RemoveUser(c) ==
  LET u == caller[c].user
  IN  /\ caller[c].pc = "remove"
      /\ IF account[u].status = "deleted" THEN RowGoes(u) ELSE UNCHANGED <<account, session>>
      /\ CallerGoes(c, "idle")
      /\ UNCHANGED <<limiter, guesses, closings, restored>>

\* A request is cancelled, or its statement fails; a wrong password is always
\* recorded.
AbortCall(c) ==
  /\ caller[c].pc \notin {"idle", "failed"}
  /\ CallerGoes(c, "idle")
  /\ UNCHANGED <<account, session, limiter, guesses, closings, restored>>

Restart ==
  /\ limiter' = [k \in LoginKeys |-> NoEntry]
  /\ guesses' = [k \in LoginKeys |-> 0]
  /\ caller' = [c \in Callers |-> IdleCaller]
  /\ UNCHANGED <<account, session, closings, restored, calls>>

-----------------------------------------------------------------------------

NoSession == [user |-> AnyUser, state |-> "none", closings |-> 0]

\* The administrators are there, and one of them may have a session.
UsersInit ==
  /\ \E old \in SUBSET (Users \ Admins) :
       account = [u \in Users |->
         [status |-> IF u \in Admins \cup old THEN "active" ELSE "none", password |-> AnyPassword]]
  /\ \E first \in [Tokens -> {NoSession} \cup
         {[NoSession EXCEPT !.user = a, !.state = "live"] : a \in Admins}] :
       /\ Cardinality({t \in Tokens : first[t].state = "live"}) <= 1
       /\ session = first
  /\ limiter = [k \in LoginKeys |-> NoEntry]
  /\ guesses = [k \in LoginKeys |-> 0]
  /\ closings = [u \in Users |-> 0]
  /\ restored = {}
  /\ caller = [c \in Callers |-> IdleCaller]
  /\ calls = 0

UsersNext ==
  \/ \E c \in Callers, k \in LoginKeys, p \in Passwords : BeginLogin(c, k, p)
  \/ \E c \in Callers, u \in Users, p \in Passwords, op \in Operations :
       BeginOperation(c, op, u, p)
  \/ \E c \in Callers, u \in Users : BeginPurge(c, u)
  \/ \E u \in Users, p \in Passwords : CreateUser(u, p)
  \/ \E t \in Tokens : EndSession(t) \/ \E c \in Callers : CreateSession(c, t)
  \/ \E c \in Callers :
       \/ EnsureBootstrapUsers(c) \/ AuthenticateUser(c) \/ RecordFailure(c) \/ RecordSuccess(c)
       \/ UpdateAccount(c) \/ RevokeSessions(c) \/ ReadAgain(c) \/ RemoveUser(c) \/ AbortCall(c)
  \/ Restart

UsersSpec == UsersInit /\ [][UsersNext]_usersVars

-----------------------------------------------------------------------------

UsersTypeOK ==
  /\ account \in [Users -> Account]
  /\ session \in [Tokens -> [user: Users, state: {"none", "live", "over"}, closings: Nat]]
  /\ limiter \in [LoginKeys -> [failures: Nat, locked: BOOLEAN]]
  /\ guesses \in [LoginKeys -> Nat] /\ closings \in [Users -> Nat]
  /\ restored \subseteq Users
  /\ caller \in [Callers -> Caller]
  /\ calls \in 0..MaxCalls

\* However many logins run at once, and though none holds the limiter's lock
\* while it compares the password, the wrong passwords under one key pass the
\* limit by fewer than their number.
GuessesAreBounded == \A k \in LoginKeys : guesses[k] < MaxFailures + Cardinality(Callers)

\* Once the sessions of a user have been ended, who was disabled or deleted or was
\* given a new password, none from before works again, not even when the user is
\* enabled or restored.  (A request that fails between its two statements, and the
\* password a user changes, end none.)
ClosedSessionsStayClosed ==
  \A t \in Tokens : Usable(t) => session[t].closings = closings[session[t].user]

\* A removal that began before a user was restored does not remove the user.
RestoredUsersStay == \A u \in restored : account[u].status # "none"

UsersConsistent == GuessesAreBounded /\ ClosedSessionsStayClosed /\ RestoredUsersStay

=============================================================================
