------------------------------ MODULE ApiKeys ------------------------------
(***************************************************************************)
(* The keys of the external interface of one user: what the user may do    *)
(* with them while API access is on, what an administrator does, and the   *)
(* requests that come in under a key.  No handler holds a transaction: it  *)
(* reads and then writes, and an update writes every column back, the      *)
(* status it read included.                                                *)
(***************************************************************************)
EXTENDS Integers, FiniteSets

CONSTANTS
  ApiKeyIds,         \* ids, each given once
  KeyHandlers,       \* bound: requests that go on at one time
  MaxSelfServeKeys,  \* maxSelfServeAPIKeys
  MaxKeyRequests,    \* bound: requests
  NoApiKey

ASSUME ApiKeysAssumption ==
  /\ IsFiniteSet(ApiKeyIds) /\ NoApiKey \notin ApiKeyIds
  /\ MaxSelfServeKeys \in Nat /\ MaxKeyRequests \in Nat

VARIABLES
  apiKey,     \* status of the row, "unused" before and "gone" after
  apiAccess,  \* api_access_enabled of the user
  handler,    \* the requests
  asked,      \* requests so far
  meddled,    \* history: keys an update has had in hand while they were revoked
  crowded     \* history: creations overlapped, or an administrator created a key

apiKeyVars == <<apiKey, apiAccess, handler, asked, meddled, crowded>>

KeyStatus == {"active", "disabled", "revoked"}
KeyRows == {k \in ApiKeyIds : apiKey[k] \in KeyStatus}

\* The keys that count against the user's limit
LiveKeys == {k \in KeyRows : apiKey[k] # "revoked"}

\* to: the status an update asks for, or "keep"; then what it is about to write.
Handler == [pc: {"idle", "insert", "read", "write", "revoke", "delete", "admitted"},
            id: ApiKeyIds \cup {NoApiKey}, to: KeyStatus \cup {"keep"}]

NoHandler == [pc |-> "idle", id |-> NoApiKey, to |-> "keep"]

HandlerGoes(h, pc, k, to) ==
  handler' = [handler EXCEPT ![h] = [pc |-> pc, id |-> k, to |-> to]]

Ask(h) ==
  /\ handler[h].pc = "idle" /\ asked < MaxKeyRequests
  /\ asked' = asked + 1
  /\ UNCHANGED <<apiKey, apiAccess>>

KeyEnds(h) == handler' = [handler EXCEPT ![h] = NoHandler] /\ UNCHANGED <<apiAccess, asked>>

-----------------------------------------------------------------------------

\* handleCreateMyAPIKey: what ListByUser shows is counted, revoked keys are not.
BeginCreateKey(h) ==
  /\ Ask(h) /\ apiAccess
  /\ Cardinality(LiveKeys) < MaxSelfServeKeys
  /\ HandlerGoes(h, "insert", NoApiKey, "keep")

InsertKey(h, k) ==
  /\ handler[h].pc = "insert"
  /\ apiKey[k] = "unused" /\ apiKey' = [apiKey EXCEPT ![k] = "active"]
  /\ KeyEnds(h)

\* handleAdminCreateAPIKey asks for no access and counts nothing.
AdminCreate(h) ==
  /\ Ask(h)
  /\ HandlerGoes(h, "insert", NoApiKey, "keep")

\* handleUpdateMyAPIKeyStatus looks at the key before the store's Update does.
BeginToggle(h, k, to) ==
  /\ Ask(h) /\ apiAccess
  /\ k \in KeyRows /\ apiKey[k] # "revoked" /\ to \in {"active", "disabled"}
  /\ HandlerGoes(h, "read", k, to)

\* handleAdminUpdateAPIKey takes any status, or none for a change of other columns.
BeginAdminUpdate(h, k, to) ==
  /\ Ask(h)
  /\ HandlerGoes(h, "read", k, to)

\* (Variation: a status that was not asked for is written as it came.)
AskedStatus(r) == r.to

\* The copy that Update writes back has the status asked for, or else the one it read.
WrittenStatus(r) == IF r.to = "keep" THEN apiKey[r.id] ELSE r.to

\* GetByID in Update
ReadKey(h) ==
  LET r == handler[h]
  IN  /\ r.pc = "read"
      /\ IF r.id \in KeyRows
         THEN /\ HandlerGoes(h, "write", r.id, WrittenStatus(r))
              /\ UNCHANGED <<apiAccess, asked>>
         ELSE KeyEnds(h)
      /\ UNCHANGED apiKey

SetKey(k, to) == apiKey' = IF k \in KeyRows THEN [apiKey EXCEPT ![k] = to] ELSE apiKey

\* The UPDATE of Update names the row and nothing else.
WriteKey(h) ==
  /\ handler[h].pc = "write" /\ SetKey(handler[h].id, handler[h].to) /\ KeyEnds(h)

\* The user's own revocation and deletion look for the key first; an administrator's
\* revocation does not.
BeginRevoke(h, k) ==
  Ask(h) /\ apiAccess /\ k \in KeyRows /\ HandlerGoes(h, "revoke", k, "keep")

BeginAdminRevoke(h, k) == Ask(h) /\ HandlerGoes(h, "revoke", k, "keep")

BeginDeleteKey(h, k) ==
  Ask(h) /\ apiAccess /\ k \in KeyRows /\ HandlerGoes(h, "delete", k, "keep")

RevokeKey(h) ==
  /\ handler[h].pc = "revoke" /\ SetKey(handler[h].id, "revoked") /\ KeyEnds(h)

DeleteKey(h) ==
  /\ handler[h].pc = "delete" /\ SetKey(handler[h].id, "gone") /\ KeyEnds(h)

\* requireExternalAPIKey: the key is found by its hash among the active ones; the
\* request then goes on whatever becomes of the key.
AuthenticateKey(h, k) ==
  /\ Ask(h) /\ apiKey[k] = "active"
  /\ HandlerGoes(h, "admitted", k, "keep")

EndExternal(h) == handler[h].pc = "admitted" /\ KeyEnds(h) /\ UNCHANGED apiKey

SetApiAccess(on) ==
  /\ asked < MaxKeyRequests /\ asked' = asked + 1
  /\ apiAccess' = on
  /\ UNCHANGED <<apiKey, handler>>

-----------------------------------------------------------------------------

ApiKeysInit ==
  /\ apiKey = [k \in ApiKeyIds |-> "unused"]
  /\ apiAccess = TRUE
  /\ handler = [h \in KeyHandlers |-> NoHandler]
  /\ asked = 0
  /\ meddled = {} /\ crowded = FALSE

KeyStep ==
  \/ \E h \in KeyHandlers :
       \/ BeginCreateKey(h) \/ ReadKey(h) \/ WriteKey(h) \/ RevokeKey(h) \/ DeleteKey(h)
       \/ EndExternal(h)
       \/ \E k \in ApiKeyIds : \/ InsertKey(h, k) \/ BeginRevoke(h, k)
                               \/ BeginAdminRevoke(h, k)
                               \/ BeginDeleteKey(h, k) \/ AuthenticateKey(h, k)
                               \/ \E to \in {"active", "disabled"} : BeginToggle(h, k, to)
                               \/ \E to \in KeyStatus \cup {"keep"} : BeginAdminUpdate(h, k, to)
  \/ \E on \in BOOLEAN : SetApiAccess(on)

UpdatesInHand == {handler[h].id : h \in {x \in KeyHandlers : handler[x].pc \in {"read", "write"}}}
RevokedRows == {k \in ApiKeyIds : apiKey[k] = "revoked"}
InsertsCross ==
  \E h, g \in KeyHandlers : h # g /\ handler[h].pc = "insert" /\ handler[g].pc = "insert"

ApiKeysNext ==
  /\ \/ KeyStep /\ crowded' = (crowded \/ InsertsCross')
     \/ (\E h \in KeyHandlers : AdminCreate(h)) /\ crowded' = TRUE
  /\ meddled' = meddled \cup (UpdatesInHand' \cap RevokedRows')

ApiKeysSpec == ApiKeysInit /\ [][ApiKeysNext]_apiKeyVars

ApiKeysTypeOK ==
  /\ apiKey \in [ApiKeyIds -> KeyStatus \cup {"unused", "gone"}]
  /\ apiAccess \in BOOLEAN
  /\ handler \in [KeyHandlers -> Handler]
  /\ asked \in 0..MaxKeyRequests
  /\ meddled \subseteq ApiKeyIds
  /\ crowded \in BOOLEAN

\* While creations do not overlap and no administrator creates a key, the keys beyond
\* the user's limit are ones that an update had in hand when they were revoked: its
\* write brings such a key back, whatever else the requests do in between.
SelfServeLimitHolds == ~crowded => Cardinality(LiveKeys \ meddled) <= MaxSelfServeKeys
=============================================================================
