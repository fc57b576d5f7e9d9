------------------------------ MODULE MCStores ------------------------------
(***************************************************************************)
(* The model-checked instance of the parts beside the image job.  They     *)
(* share no state, so one run takes them one after the other: the first    *)
(* state of a behaviour names the part that moves, from any of its initial *)
(* states, and the others stay in one of theirs.                           *)
(***************************************************************************)
EXTENDS JobCapacity, ProviderPool, Access, AccountPool,
        Copies, PaymentFlow, Pictures, RiskControl, Upstreams, Migrations,
        JobSubmission, TLC

CONSTANTS user, prov1, prov2, tag, promo, gift, openai, aliyun, c1, m1, m2, n1, d1, s1, s2, s3

VARIABLE part  \* the part that moves

\* Values of the constants that a configuration file cannot write down
MCJobOwners == {user}
MCOwner == [j \in Jobs |-> user]

PoolEntry(platform, enabled, default, mode, tags) ==
  [state |-> "there", platform |-> platform, enabled |-> enabled,
   default |-> default, mode |-> mode, tags |-> tags]
MCEntryInputs == {PoolEntry(prov1, TRUE, TRUE, "fallback", {}),
                  PoolEntry(prov2, TRUE, FALSE, "any", {tag})}
MCRequestTags == {{}, {tag}}
MCPurposes == {"registration", "password_reset"}
MCCodeType == [c \in Codes |-> IF c = promo THEN "promo" ELSE "redeem"]
MCChatOf == [x \in Pictures |-> c1]
MCChains == {<<openai>>, <<openai, aliyun>>}
MCNameOf == [m \in Models |-> n1]
MCBuiltIn == <<m1>>
MCModelInputs == {[there |-> TRUE, enabled |-> on, default |-> on, price |-> 2] :
                    on \in BOOLEAN}
MCShipped == [s \in Starters |-> IF s = s3 THEN 1 ELSE 2]

\* The two requests of every part are the same values, and so are the two accounts of
\* AccountSync, which nothing tells apart.
Alike == Permutations(Callers)

-----------------------------------------------------------------------------

OnlyIn(name, same) == part # name => same

StoresInit ==
  /\ part \in {"capacity", "pool", "registration", "users", "keys", "accounts", "sync",
               "payment", "conversations", "history", "risk", "call", "web", "codex",
               "config", "migrations", "catalogue", "submission"}
  /\ CapacityInit /\ PoolInit /\ ApiKeysInit /\ AccountPoolInit /\ PaymentFlowInit
  /\ ConversationsInit /\ HistoryInit /\ WebConversationInit /\ CodexInit
  /\ RegistrationInit
  /\ OnlyIn("registration", registered = {} /\ \A c \in Codes : code[c].max = 1)
  /\ UsersInit /\ \A x \in Tokens \ {d1} : session[x] = NoSession
  /\ session[d1] = NoSession => \A u \in Users \ Admins : account[u].status = "active"
  /\ OnlyIn("users", /\ \A u \in Users \ Admins : account[u].status = "active"
                     /\ session[d1] = NoSession)
  /\ AccountSyncInit
  /\ OnlyIn("sync", /\ source = "cpa" /\ syncRun.direction = "push"
                    /\ \A n \in AccountNames : here[n] = NoCopy /\ there[n] = NoCopy)
  /\ RiskControlInit
  /\ riskPolicy[1] = NoPolicy /\ OnlyIn("risk", riskPolicy[2] = NoPolicy)
  /\ OnlyIn("risk", riskConfig.chain = <<openai>> /\ riskConfig.mode = "block")
  /\ CallInit /\ OnlyIn("call", refundPartial)
  /\ RuntimeConfigInit /\ cfg.dir = CHOOSE d \in Dirs : TRUE
  /\ MigrationsInit /\ OnlyIn("migrations", versions = {})
  /\ SubmissionInit /\ tier = NewRequest.tier
  /\ part # "catalogue" => (Empty <=> part # "submission")

Rest ==
  /\ UNCHANGED part
  /\ part # "capacity" => UNCHANGED capacityVars
  /\ part # "pool" => UNCHANGED poolVars
  /\ part # "registration" => UNCHANGED registrationVars
  /\ part # "users" => UNCHANGED usersVars
  /\ part # "keys" => UNCHANGED apiKeyVars
  /\ part # "accounts" => UNCHANGED accountPoolVars
  /\ part # "sync" => UNCHANGED accountSyncVars
  /\ part # "payment" => UNCHANGED paymentVars
  /\ part # "conversations" => UNCHANGED conversationVars
  /\ part # "history" => UNCHANGED historyVars
  /\ part # "risk" => UNCHANGED riskVars
  /\ part # "call" => UNCHANGED callVars
  /\ part # "web" => UNCHANGED webVars
  /\ part # "codex" => UNCHANGED codexVars
  /\ part # "config" => UNCHANGED runtimeVars
  /\ part # "migrations" => UNCHANGED migrationVars
  /\ part \notin {"catalogue", "submission"} => UNCHANGED catalogueVars
  /\ part # "submission" => UNCHANGED submissionVars

StoresNext ==
  \/ part = "capacity" /\ CapacityNext /\ Rest
  \/ part = "pool" /\ PoolNext /\ Rest
  \/ part = "registration" /\ RegistrationNext /\ Rest
  \/ part = "users" /\ UsersNext /\ Rest
  \/ part = "keys" /\ ApiKeysNext /\ Rest
  \/ part = "accounts" /\ AccountPoolNext /\ Rest
  \/ part = "sync" /\ AccountSyncNext /\ Rest
  \/ part = "payment" /\ PaymentFlowNext /\ Rest
  \/ part = "conversations" /\ ConversationsNext /\ Rest
  \/ part = "history" /\ HistoryNext /\ Rest
  \/ part = "risk" /\ RiskControlNext /\ Rest
  \/ part = "call" /\ CallNext /\ Rest
  \/ part = "web" /\ WebConversationNext /\ Rest
  \/ part = "codex" /\ CodexNext /\ Rest
  \/ part = "config" /\ RuntimeConfigNext /\ Rest
  \/ part = "migrations" /\ MigrationsNext /\ Rest
  \/ part = "catalogue" /\ CatalogueNext /\ Rest
  \/ part = "submission" /\ SubmissionNext /\ edits' + tierMoves' <= 1 /\ Rest

vars == <<part, capacityVars, poolVars, registrationVars, usersVars, apiKeyVars,
          accountPoolVars, accountSyncVars, paymentVars, conversationVars, historyVars,
          riskVars, callVars, webVars, codexVars, runtimeVars, migrationVars,
          catalogueVars, submissionVars>>

StoresSpec == StoresInit /\ [][StoresNext]_vars

-----------------------------------------------------------------------------

\* Every part keeps the types of its rows, of its requests and of its counters.
TypesOK ==
  /\ part = "capacity" => CapacityTypeOK
  /\ part = "pool" => PoolTypeOK
  /\ part = "registration" => RegistrationTypeOK
  /\ part = "users" => UsersTypeOK
  /\ part = "keys" => ApiKeysTypeOK
  /\ part = "accounts" => AccountPoolTypeOK
  /\ part = "sync" => AccountSyncTypeOK
  /\ part = "payment" => PaymentFlowTypeOK
  /\ part = "conversations" => ConversationsTypeOK
  /\ part = "history" => HistoryTypeOK
  /\ part = "risk" => RiskControlTypeOK
  /\ part = "call" => CallTypeOK
  /\ part = "web" => WebConversationTypeOK
  /\ part = "codex" => CodexTypeOK
  /\ part = "config" => RuntimeConfigTypeOK
  /\ part = "migrations" => MigrationsTypeOK
  /\ part \in {"catalogue", "submission"} => SubmissionTypeOK

=============================================================================
