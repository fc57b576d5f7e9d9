SPECIFICATION StoresSpec
CHECK_DEADLOCK FALSE
SYMMETRY Alike
CONSTANTS
  \* the two requests of every part, and rows
  Executions = {x1, x2}
  PoolCallers = {x1, x2}
  Visits = {x1, x2}
  Callers = {x1, x2}
  KeyHandlers = {x1, x2}
  ImageRequests = {x1, x2}
  PayTxs = {x1, x2}
  Keepers = {x1, x2}
  Requests = {x1, x2}
  d1 = d1
  Tokens = {d1, d2}
  ApiKeyIds = {d1, d2}
  AccountNames = {x1, x2}
  PayOrders = {d1}
  \* JobCapacity
  user = user
  Jobs = {j1, j2}
  JobOwners <- MCJobOwners
  Owner <- MCOwner
  Providers = {prov1, prov2}
  MaxUserActiveJobs = 1
  MaxQueuedJobs = 2
  MaxProviderRunningJobs = 1
  Nothing = Nothing
  \* ProviderPool
  prov1 = prov1
  prov2 = prov2
  tag = tag
  Groups = {g1, g2}
  ApiProviders = {a1}
  Members = {member}
  Platforms = {prov1, prov2}
  Tags = {tag}
  EntryInputs <- MCEntryInputs
  RequestTags <- MCRequestTags
  FailureThreshold = 2
  MaxPoolCalls = 4
  \* Registration
  promo = promo
  gift = gift
  Emails = {e1, e2}
  Codes = {promo, gift}
  Purposes <- MCPurposes
  CodeType <- MCCodeType
  CodeRequired = {TRUE, FALSE}
  MaxUses = {1}
  MaxCodeAttempts = 1
  MaxSent = 2
  MaxRequests = 3
  NoUser = NoUser
  NoCode = NoCode
  \* Users
  Users = {admin1, u1}
  Clients = {client}
  Admins = {admin1}
  Bootstrap = {admin1}
  Passwords = {pw1, pw2}
  MaxFailures = 1
  MaxCalls = 3
  \* ApiKeys
  MaxSelfServeKeys = 1
  MaxKeyRequests = 5
  NoApiKey = NoApiKey
  \* AccountPool
  Accounts = {acc1, acc2}
  InitialAccounts = {acc1}
  InSelectedGroups = {acc1}
  ReservePercent = 50
  DefaultQuota = 2
  MaxQuota = 2
  Reported = {0, 2}
  StatusesSet = {"normal", "disabled"}
  AllowDisabled = FALSE
  MaxChanges = 1
  NoAccount = NoAccount
  \* AccountSync
  MaxVersion = 2
  MaxSyncChanges = 1
  \* PaymentFlow
  Channels = {ch1}
  ByHand = hand
  NoPay = NoPay
  \* Conversations
  c1 = c1
  Pictures = {pic1, pic2}
  Chats = {c1}
  ChatOf <- MCChatOf
  Outside = {pic2}
  Cleaners = {cleaner}
  NoPicture = NoPicture
  \* ImageHistory
  HistoryIds = {h1, h2}
  Contents = {pic1, pic2}
  MaxHistoryChanges = 2
  \* RiskControl
  openai = openai
  aliyun = aliyun
  Moderators = {openai, aliyun}
  TextOnly = {aliyun}
  Chains <- MCChains
  Scopes = {1, 2}
  RiskChecks = {check}
  RiskAdmins = {radmin}
  MaxRiskChanges = 1
  \* ProviderCall
  MaxAttempts = 2
  MaxRequested = 2
  MaxReturned = 3
  MaxItems = 4
  \* WebConversation
  Calls = {call1}
  MaxFiles = 2
  MaxAnswers = 2
  MaxShown = 2
  \* CodexImages
  Drawings = {pic1, pic2}
  MaxDrafts = 2
  \* RuntimeConfig
  StoredAccounts = {acc1}
  Files = {file1}
  Dirs = {dir1, dir2}
  MaxSaves = 2
  \* Migrations
  Starters = {s1, s2, s3}
  s1 = s1
  s2 = s2
  s3 = s3
  Shipped <- MCShipped
  MaxRestarts = 2
  Nobody = Nobody
  \* ModelCatalogue and JobSubmission
  m1 = m1
  m2 = m2
  n1 = n1
  Models = {m1, m2}
  Names = {n1}
  NameOf <- MCNameOf
  BuiltIn <- MCBuiltIn
  BuiltInPrice = 1
  ModelInputs <- MCModelInputs
  Editors = {editor1}
  MaxEdits = 3
  AskedModel = m1
  Tiers = {t1, t2}
  MaxTierMoves = 1
INVARIANTS
  TypesOK
  WithinCapacity
  PoolConsistent
  RegistrationConsistent
  AccessHolds
  AccountPoolConsistent
  QuietCopiesAreWhole
  MoneyFollowsOrders
  PicturesStay
  QuietChecksFollowPolicy
  UpstreamsAreHeard
  MigrationsRunOnce
  SubmissionsAreKept
