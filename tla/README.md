# A verification of Poom Studio's backend

Poom Studio (`src/backend`, Go) sells image generation: a user submits a job,
the backend reserves credits for it, calls an image provider in the background
and shows the result in a conversation.  Around that it keeps users and their
sessions, payments and subscriptions, codes and referrals, provider pools, a
model catalogue, the pictures on disk, and an older image path with accounts of
its own.  The state lives in PostgreSQL, in files, in Redis and in memory, and
is written by several goroutines of several backend instances, mostly without a
lock around what they read and write.  These modules say what must come out of
that for the credits of the user, for the conversation and for the operator who
restarts the backend in the middle of it.  TLC checks the modules on small
instances; TLAPS proves their safety invariants for every instance.

## The system

Paths are below `src/backend`.

| Component | State | Operations | Hard because of |
| --- | --- | --- | --- |
| Image job runner, `api/image_provider_proxy.go` | a row of `business_image_jobs`, a copy of it in memory, the job context | `createQueuedProviderImageJob`, `executeProviderImageGenerate`, `saveJob`, `finishJob` | every save is a read and a later write of the whole row; some writes are bound to a context that may be cancelled |
| Cancel requests, `api/business_job_handlers.go`, `api/business_job_cancel.go` | the map of active jobs of the instance | `handleCancelBusinessImageJob`, `RequestCancel`, refunds, snapshot save | runs between any two database calls of the runner, on any instance |
| Stale-job reconciler, `api/business_job_reconcile.go` | none | list, refund, mark, update, every 15 s | decides on rows that may be renewed, finished or cancelled meanwhile |
| Worker and heartbeat, `api/business_job_worker.go` | leases in the row | claim by id, drain, renew every 10 s | a claim must not run a job twice; a lease must not outlive its owner |
| Dispatcher, `api/business_job_dispatcher.go` | a channel of 1024 notifications, a Redis list | `Notify`, `loop` | notifications are dropped when the channel is full or Redis is away |
| Job store, `internal/businessjobs/store.go` | the rows | `Save`, capacity checks, claims, `ListStale`, `ReconcileStale` | last writer wins; limits counted over many rows |
| Credit store, `internal/businesscredits/store.go` | wallets and their ledger | `Reserve`, `Refund`, `SetBalance`, `Add`, `AddWithTx` | read, compute, write under a row lock; a second wallet in the same transaction |
| Payments and subscriptions, `internal/businesspayments/store.go` | orders, subscriptions, commissions | create, complete, refund an order; reserve and refund subscription credits | repeated callbacks, renewals and upgrades that race |
| Generations and assets, `internal/businessimage/store.go` | the status the conversation shows | upserts, `MarkGenerationFinished` | written by runner, handler and reconciler in any order |
| Admission gate, `api/image_admission.go` | slots and queue tokens in memory | acquire, release | replaced when the configuration changes |
| Capacity limits, `internal/businessjobs/store.go` | the rows of all jobs, an advisory lock | `SaveQueuedWithCapacity`, `StartWithProviderCapacity` | rows of others are counted and a row of one's own is written |
| Provider pool, `internal/businessproviders/store.go` | groups with a default per platform, status, cooldown and failure streak of members | select, acquire, release, report, administration | no transactions: defaults are cleared and set in two statements, reports overlap |
| Provider calls, `api/image_provider_proxy.go` | attempts, answers, what is billed | requests, retries, pool fallback, settlement | an answer may come for a request that has been given up |
| Codes, referrals, registration, `internal/businesscodes/store.go`, `api/registration_handlers.go` | verification codes, uses of a code, who invited whom | verify, register, redeem | the last use of a code is raced |
| Users, sessions, login limits, `internal/businessauth/store.go`, `api/login_rate_limiter.go` | users, sessions, failed logins | log in, change, disable, delete, restore, purge | a password is compared between the check of the limit and its count |
| API keys, `internal/businessapikeys/store.go` | status of keys, API access of the user | create, toggle, revoke, use | every update writes back all it has read |
| Tags, models and prices, `internal/businessmodels/store.go`, `api/business_dispatch_tags.go` | the catalogue, the default model, what a row says of its job | seed, change, submit, resolve at the run | a job is submitted under one catalogue and runs under another |
| Risk control, `internal/riskcontrol` | settings, policies of the scopes, a chain of moderators | change, resolve, moderate | settings are read one after another |
| Accounts of the older image path, `internal/accounts` | states, quotas and leases of accounts | lease, refresh, record, change | quotas read before and written after a call |
| Account synchronisation, `api/source_sync.go`, `internal/accounts` | accounts here and at CPA, Sub2API or NewAPI | push, pull | one of many fails; either side changes meanwhile |
| Upstream clients, `handler`, `api/cpa_image_client.go` | a call, its route, the upstream's messages | post, stream, poll, fall back | pictures of older turns, drafts, two routes |
| Image history, `internal/imagehistory` | conversations and files named by content | save, delete, clear, clean up | conversations share files |
| Configuration and storage, `internal/config`, `api/config_handlers.go` | override file, Redis, open store, image directory | save, reload, move data, start | data are copied while they change; a crash in between |
| Migrations, `internal/database/migrate.go` | the applied versions | lock, look, apply | instances of two releases start at once |
| Notifications, tracker, token pool, updater, diagnostics, router, frontend | records, wiring | | not modelled, see below |

How they interact: a submit handler inserts the row and notifies the
dispatcher; a worker claims the row and starts an execution; the execution
passes the admission gate, saves the row as running, reserves credits from the
subscription and then from the balance, calls the provider and records the
result.  Cancel requests and the reconciler work on the same row, the same
generation and the same ledger, and all three may refund.

What makes the parts correct: a job ends, and ends once; what it cost is what
it delivered; a refund is made exactly once whoever comes last; the row and the
conversation agree; a crash leaves nothing charged that was not delivered;
wallets never lose an update; limits hold; an order is granted once and taken
back once; a code is used no more often than it allows; a session that was
closed stays closed; a picture somebody sees keeps its file; what is copied
arrives whole.

## Modules

### `ImageJob`: one job and everybody who touches it

A step is what happens between two calls on the database; which calls are one
step is said at the top of the module.

| Variable | In the code |
| --- | --- |
| `row` | the row of the job: status, stage, `upstream_sent`, `lease_until` (unset, ahead of now, behind now), and whether it meets the stale condition of its status (`due`) |
| `gen` | `business_image_generations.status` |
| `held`, `back` | the sums of reserve and refund entries of the generation, in the subscription and in the balance |
| `ex` | executions: program counter, copy of the row (`job`), whether `jobCtx` lives, whether the heartbeat has started, what the provider returned |
| `active` | `Server.activeBusinessJobs[jobID]` of each instance |
| `cx` | cancel requests: program counter, the first snapshot's verdict, the item carried through the handler |
| `rc` | the pass of each instance's reconciler and what it decided for a row it listed; the mutex is the process's, so passes of two instances overlap |
| `crashes` | how often an instance has died |

Actions of an execution, in the order of `executeProviderImageGenerate`:
`Claim`, `Start` (registration and every check that can fail before the job is
queued), `Precheck`, `PlaceQueued`, `Admission`, `SaveRunning`, `CheckRunning`,
`PlaceRunning`, `ReserveSub`, `ReserveBal`, `ReserveReply`, `UndoSub`,
`CheckReserved`, `CheckDispatch`, `RefundCancel`, `Upstream`, `Call`, `After`,
`RefundFailed`, `Settle`, `CheckSettled`, `Record`, `Exit`, and `SaveGet` and
`SavePut`, the two halves of every `saveJob`.  The cancel handler is
`CancelBefore` to `CancelMark`, the reconciler `ReconcileList` to
`ReconcileUpdate`.  `Heartbeat`, `LeaseOver`, `RowAges` and `Crash` are the
environment: the ticker, the clock and the operating system.

A pass of the reconciler has two statements with its refunds and marks in
between: `ListStale` decides who is refunded and told, and `ReconcileStale` then
fails whatever is stale, listed or not, also after an empty list.  Both compare
with the cut-off times of the pass, so no row becomes stale by the clock in
between (`LeaseOver` and `RowAges` wait for passes to end); a pool failover does
make one stale, by saving a lease that is over.  Such a row is failed, and nobody
refunds it or marks its generation.

Abstractions.  An image costs one credit.  The stages after which nothing is
sent any more ("finished", "failed", "cancelled", "credit", ...) are one stage
`ended`: the code asks of a stage only whether the job was still before its
upstream call, and at `credit` or `admission` the row is final anyway.  Time is
three-valued: a lease is unset, ahead or behind.  `LongWaits` is a timing
assumption: an execution is away for the 30 seconds of a lease only while it
waits for its slot, for the provider or for its images to be stored, not inside
a database call.  The database does not fail and the risk control is a choice
to fail early.  A definition whose comment begins with "(Variation:" is a
slightly different version of the next one; nothing uses it, it records which
mistake the properties would notice.

### `ImageJobProperties`, `MCImageJob`

The promises, each with its exceptions spelled out, and the TLC instances.

### `JobQueue`, `MCJobQueue`: from the submission to a worker

Many rows and the worker loops of several instances.  `job` holds the rows
(status, claim, whether an execution is alive), `created` their order,
`notifying` the requests that have saved and not yet notified, `redis` the list
of job ids, `channel` the notifications of each instance, `worker` its loop.
`SaveQueued` and `NotifyJob` are the end of a submission, `SaveRefused` that of
one which risk control refuses and which is saved as failed; `Pop` and `Receive` are
the dispatcher's loop and the worker's reception, `Wake` the maintenance tick,
`ListQueued`, `ClaimNext` and `DrainTimesOut` a drain with its batch and its time
limit.  A notification may be lost in a full channel, in Redis or in a crash.
What a claimed job does is reduced to what frees or takes the row again:
`SaveWaiting` (the lease dropped while it waits for admission), `EndWaiting`,
`Leave`, `LeaseRunsOut`.  A row that has left the queue is not followed.

### `JobCapacity`: limits counted over many rows

`row` are the rows of all jobs, `lock` the holder of the advisory lock, `submit`
and `execution` where each submission and each start of a run is.
`BeginSubmit`, `CheckQueuedCapacity`, `SaveQueued` and `AbortSubmit` are
`SaveQueuedWithCapacity`; `BeginStart`, `CheckProviderRunningCapacity` and
`SaveRunning` are `StartWithProviderCapacity`; the other actions write rows
without the lock, as the code does.  Limits of zero, which switch a check off,
are left out.  The promise counts jobs that have not been claimed and runs since
their checked start, through all the stages they save (`steady`): a row that was
cancelled and that a later save revives, or whose execution falls back on another
provider, is not checked by the code either.

### `ProviderCall`: requests to the provider and the bill

The calls between reserve and record of one execution, which `ImageJob` takes as
its `Call` and the steps that settle: single requests or batches (`SendRequest`,
`Answered`, `RequestFails`), backoff and retries (`EndBackoff`), the change from
a member of the pool to the API provider (`FallBack`), the judgement of the
member (`JudgeCancelled`, `JudgeFailure`, `JudgeAnswer`) and the charge for
pictures beyond those asked (`ChargeExtra`, `Deliver`).  A picture costs one;
refunds on failure are on.  Order, wording and content of pictures are left out.

### `JobSubmission` and `ModelCatalogue`: what a job carries

`ModelCatalogue` is the table of models, statement by statement: seeding by
whoever finds it empty, creation, update, the default that is cleared and set in
two statements, deletion.  `JobSubmission` extends it with one job: `request`
are its submissions, the first and its repetitions, `jobRow` and `shown` the row
and the generation, `run` its execution, `tier` the tags of the user.  A run
resolves model and price from the catalogue of its moment and takes the tags from
the row.  One platform; upstream names are fixed; a price of zero is left out.

### `CreditLedger` and `CreditStore`: wallets

`CreditLedger` is the promise: a wallet and its ledger change together, at
once, never below zero, and a generation never gets back more than was reserved
for it.  `CreditStore` is the code: a transaction begins, waits for the row lock
(`balanceForUpdate`), reads, for a refund reads the totals of the generation
(`generationTotalsWithTx`), writes the balance and the entry, may go on to the
referrer's wallet (`settleAffiliateCommissionWithTx`,
`reverseAffiliateCommissionWithTx`), and commits or is rolled back.  `holder` is
the lock table, `tx` the open transactions; the ledger's variables are the
committed tables, so `LedgerSpec` itself is the refinement property.
`ImageJob` uses the store at the grain of the ledger: a reserve or a capped
refund is one step there because it is one step here.

Assumption: a referrer registered before the user (`Rank`).  The code binds a
referral only while it creates the user (`BindAffiliateReferralWithTx`), so the
inviting user exists already.  Not modelled: `DeleteUserCreditData`.

### `AdmissionGate`, `MCAdmissionGate`: who may generate now

One instance of the backend.  `gate` and `key` are the fields of
`imageAdmissionController`, `gates` the `imageConcurrencyGate` objects (capacity
and length of `slots` and `queue`), `saved` the settings in the database, `cfg`
the part of `Config.Server` they are copied to, and `caller` the goroutines: each
comes again and again to generate, to look at the gate
(`collectRuntimeStatus`, whose snapshot may replace the gate too) or to save
settings.  `ApplyMax`, `ApplyLimit`, `ReadMax` and `ReadLimit` are single field
accesses, because the writes of `applyBusinessRuntimeSettings` take no lock;
`Enter` is the critical section of the controller; `Token`, `Admit`, `GiveUp`,
`DropToken` and `Release` are the channel operations of `gate.acquire`.  The
`select` may take the slot, the timer or the cancelled context whichever is
ready, so `GiveUp` needs nothing.  A gate nobody refers to is garbage and may be
allocated again.  `limit` stands for the length of the queue together with its
timeout, which are one more field of the key.  `ImageJob` sees the gate as its
action `Admission`: a slot, a full queue or timeout, or a cancelled context.

### `Subscription`, `MCSubscription`: what a user has bought

The orders and subscriptions of one user, and the credits images take from them.

| Variable | In the code |
| --- | --- |
| `order` | `business_payment_orders`: status, action, package and the credits it will grant |
| `sub` | `business_user_subscriptions`: status, order, package, `starts_at`, `expires_at`, `credits_total`, `credits_used` |
| `reserved`, `refunded`, `net`, `source` | subscription entries of `business_credit_ledger`: sums per generation, their difference per subscription, the subscription of a generation's latest reserve |
| `holder`, `tx` | row locks and open transactions |
| `now` | the day |
| `drawn`, `known` in `sub` | history, which only properties and proofs read: from where a generation reserved, and which subscriptions there were when an order was locked |

`BeginCreate` and `Price` are `CreateOrder`; `Report`, `LockOrder`, `TakeLatest`
and `Grant` are `CompleteOrder`, called by the administrator, by the callback of
the payment provider and by its repetitions; `Fail`, `CancelOrder` and
`RefundOrder` end an order in one step, because they hold its lock from their
first read.  `BeginReserve`, `Find` and `Spend` are `ReserveSubscriptionCredits`,
`BeginRefund`, `LockRefund` and `Refund` are `RefundSubscriptionCredits`.
`Abort` is a rollback anywhere and `Tick` the next day.

`SELECT ... FOR UPDATE` with an order and a limit is modelled as PostgreSQL
executes it: it chooses from the rows of its snapshot (`sees`), waits for the
row, checks it again when it has it, and goes on to the next row of the snapshot
if it no longer qualifies.  That a row was replaced while somebody waited for it
is the interesting case of renewals and upgrades.

Abstractions.  A day is the unit of time and packages run equally long; money is
left out, so that the proration of an upgrade is a choice of `UpgradeCredits`;
the catalogue of packages does not change.  The status "expired" needs no step:
every query compares `expires_at` too.  No day ends inside a transaction that
compares the clock with rows.  The reserves of one generation follow one
another, as in `ImageJob` with one execution.  Orders that buy balance credits are
in `PaymentFlow`; wallet postings are in `CreditStore`.

### `PaymentOrder` and `PaymentFlow`: what an order promises

`PaymentOrder` is the abstract order: pending, then failed, cancelled or
completed; its grant is given once, when it is completed, may be replaced by the
grant of another order, and is taken back once, when it is refunded.
`Subscription` implements it (`ImplementsPaymentOrder`, with the subscription as
the grant, replaced when an upgrade ends it) and so does `PaymentFlow`
(`ImplementsOrdersOfCredits`, with the posted credits as the grant).

`PaymentFlow` has the orders of credits: `ChooseChannel`, `InsertPayOrder`,
`AskGateway`, `AttachPayment` and `MarkOrderFailed` are the checkout, which an
instance may leave at any step (`CheckoutDies`); `Pay` and `Notify` the buyer and
the gateway, which reports as often as it likes; `LockPayOrder`,
`CommitCompletion` and `CommitRefund` the transactions under the lock of the
order with its commission; `CancelPayOrder` one statement; `CheckChannel` and
`EditChannel` the administration of channels, which looks for pending orders
before it writes.  A refund whose credits, or whose commission, the wallet of the
buyer or of the referrer does not cover fails as a whole, which is `AbortPayTx`
here.  Amounts, signatures and the catalogue of packages are left out.

### `ProviderPool`: members, defaults and failures

`entry` are groups and API providers, `member` the members with their streak
of failures, `poolCaller` a call of the store in progress.  Every action is one
statement: `ClearDefault` and `InsertEntry` or `EnableDefault` are two, and so are
`ReadFailures` and `ReportMemberFailure`.  `PreviewMembers` and `Eligible` are the
two copies of the selection, for the administration's preview and for a request.
A running job of a member has the member's platform, and the `pool:id` tags of a
request are left out.

### `Registration`: addresses, codes and referrals

`verification` are the codes sent by e-mail, a row for each, of which the latest
that is not consumed counts, `code` and `usage` registration and
redeem codes with their users, `referral` who invited whom, `granted` entries of
the credit ledger, `visit` the requests.  `BeginRegister` to `CommitRequest` are
the statements of a registration, with the row lock of `ConsumeCode` and the two
wallets in their order; `BeginRedeem` shares the later ones; `RequestAborts` may
come anywhere.  A registration that fails has used up the code sent by e-mail,
which the code consumes before the transaction; nothing else is taken.

### `Users`: sessions and the limiter

`account` and `session` are the tables, `limiter` the counts of failed logins in
memory, `caller` the requests.  The limiter's key is the address of the client
and the credential as it was typed (`LoginKeys`); a user has two credentials, the
e-mail address and the user name, so the limiter bounds the guesses under one key
and not those at one user.  A login asks the limiter, compares the password
and tells the limiter in three steps (`BeginLogin`, `AuthenticateUser`,
`RecordFailure` or `RecordSuccess`), and opens its session in a fourth.  A
password that is set for the user, disabling and deletion write the user and then
revoke the sessions; a password the user changes (`ChangeUserPassword`) revokes
none.  A purge reads the user again (`ReadAgain`) before `RemoveUser`.
`Restart` forgets the limiter.  A session counts which closings it has seen.

### `ApiKeys`: keys of the external interface

The keys of one user under requests of the user and of an administrator, each of
which reads and then writes the whole row, so that an update which crosses a
revocation brings the key back.  `meddled` (such keys) and `crowded` (creations
that crossed) are histories that say where the promise of the limit ends.  The limits per key (credits,
rate, concurrency, models) are stored and enforced nowhere, so there is nothing
to state; the switch that turns the interface off and the 120 seconds a request
waits for its job are left out.

### `AccountPool`: accounts of the older image path

`auth`, `state` and `lease` are the files, the runtime states and the leases,
all behind one mutex, so a step is a passage through it; `work` are the image
requests, `admin` an administrator's update or refresh in two steps.
`BeginImageRequest` to `MarkAccount` follow `withImageResultsFilteredWithMetadata`.
One process; a reload of the storage, which forgets the leases, is left out, and
so are the plan "Pro" and the order of preference among candidates.

### `AccountSync`: one run against CPA, Sub2API or NewAPI

`here` and `there` are the accounts of the two sides, `syncRun` one run with what
it has read.  `DoTask` takes the tasks in any order; others change either side in
between (`ChangeHere`, `ChangeThere`), which also stands for a second run.  With
Sub2API and NewAPI a run reports success although accounts failed, so the
promise asks for a run without failures.

### `Conversations` and `ImageHistory`: pictures and their files

`Conversations` has the rows of conversations, generations and assets of one user
and the files on disk: recording by an execution in four steps, deletion,
purge, and the backfill of assets from older rows.  A generation has one picture.
A change of a title touches nothing here and is left out.  `ImageHistory` has the
history of the images page, where conversations share files by content and a
request opens a store of its own without any lock.

### `RiskControl`: which settings judge a prompt

`ReadConfig` and `ReadPolicy` collect the settings of a check scope by scope,
`Moderate` walks the chain with its fallbacks; administrators read and write
meanwhile (`ReadSettings`, `WriteConfig`, `WritePolicy`, `DeletePolicy`).
`mode` stands for each setting that a policy may override.  `ImageJob` sees the
verdict as an early failure.

### `WebConversation` and `CodexImages`: the upstream clients

`WebConversation` has the conversation client with its two routes, the stream and
the polling, against an upstream that writes messages into a tree when it likes;
calls that inpaint share a tree with older pictures.  `CodexImages` has the CPA
client behind the gate, with its strategies and its log, and the event stream of
the accounts' client with drafts, repeated pictures and errors.

### `RuntimeConfig`: saved settings and moved data

The override file, the overrides in Redis, the settings in use, the data of each
backend and the pictures of each directory.  A save writes, reopens the store,
copies account by account, lists the old image directory and moves it file by
file, and swaps; it may fail or the process die between any two steps, and a
start loads what is saved and fills an empty backend from the other.  A request
takes its store (`HoldStore`: `getStore`) or its image directory (`OpenHistory`:
`imagehistory.NewStore`) when it begins and writes there later (`AddAccounts`,
`DeleteAccounts`, `SaveFile`), whatever a save has changed by then; a client of
Redis that the swap has closed ends the requests that hold it.  `calmSaves` and
`astray` are histories: no save was cut short or crossed by a write; accounts were
copied when that was no longer so.  One administrator saves at a time.

### `Migrations`

Instances of two releases take the advisory lock, look at the versions, apply
what they lack and release the lock.  The lock is that of the connection which
took it: the connection may end between two statements (`DropConnection`), and the
start goes on over another one without the lock.  A start has ten seconds for all
of it, the wait included; when they are over, or a statement fails, it gives up
(`TimesOut`).  Instances may crash anywhere, and those that failed start again.

### `Access`, `Pictures`, `Copies`, `Upstreams`

Parts that share no state and promise the same kind of thing: `Access` extends
`Registration`, `Users` and `ApiKeys`; `Pictures` extends `Conversations` and
`ImageHistory`; `Copies` extends `AccountSync` and `RuntimeConfig`; `Upstreams`
extends `ProviderCall`, `WebConversation` and `CodexImages`.  Each adds one
definition, the promise of its parts, which a run checks and a theorem states.

### `MCStores`

The parts above from `JobCapacity` on (but for `JobQueue`, `Subscription` and the
abstract order) share no state.  One run therefore explores their sum, not their
product: `part` names the one that moves, and the others stay where they are.
Every part still has its full interleavings.

## Runs

| Run | Instance | Shows |
| --- | --- | --- |
| `image_job_solo` | 1 execution, 2 cancel requests, 2 instances, 2 images, no clock | all interleavings of a runner with two handlers, one of which may be on an instance that does not know the execution |
| `image_job_recovery` | 1 execution, 1 cancel request, 1 image, clock, 1 crash, pool fallback | leases, the reconciler and a crash anywhere; under fairness the job settles |
| `job_queue` | 2 jobs, 2 instances, channels of 1, batches of 1, 1 crash, both backends | notifications lost and dropped; the queue stays whole and under fairness every queued job is claimed |
| `credit_store` | 2 transactions, 2 wallets, 1 generation, amounts 1 and 2 | interleaved transactions implement the ledger and end |
| `admission_gate` | 2 callers, 3 gates, 2 settings that differ in slots and queue, so that half-read ones are further keys | gates are replaced under their callers and nothing leaks; under fairness everybody gets out |
| `subscription` | 2 orders of 2 packages, 2 subscriptions, 1 generation of at most 2 credits, 2 transactions, 2 days; symmetric | repeated reports, cancellation and refund of an order, renewals and upgrades, images that reserve and give back; the orders implement `PaymentOrder` |
| `stores` | each part with 2 overlapping requests (`Stores.cfg`), symmetric in them | each part keeps its promise whatever the order of the statements |
| `image_job_twice` | 2 executions, no cancel | violates `OneExecution` |
| `image_job_stale_cancel` | 1 execution, 1 cancel, clock, 1 crash | violates `StaleCancelRefunds` |
| `image_job_cancel_refund` | 1 execution, 1 cancel | violates `CancelBeforeUpstreamRefunds` |
| `image_job_failure_shown` | 1 execution | violates `FailuresReachTheGeneration` |
| `admission_limit` | 3 callers, 4 gates, 2 settings of one slot that differ in the queue, callers symmetric | violates `RunningWithinLimit` |

Why the bounds are enough.  Two images are the least for which too few and too
many can be told from none; the provider may return up to one more than asked.
Two cancel requests are needed because one of them may carry a snapshot that
the other has made old; two instances because a request on the wrong one cannot
reach the execution's context.  One crash suffices for the recovery
properties: what recovery needs is in the database, so a second crash starts
from a state that is like the one after the first.  The recovery run has one
execution: with two of them the double execution of `image_job_twice` breaks
the accounts, so nothing more could be said.  Two transactions are what a lost
update or a circle of waiting needs; a third adds waiting but no new conflict
between two wallets.  Two callers and three gates are what it takes for one
caller to be in an old gate while the other replaces the current one.
Two orders are what a renewal or an upgrade and a repeated report need; a
subscription per order is enough, since a second grant of one order takes the
row of the other and is seen before that one is completed.  One generation is
enough to be refunded twice, since two refunds that have both read before either
writes get past every cap; several generations and queues of more than two
subscriptions are left to the proof.  `MaxBalance` and `MaxReserved` bound what
is begun, not what may come of it.

In `job_queue` a channel of one notification overflows with the second job, and a
batch of one makes a drain come back for the other; the crash may take either
instance.  In `stores` two requests are what a race needs: each part names two of
whatever may cross (submissions, callers of the pool, visits, logins, handlers,
image requests, transactions, requests for the same conversation, checks and
administrators, starts of three instances of two releases), one or two of the
rows they share, and limits of one or two so that the limit is reached.  Bounds
on how many requests begin (`MaxPoolCalls`, `MaxRequests`, `MaxCalls`,
`MaxKeyRequests`, `MaxChanges`, `MaxSyncChanges`, `MaxHistoryChanges`,
`MaxRiskChanges`, `MaxSaves`, `MaxRestarts`, `MaxSent`, `MaxEdits`, `MaxTierMoves`) leave
room for the crossing and one request more, which meets what the crossing left.
Some parts begin in a chosen one of their initial states: `users` with one user
who has no session yet, `registration` with nobody registered, `sync` with a push
to CPA into an empty side, `migrations` with an empty table; the whole of the
states a part may start in would not fit the time of one run.

Deadlock is checked everywhere but in `stores`, whose bounded requests end.

### What the properties promise and where the promise ends

Image jobs.

- `EndingsAreFree` is `FailureIsFree`, `CancelBeforeUpstreamIsFree` and
  `DeliveryCostsItsBill`.  A failed job has cost nothing; exceptions: a committed
  reserve reported as an error (`Unheard`), and an execution that outlived its
  reconciliation (`Outlived`, only with the pool fallback and the clock).  A job
  cancelled before the provider was called has cost nothing, whoever comes last,
  the handler or the execution.  A job that row or conversation shows as
  succeeded has cost no more than the bill of its pictures, without exception.
- `PicturesArePaid`: the ledger holds exactly the bill of the delivered images.
  Exception: a cancel request that looked before the upstream call and refunds
  after the answer.  Checked and proved without the clock, with which it may be
  less than the bill: an instance that dies between recording the pictures and
  saving the row has them refunded when its lease is over, and a reconciler that
  listed a job as queued too long refunds it even if it has begun since and
  delivers.  Never is it more (`DeliveryCostsItsBill`).
- `ConversationIsRight` is `RowAndGenerationAgree` and `UnfinishedIsUncharged`:
  the row, the conversation and the ledger say the same in the end.  Exceptions: a
  job refused before it was queued again leaves its generation queued, and
  uncharged; a cancel request that dies between row and generation; and a job
  whose execution failed over and so saved a lease that may be over.  The
  reconciler may fail that row without having listed it: the execution leaves at
  the final row, the credits stay taken and the generation stays as it was.
- `SentMeansCalled`: the mark that denies refunds is never set too early.
- `ReconcilerSparesTheLiving`: a heartbeat protects its job.  Exception: after
  a pool failure the execution saves the lease it remembers from its start.
- `JobSettles`: under fairness the job ends for good.
- `EveryJobIsClaimed`: under fairness every queued job is claimed or leaves.
- `QueueIsWhole`: a job is saved before anybody hears of it, is in the list once,
  is once in the batch of a drain, and only claims lease and execute it.

Limits, wallets and payments.

- `WithinCapacity`: see `JobCapacity` for which rows count.
- `HeldByCallers`, `GateOfItsSettings`: slots and places belong to callers and go
  back to the gate they were taken from; each gate keeps the limits its callers
  read.  `EveryCallerReturns`: nobody waits for ever on a gate, current or not.
- `NoLostUpdate`, `NeverOverRefunded`, `LedgerSpec`, `EveryTransactionEnds`:
  wallets.  `NoCircle`: no transactions wait for each other's wallets.  (Nothing
  like it holds of `Subscription`, where two upgrades with a renewal between them
  may lock each other's rows; the deadlock detector of the database ends one of
  them, which is the model's `Abort`.)
- `OrderGrantsOnce`: a payment that is reported again, cancelled or refunded
  meanwhile grants one subscription or none, and a refund takes it away.
- `UsageMatchesLedger`: `credits_used` loses no update and stays within what was
  bought.
- `RefundsFitReserves`: nothing is given back twice.  Exception: a generation
  that reserved from two subscriptions, because a refund locks the subscription
  of the latest reserve, and that may be another one for the next refund.
- `RunsQueueUp`: a subscription bought after another one follows or replaces
  it.  Exception: two orders that are completed at the same time, of which
  neither sees the subscription of the other.
- `ImplementsPaymentOrder`: the orders of subscriptions refine `PaymentOrder`.
- `MoneyFollowsOrders`: entries and commission of an order of credits follow its
  status, once each.

The invariants of `stores`.

- `PoolConsistent`: one default group per platform at most, no member without
  its group, no streak longer than the failures, and a request finds a member
  where the preview shows one.  That overlapping reports lose counts, and that a
  member selected before its cooldown is set active, is what the code does.
- `RegistrationConsistent`: a code is used no more than it ever allowed and its
  count is the number of its users; a registered user has default credits,
  grants and reward once, and nobody else has any; guesses at a verification
  code pass the limit by fewer than their number.
- `AccessHolds` is `UsersConsistent` and `SelfServeLimitHolds`.  Wrong passwords
  under one key of the limiter pass its limit by fewer than the requests at one
  time; a session that an operation has ended stays ended; a restored user is not
  removed.  A user has no more keys than the limit; exceptions: creations that
  overlap, and keys an update had in hand while they were revoked, which its
  write brings back.
- `AccountPoolConsistent`: an account works for one request, its lease is held
  exactly as long, and a request under the routing policy leaves the reserve.
  Exception: figures that somebody sets after the request has checked them.
- `QuietCopiesAreWhole` is `QuietSyncAgrees`, `CalmSavesKeepData` and
  `CutShortSavesLoseNothing`.  A run of the synchronisation, or a save of the
  configuration, that fails nowhere and that nobody crosses loses nothing and
  leaves both sides alike; a request that took its store or directory before a
  save and writes there after it has crossed the save.  A save that fails or dies
  anywhere has every account in one backend or the other until a later save copies
  again, and pictures are always in some directory.
- `PicturesStay` is `SavedPicturesStay` and `HistoryKeepsPictures`.  Exceptions: a
  generation recorded while its own conversation is deleted, and a picture saved
  to the history while a clean-up has it as a candidate.
- `QuietChecksFollowPolicy`: a check during which no setting is written follows
  the policies of its scopes.  A check that is crossed may follow half of each;
  nothing is promised of it.
- `UpstreamsAreHeard` is `CallsAreSettled` (what is delivered is paid, once, and
  a member is judged once), `AnswersAreOurs` (the pictures returned are those of
  the posted message, once and in order) and `CodexTellsTheTruth` (each picture
  once, drafts only without one, one log entry per CPA request).
- `MigrationsRunOnce`: each migration once and in order; an instance that is up
  finds all of its release; no start refuses what another has applied, unless a
  connection that held the lock was lost.  A start that waits longer than its ten
  seconds fails all the same.
- `SubmissionsAreKept`: a run charges a price its model had since it began, with
  the tags of a submission; row and generation agree, unless submissions and
  runs crossed; changes of the catalogue that do not cross keep one default.

The five violations are disagreements between documentation and code that the
modelling met; each is described with its lines in `PROJECT.json`.

### Fairness

`FairSpec` of `ImageJob` assumes that a goroutine or handler that can go on goes
on, that the maintenance ticker (15 s) keeps draining and reconciling, that
heartbeats tick and that time passes.  Time is strongly fair, because it passes
between two passes of the reconciler, and those come every 15 seconds.  Nothing
is assumed of the user, who need not cancel, of crashes, or of notifications:
claims come from the ticker.
Provider calls end because every request carries a timeout.  `FairSpec` of
`AdmissionGate` is weak for everything a caller does without a free slot: timers
fire and images end; it does not assume that anybody is ever admitted.  That of
`CreditStore` is weak for what a transaction does on its own and strong for the
row lock, which PostgreSQL grants first come, first served.

That of `JobQueue` is weak for the tick and the reception of a worker and strong
for the list and the claims of its drain: not every drain runs into its time
limit.  It is weak, too, for the end of a job's wait for admission.  Without
that, an older job whose executions dropped their lease again and again would be
first in every drain and keep the others waiting.  Nothing is assumed of
notifications, of Redis or of the end of executions.

`Subscription` and the parts of `stores` have no fairness: they state safety only.

## Proofs

Eight modules hold theorems and their lemmas, each about the modules it
extends.  Every proof of safety has the same plan: an inductive invariant (named
`...Inv`), a lemma or theorem that the initial states satisfy it, one lemma per
action that the step keeps it, and a last temporal step.

### `ImageJob_proofs`

- `TypeCorrect`: `Spec => []TypeOK`, by the inductive `TypeInv`: the type
  invariant with `SubWithinPrice`, because the rest of a price after the
  subscription's part must not be negative.
- `SentIsTrue`: `Spec => []SentMeansCalled`.  The property is not inductive:
  the mark travels in copies, in the memory of executions and in the items that
  cancel requests save much later.  `SentInv` adds that an execution whose copy
  or program counter claims to have called has called (`Earned`), and that as
  long as nobody has called no copy anywhere carries the mark (`CopiesClean`).

The other theorems are about a job that is executed once: they assume
`Execs = {e}`.  With two executions the statements are false, because the code
can execute a job twice (run `image_job_twice`) and both reserve and refund under
one generation.  Cancel requests, instances, crashes, the price and the clock
stay arbitrary.  The invariants build on each other:

- `CourseInv` relates the program counter of the execution to its copy, to the
  row (`Course`, `RowFits`) and to what each cancel request carries
  (`RequestFits`).  From it follows `TheLivingAreSpared`:
  `ReconcilerSparesTheLiving`, the promise of the heartbeat.
- `HeldInv` adds what the generation has reserved in each wallet at each program
  counter.  The three that follow rest on it.
- `FreeInv` says by whom and from when everything has been given back:
  `OneFailureIsFree` and, where failures are refunded (`RefundOnFailure`),
  `OneEndingIsFree`, that is `EndingsAreFree` as long as the execution has not
  failed over with the clock running (`~Outlived`): such an execution may be failed
  unrefunded and unlisted, see above.  Without that setting a job that is
  cancelled early keeps its charge: the code calls no refund.
- `PaidInv` follows the bill from the price to the delivered pictures.
  `CostFits` bounds what the generation holds by the bill from the answer on; it
  needs no assumption on the clock, because whoever interferes can only give
  back: `OneDeliveryCostsItsBill`, the third part of `EndingsAreFree`, for every
  setting.  `SettledPaid` says that it is the bill exactly, as long as no lease
  runs out (`~Clock`): `OneDeliveryIsPaid`, that is `PicturesArePaid`.  With the
  clock that is false (see above).
- `ShownInv` follows generation and row: `OneConversationIsRight`, that is
  `ConversationIsRight`.  Passes of several instances' reconcilers that overlap
  are covered here and by the other theorems, not by a run: with two instances the
  recovery run is too large for TLC.

### `CreditStore_proofs`

- `Invariance`: `IInv`, which adds to the types that an open transaction holds
  the locks of what it has read or written, that its new balances are the
  committed ones plus its deltas, and that its refund fits what the generation
  still holds, which is stable because refunds of a generation lock the same wallet.
- `TypeCorrect`, `BalancesMatchLedger` and `RefundsAreCapped` follow;
  `StoreImplementsLedger` maps a commit to a ledger step and everything else to a
  stutter.
- `LocksAreOrdered`: who waits for a wallet holds only wallets of users who
  registered later.  `NobodyWaitsInACircle`, that is `NoCircle`, follows for any
  number of transactions: among some that all wait, the one that waits for the
  user who registered first (`LowestRank`, from `WFMin` of the library) waits for
  a transaction that itself waits for an earlier one.

### `AdmissionGate_proofs`

- `Invariance`: `GateInv`, which adds to the three invariants of the run that a
  caller refers to a gate exactly while it is inside, so that an allocated gate
  is nobody's, and that the controller's key describes its current gate.
  `CountStep` counts: one caller's step moves one caller in or out of a set.
- `TypeCorrect`, `NothingLeaks` and `GatesFitTheirCallers` follow, and
  `NoReceiveWaits`: the receives that give a place or a slot back never block.
- `LimitHoldsBetweenChanges`: with a single setting, `RunningWithinLimit`.  All
  that is read and cached is that setting, so the gate is made once and whoever
  is inside counts on it (`OneGate`).  With two settings the run
  `admission_limit` violates the same formula: the replaced gate is the only way
  beyond the limit.

### `Payments_proofs`

Of `Subscription`:

- `Invariance`: `IInv`.  `Books` says that ledger entries name subscriptions that
  exist; `LockedBy` that a transaction holds the locks it relies on and that
  what it has read is still so; `PayFits` that its refund fits what the
  generation still holds, as long as all its reserves came from one
  subscription; `QueueBy` that no subscription the order has known and that
  still runs ends after the base of the purchase.
  `Respects` and `Lasting` are the frame: a
  step that changes no row locked by another transaction leaves that
  transaction's facts alone.
- `TypeCorrect`, `GrantedOnce`, `UsageIsPosted`, `NoDoubleRefund` and `Queued`
  follow; they are the properties of the run for every number of orders,
  subscriptions, transactions, packages and days.
- `OrdersRefined`: `Spec => ImplementsPaymentOrder`.  A step either changes no
  order and no grant, or is the one step of `PaymentOrder` for the order it
  locks; an upgrade is a completion that replaces other grants.

Of `PaymentFlow`:

- `PaymentsBegin`, `PaymentsContinue`: `PInv`, which adds to types and property
  that a transaction that has looked at its order holds its lock and what it saw
  is still so (`LookIsGood`), that no order has a status before it is inserted
  (`InsertIsFirst`), and that a commission has the entries of its status
  (`CommissionFits`).
- `PaymentTypes` and `MoneyHolds` follow; `CreditOrdersRefined` is the second
  refinement of `PaymentOrder`.

### `Access_proofs`

- Registration.  `RegInv` is `RegCore` with `GuessesFit`.  `RegCore` says that a
  request is at the steps of its purpose (`PurposeFits`), what it knows of its
  user and of its code is still so (`UserFits`, `CodeFits`), and no two requests
  hold the same lock or insert the same user (`LocksClash`), so that the tables
  agree at every commit.  `GuessesFit` counts guesses at a verification code:
  the attempts counted so far and the requests about to count one together stay
  below the limit plus the number of requests.
  `RegistrationTypes` and `RegistrationIsConsistent` follow.
- Users.  `UsersInv`: guesses at a password are bounded together with those in
  flight, and each is counted or about to be (`GuessesCounted`); a session that
  lives is younger than the last closing of its user's sessions
  (`LiveSessionsAreNew`); a restored user has not been deleted again
  (`RestoredUsersAreThere`).  `UsersTypes` follows.
- Keys.  `KeysInv`: what a handler will write is a status (`WritesFit`), no
  revoked key is in the hand of an update without being remembered
  (`RevocationsFit`), and a creation that nothing crossed has counted fewer keys
  than the limit (`CreationsFit`).  `ApiKeysTypes` follows.
- `AccessIsSafe` combines users and keys.

### `Pools_proofs`

- `CapacityBegins`, `CapacityContinues`: the limits hold because whoever has
  counted and not yet written still has room (`RoomIsLeft`).  That is stable
  because only the holder of the advisory lock brings a row into what is counted
  (`LockHeld`); every other step can only take rows out (`Fades`).
  `CapacityTypes` and `LimitsHold` follow.
- `AccountsBegin`, `AccountsContinue`: a lease and the request that has it know of
  each other (`LeasesMatch`), a request has an account exactly between its
  acquisition and the end of the attempt (`WorkHasAccount`), and an
  administrator's work names an account (`AdminFits`).  So while a request runs
  nobody but an administrator writes its account's figures, which is why the
  reserve it has checked is still there.  `AccountTypes` and `AccountPoolHolds`
  follow.
- Provider pool.  `PInv`: the promises about rows (`RowsConsistent`); what a call
  in progress has read bounds what it will write, so that a streak read before
  others have reported is still no longer than the failures (`CallFits`); and no
  member is inserted twice or selected before it is there (`CallsApart`).  `PoolTypes` and `PoolIsConsistent` follow.

### `Stores_proofs`

- Migrations.  `MInv`: the applied versions are always the first so many, each
  applied in its turn (`InOrder`), and who looks or applies holds the lock, unless
  a connection was lost, and has everything before (`WorkIsOrdered`).  `MigrationTypes` and `OnceHolds`.
- Risk control.  `RInv`: an undisturbed check has collected exactly the mode that
  the scopes it has read give (`ModeUpTo`), and its verdict is what the answers
  heard so far demand (`CheckFits`).  `RiskControlTypes` and
  `QuietChecksAreRight`.
- History.  `HInv`: a save finds the files of what it shows (`SavesFindTheirs`),
  a clean-up removes what nobody shows (`RemovalsAreOfNobodys`), and where the two
  crossed the picture is among the exceptions (`CrossingsAreSeen`).
  `HistoryTypes`.
- Conversations.  `ConvInv`: nobody knows a picture that has not been written
  (`UnwrittenAreUnknown`), one being recorded has its file or is an exception
  (`RecordingsHaveFiles`), and a file about to be removed is an exception or
  belongs to a generation that is over and whose row is gone (`CleanerFits`).  `ConversationsTypes`; `PicturesAreKept` combines both.
- Configuration.  `ConfInv`: what a save that is neither cut short nor crossed has
  in storage and memory before, while and after it changes them
  (`BeforeTheChange`, `WrittenFits`, `AfterTheChange`).  `ConfTypes`, `ConfHolds`.
  `CutShortFits` is what is left when it is cut short: an account that is still to
  be deleted from one backend is in the other, or nobody knows it, and every picture
  is in some directory; `CutShortHolds`.
- Synchronisation.  `SyncInv`: every task follows from the two lists that were read
  (`TaskFits`), and each account is equal on both sides or still has its task
  (`PushFits`, `PullFits`).  `SyncTypes`, `SyncHolds`; `CopiesArriveWhole`
  combines both.
- Submissions.  `CatInv`: while changes of the catalogue do not cross, the table
  is empty or has one default, or the one change under way is about to set it
  (`CalmCatalogue`, `EditFits`).
  `SubInv` adds what a submission in progress carries (`RequestFits`), where the
  tags of a row and the prices of a run come from (`TagsFit`, `PricesFit`), and
  that undisturbed row and generation agree (`ViewsAgree`).  `SubmissionTypes`,
  `SubmissionsHold`.

### `Delivery_proofs`

- Sequences.  What a reader flattens, takes the maximum of or appends is said in
  lemmas of their own (`FlattenFunction`, `FlattenAppend`, `MaxIsLast`,
  `EmitNothing`).  Where a fact needs induction over a number, the proof takes a
  minimal counterexample (`Least`, from `WFMin` of the library), because the
  induction theorems take an operator, which the provers cannot instantiate.
- Provider calls.  `CallInv`: until the answer is judged nothing that arrived is
  lost (`HoldsArrived`), what is paid fits the pictures at every step
  (`MoneyInv`), and the requests to each source are counted by attempts and
  pictures, with one report for a member that was left or delivered
  (`MemberInv`).
  `CallTypes`, `CallsSettle`.
- Web client.  `WebInv`: every message a call has heard is a finished answer of its
  own turn, and its pictures come from such messages in the order they were
  drawn (`WebFits`).  Messages change no more once they are finished
  (`MessagesGrow`); of a poll, a minimal counterexample among the messages it
  visits shows that they belong to the posted one.
  `WebTypes`, `AnswersStayOurs`.
- Codex client.  `CodexInv`: the pictures the account's client holds are the final
  ones of those drawn so far, each once, so that the completed event, which
  repeats them all, changes nothing (`CodexBefore`, `CodexReads`, `CodexEnds`).
  `CodexTypes`, `CodexStaysTrue`.
- `UpstreamsHold` combines the three.
- Queue.  `QueueInv`: the types, with the fact that a worker that claims has a row
  left in its batch.  `QueueTypes`.  `WholeInv` adds `QueueIsWhole`, which is
  inductive with it; what is left is about sequences (`AppendSet`, `TailSet`) and
  that the rows with fewer than `b` before them are at most `b` (`FirstFew`), so
  that a drain lists no more than a batch.  `QueueStaysWhole`.

### Assumptions, and what stays with TLC

The theorems rest on the named assumptions of the modules (`ImageJobAssumption`,
`LedgerAssumption`, `StoreAssumption`, `GateAssumption`,
`SubscriptionAssumption`, `PaymentFlowAssumption`, `JobCapacityAssumption`,
`JobQueueAssumption`, `MigrationsAssumption`, `AccountPoolAssumption`,
`ProviderPoolAssumption`, `EntryInputsAssumption`, `RegistrationAssumption`,
`UsersAssumption`, `ApiKeysAssumption`, `ConversationsAssumption`,
`ImageHistoryAssumption`, `RiskControlAssumption`, `RuntimeConfigAssumption`,
`AccountSyncAssumption`, `ModelCatalogueAssumption`, `JobSubmissionAssumption`,
`ProviderCallAssumption`, `WebConversationAssumption`, `CodexImagesAssumption`),
which TLC evaluates in every run that uses the module.  They say that bounds and
sizes are numbers, that names for "nobody" are nobody's, and which sets are not
empty or finite where something is counted.  Otherwise the theorems hold for any
number of instances, requests, users, transactions, gates, orders, jobs,
accounts, pictures and models.

Every safety invariant of a passing run, and every action property and
refinement, is stated by a theorem, with one exception: `TypesOK` of `MCStores`
is a conjunction over parts that share no state; its conjuncts are proved one by
one (`...Types`), the conjunction itself only serves the run.  Promises of
several parts that the run checks as one are one formula for the proofs too, in
`Access`, `Pictures`, `Copies` and `Upstreams`.

Only model-checked: the liveness properties `JobSettles`, `EveryJobIsClaimed`,
`EveryCallerReturns` and `EveryTransactionEnds`, because fairness and ENABLED are
out of the prover's reach, and the five violations.

## Not modelled

- Notifications and tracker, `internal/businessnotifications`,
  `internal/businesstracker`: records that are appended and marks that are set by
  single statements; nothing else reads them.
- Token pool, `internal/token`: a round robin that only an administrative
  endpoint still reads.
- Updater, version check, diagnostics and maintenance: Docker, files and reports.
- Router, middleware and `main`: wiring.
- The web frontend: a client, whose requests are the submissions and cancel
  requests of the models.
- Of modelled parts: the synchronous wait of the external interface, avatars,
  profiles, Turnstile and lists, the storage report, the catalogue of packages
  and amounts of money, the deletion of a user's credits, headers, proof of work
  and proxies of the upstream clients, request bodies, logging.

## What is left

1. `ImageJob` composed with `JobQueue` and `JobCapacity` through the row instead
   of the reduced executions both have now, and the batch limit of the
   reconciler, which needs more than 500 rows.
2. Wallets of users who are deleted while a job still refunds, and reloads of the
   account pool's storage, which forget leases.
