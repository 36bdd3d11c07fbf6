# Ignition Pay: TLA+ specifications and proofs

Formal models of the parts of this repository where something moves through
several steps, several actors and several failures: payments and their status,
drafts and queues of clients, contracts, sessions, keys, callbacks, notifications,
caches. The modules are written from the source; `PROJECT.json` maps every
definition to the lines it stands for.

## 1. The system

Ignition Pay is a payment and crowd-funding platform on the Stellar network.
Paths are relative to `src/`.

| Component | Where | State it keeps | Operations | Module |
|---|---|---|---|---|
| Transaction submission | `ignition-api/src/transactions` | a Redis record per Idempotency-Key; `transactions`, unique in `stellar_tx_hash` | `POST /transactions` | `SubmitTransaction` |
| Payments and their status | `ignition-api/src/payments`, `queue/processors/payment.processor.ts`, `horizon-polling.*`, `transactions/stale-transaction-monitor.service.ts` | `transactions.status`, Bull jobs | initiate, worker, dead letter, sweep, scan, Horizon check | `PaymentPipeline` |
| Offline drafts | `ignition-mobile/lib/features/send` | table `transaction_drafts`, a flag | save, flush, cancel, expire | `DraftSync` |
| Escrow and payout contracts | `contracts/ignition_pay_contract/src/lib.rs` | instance storage, token balances | deposit, lock, freeze, release, reclaim, refund, HTLC, quotes | `Escrow` |
| Multisig, governance, delegation | same file | payments and approvals; proposals, snapshots, votes; delegates | propose, approve, vote, execute, delegate | `MultiSig`, `Governance`, `Delegation` |
| Oracles, administration | same file | prices, providers, limits; authorized users, pending upgrade | push, median, feed; authorize, revoke, upgrade | `Oracles`, `Administration` |
| Sessions and tokens | `ignition-api/src/session`, `auth` | cache entries: session, user index, refresh record, challenge, blacklist | challenge, login, touch, rotate, logout, revoke | `Sessions` |
| Password accounts | `ignition-api/src/users` | attempts, lock, hash, history of a user | login, unlock, setup, change | `Accounts` |
| API keys | `ignition-api/src/api-keys` | rows of `api_keys` | create, rotate, finalize, cancel, revoke, use, sweep | `ApiKeys` |
| SEP-24 | `ignition-api/src/sep24` | a row per interactive transaction | initiate, resume, poll, callback | `Sep24` |
| Campaigns, event ingestion | `ignition-api/src/campaigns`, `notifications/stellar-sse-consumer.service.ts` | amount, status, milestones; the stream's cursor | receive and count payments, complete milestones | `Campaigns` |
| Notifications | `ignition-api/src/notifications` | rows, deduplication keys in Redis | create, createMany, clear | `Notifications` |
| Settings, dashboards | `ignition-api/src/settings`, `users` | one copy in memory, one in Redis | read through, update, invalidate | `Caches` |
| Rate limit | `ignition-api/src/throttler` | a counter and a block per client | increment | `Throttle` |
| Web payment queue | `ignition-pay-frontend/lib`, `features/send` | IndexedDB store of payments | confirm, pass, retry | `WebQueue` |
| Address libraries | `packages/core-ts`, `core-go`, `core-dart` | none | `extractRouting` | `Routing` |
| Wallets, reconciliation, SEP-38, addresses, analytics, disputes | `ignition-api/src/*` | rows | CRUD, or not wired in | - |
| Pages, SDK clients, mobile UI, older root modules | `ignition-pay-frontend`, `packages`, `ignition-mobile`, `src` | view state | - | - |

Components interact through rows of `transactions`, whose status has five
independent writers; through jobs and records in Redis; through the ledger, whose
time the contracts read and whose payments the API follows; and through HTTP
requests that clients retry. The drafts and the web queue end in the API that
`SubmitTransaction` and `PaymentPipeline` model; API guards (`Sessions`, `ApiKeys`,
`Throttle`) stand before all of it. What is hard about them:

* **Idempotency.** Requests with one key overlap at every `await`; processes die
  between two of them; a round trip fails after it took effect; the record
  expires. Correct: one insert and one answer per key, no key claimed for ever
  by nobody, everybody answered.
* **Status.** The worker, its dead-letter handler, the sweep and the Horizon
  check write one column, two of them from stale reads. Correct: agreement with
  the ledger, final statuses that stay, no row left open for ever, rolling
  limits that hold.
* **Clients.** Flushes of drafts and passes over the web queue start at any
  time and are cut short; their posts carry no key. Correct: nothing is sent
  twice or lost, cancelled drafts are not sent.
* **Contracts.** Any order of legal calls by any caller. Correct: the tokens
  held are the tokens owed, each deposit leaves once by a permitted path, votes
  and approvals count once, a minority of prices moves nothing.
* **Read-modify-write without a lock**: sessions in a cache, login attempts,
  password history, milestones, callbacks. Correct: what is revoked stays
  revoked, what is counted is counted once, or the interleaving that breaks it
  is known.
* **Windows in Redis**: deduplication keys, the stream's cursor, rate-limit
  counters and cached copies expire while somebody is about to use them.

`lib.rs` defines `HTLCContract`, `RefundContract`, `CampaignDonation` and
`MultiSig` twice and does not compile as it stands; where the two versions differ
both are modelled, as contracts of their own.

`PROJECT.json` lists the hazards one by one with their lines, and for each the
properties that cover it.

## 2. Modules

| Module | Models | Composes |
|---|---|---|
| `IdempotentExecution` | the promise of an Idempotency-Key, without Redis | - |
| `SubmitTransaction` | `IdempotencyService`, `submitTransaction`, `persistTransaction` | refines `IdempotentExecution` |
| `PaymentPipeline` | everything that writes `transactions.status` | payments, worker, sweep, Horizon |
| `DraftSync` | `DraftSyncService`, `DraftStore`, connectivity, the user, the server | - |
| `Ledger` | time and token balances of one ledger | extended by the contracts |
| `Escrow`, `MultiSig`, `Governance`, `Delegation`, `Oracles`, `Administration` | the contracts | extend `Ledger` |
| `Contracts` | every contract on its own ledger, and the network around it | the six above |
| `Sessions`, `Accounts`, `ApiKeys`, `Sep24`, `Campaigns`, `Notifications`, `Caches`, `Throttle`, `WebQueue`, `Routing` | one service each | - |
| `Services` | every service on its own | the ten above |
| `SubmitTransactionProofs`, `PaymentPipelineProofs`, `DraftSyncProofs` | theorems about the module of that name | extend it; the second also `Sums` |
| `ContractsProofs` | theorems about the contracts that compare two states of an entry, a vote, a list or a price | extends `Contracts` |
| `Sums` | lemmas about sums over finite sets | - |
| `TotalsProofs` | theorems about the contracts that compare sums: tokens, tallies, powers | extends `ContractsProofs`, `Sums` |
| `IdentityProofs` | theorems about `Sessions`, `Accounts`, `ApiKeys` | extends them |
| `ServicesProofs` | theorems about the other services, and about all of them side by side | extends `Services`, `IdentityProofs` |
| `MC*` | values and symmetry for TLC | extend the modules above |

In all of them everything between two awaits is one action, as the code runs on
one event loop per process and other requests, processes or callbacks can come
in only at an await. A contract call is one action, because a call that panics is
undone as a whole.

`Contracts` and `Services` put components that share no state side by side: a
behaviour is about one of them, chosen in the initial state (`contract`,
`service`), so that none multiplies the states of another. Components that do
share state are in one module: `PaymentPipeline` (five writers of one column),
`Sessions` (login, guard, logout and rotation over one cache), `Campaigns` (the
stream and the creator), `Oracles` (the median contract and the feed that is one
of its oracles), and `Governance` with the token it counts.

Some variables are marked *history*: they record what has happened so that a
property can refer to it and no guard of an action depends on them.

Operators whose comment says "Mutant" are plausible bugs. They are not part of
any specification; each is put in the place of the definition below it to
confirm that the property it is paired with in `PROJECT.json` notices.

### 2.1 SubmitTransaction

A request walks through control points named after what it does next: `claim`
(SET NX), `read`, `wait` (the poll loop), `check` (validation and the pre-check
on the hash), `create` (INSERT), `refetch` (after P2002), `complete`,
`release`, `done`.

| Code | Model |
|---|---|
| Redis record of a key | `store[k]`: absent, in flight, or complete with the row of the response |
| rows of `transactions` | `rows`; a row is named after the request that inserted it |
| `attempt`, `sawInFlight` | `attempt`, `saw` |
| HTTP response | `answer` (201, 200 existing, replay, 409, 503, error) and `result` |
| TTL expiry | `Expire`, counted in `ttl`; `epoch` remembers the window a request belongs to |

Validation is a choice (`Reject`), since the properties do not depend on which
check fails. The poll interval and the wait budget become a `WaitTimeout` that
may fire at any time. Failed round trips (`ClaimFault` ... `ReleaseFault`) may
or may not have taken effect; `Failing` says whether it is Redis, the database or
both that can fail. A record does not expire while a live request
holds it: that would need a request of 24 hours.

### 2.2 PaymentPipeline

Payments are rows without a hash made by `initiatePayment`; Submitted rows carry
a hash and come from `submitTransaction`. `job` is the Bull job of a payment,
`deadLetters` counts the updates that `onJobFailed` has started and that have
not reached the database: it is not awaited, and Bull emits `failed` after every
failed attempt, so they overlap with the retry. `swept` is what
`failStalePending` has read and will write by id; `listed` what a scan of the
scheduler has read; `check` the job `horizon-check-<id>`.

* All rows leave one wallet and fall in one window of its limits; the daily and
  the monthly check are the same comparison, so one `Limit` stands for both.
* Submission to Stellar is a placeholder in the code: only the two database
  updates of the worker can fail.
* A stalled job is one whose worker died. A worker that is merely slow and runs
  together with its replacement is not modelled.
* `requeueStaleProcessing` adds a Horizon check without a hash for stale
  PROCESSING rows; only payments are ever PROCESSING, they have no hash, and the
  check returns at once, so it is no action.

### 2.3 DraftSync

Flows are overlapping invocations of `submitPending`. `queue[f]` is the list a
flow has read and not yet worked off, `current[f]` its draft, `busy` the flag
`_submitting`, `event` a call caused by a reconnection or by start-up. The
server is a counter of accepted posts per draft. Cancelling and expiring are two
steps each, as the code reads and then updates.

`app` is where the start has come to. `main` shows the pages (`opening`) before
the deferred phases create the service and await `start`, which cancels expired
drafts one by one (`expiring`) and only then listens to connectivity (`up`). The
pages save and cancel drafts in all of these phases, and send from `expiring` on,
when the service exists: a flush and the expiry may work on one draft. A start
that throws is logged and swallowed, and nothing listens in that session
(`silent`). `KillApp` leaves only the database. As wired in `app_bootstrap.dart` the posted body has no wallet ids, so
today's API would refuse it; the model leaves open whether a post is accepted
and checks what the app does in either case.

### 2.4 Contracts

`Ledger` has the variable `contract` (which one is deployed), `now` and
`balance`; `Transfer` panics when the balance is too small, `Send` is a transfer
that does not call the contract. Time is in ledgers; a contract that does not
read it is not given any.

| Module | State | Calls |
|---|---|---|
| `Escrow` | `entry[i]` under each id: state, depositor, payee, amount, expiry, basis points released | the public functions of the ten contracts that take tokens or quotes under an id, one action each |
| `MultiSig` | `payment`, `votes`, `signers` | `ProposePayment`, `Approve` (counts, and executes at the threshold), `ExecutePayment`, `AddSigner`, for both versions |
| `Governance` | `proposals`, `vp_snapshot`, `has_voted` | `CreateProposal`, `SnapshotVotingPower`, `CastVote`, `ExecuteProposal`, and transfers of the token |
| `Delegation` | `power`, `delegates` | `SetVotingPower`, `Delegate` with its bounded walk, `ClearDelegation` |
| `Oracles` | `oracles` (how often each is listed), `observations`, the feed's providers, last price and limits | list, push, staleness, deviation; `Median` is `get_median_price` |
| `Administration` | `authorizations`, `kyc_status`, `rate_limit`; `pending_upgrade`, `pending_version`, `version` | KYC, authorize, revoke, both upgrade requests, apply, transfer of the admin |

An action stands for the call by the address that `require_auth` asks for; calls
by others fail and change nothing. The set-up calls are part of the initial
state. The hash of an HTLC is abstract: a withdrawal knows the right preimage.

### 2.5 Services

| Module | State and where it is in the code | Steps |
|---|---|---|
| `Sessions` | `challenge`, `session`, `index`, `refresh`, `blacklist`: the cache keys of `auth` and `session`; `pc`, `on`, `copy`, `listed`, `nonce`: what each request and the touch it leaves running are about | every cache call is one step; `Guard` is `SessionGuard`, which starts a touch and does not wait for it |
| `Accounts` | `loginAttempts`, `lockedUntil`, `passwordHash`, `passwordHistory` of a user row | reads before bcrypt, the writes after it |
| `ApiKeys` | `row`: the columns of each key; `doing`: the statement a request is at | create, the three statements of a rotation, finalize, the two of cancel, revoke, both ways the guard accepts a key, the sweep |
| `Sep24` | `sepStatus`, `lastCallbackAt`, `completedAt`; `anchor`, `callbacks` outside; `call[p]`: what a call has read | a call reads the record, asks the anchor or makes an answer up, and writes; a callback without a known status (`ApplyNote`) leaves only its time |
| `Campaigns` | `raisedAmount`, `campaignStatus`, `milestone`; `cursor`; `horizon`, `position` of the stream | receive, find, count, store the cursor; read milestones, mark, complete |
| `Notifications` | `key` in Redis, `rowAt` in the database | claim, refusal, bump, insert, record, release; a command without a reply may have taken effect |
| `Caches` | `cached` with its age; `current` in the database; `filling`, `updating`: what readers and writers carry | miss, query, store; write, replace or invalidate |
| `Throttle` | `totalHits`, `hitsUntil`, `blockUntil` in Redis | look for a block, count, set the expiry, block |
| `WebQueue` | `stored` in IndexedDB; `pass[f]`: the copies a pass has read | confirm, post, remove, write back, two steps of Retry, reload |
| `Routing` | none: a function of address, memo and source | `TSExtract`, `GoExtract`, `DartExtract`, one definition for each library |

* Signatures, bcrypt, JWT claims, base32 and checksums are one flag each, or
  always right. The time a cached key lives is counted by one variable per module.
* `Routing` is not a protocol. Its reference definition `Policy` says what a
  payment asks for, and all combinations of a small set of features of addresses
  and memos are compared.
* In `Caches` the database is a number that counts its changes. The job that
  warms dashboards is left out because it carries no user and fails at once.
* In `Throttle` the pipeline of INCR and PTTL is one step. It resolves even when
  its commands fail, and then the request passes (`CountFails`, `CountLost`).

## 3. What the runs check

| Run | Instance | Shows |
|---|---|---|
| `submit_safety` | 3 requests, 2 keys, 1 hash, 1 crash, 1 failed round trip, 1 expiry | safety of submission |
| `submit_refines` | 3 requests, 1 key, 1 hash, 2 crashes, 1 expiry, no failed round trip | refinement of `IdempotentExecution`; every live request is answered |
| `submit_fault` | 2 requests, no hash, 1 failed round trip to Redis | **violation** of `CannotBothInsert` |
| `payment_limits` | 2 payments (2 and 3, limit 4), 3 failures | limits, no stuck PROCESSING |
| `payment_rows` | 1 payment, 1 submitted row, 2 failures | status agreement, stability, liveness |
| `draft_sync` | 2 drafts, 2 flows, 1 lost connection, 2 failures, 1 kill | safety of drafts |
| `draft_live` | 1 draft, 2 flows, 2 lost connections, 2 failures, 1 kill | every draft settles |
| `draft_retry` | 1 draft, 2 flows, 1 lost connection | **violation** of `FailedDraftIsRetried` |
| `contracts` | every contract: 2 accounts, 3 voters, 2 ids, amounts 1 and 3, parts 1/3, 2/3 and all, 3 ledgers; 1 payment and threshold 2; 1 proposal; walks of 3; 3 prices of 2 oracles and a feed; 2 uploads | solvency, proportion, thresholds, tallies, powers, expiry, administration, prices; deposits are not locked for ever |
| `services` | every service: 2 to 4 overlapping requests, windows of one or two units of time | the promises of section 4 |
| `api_key_revoked` | 2 keys of 1 owner | **violation** of `RevokedKeyIsRefused` |
| `campaign_redelivered` | 2 payments, a campaign they do not complete | **violation** of `DeliveryCountedOnce` |

### Why the bounds are enough

* Three requests are a holder, a waiter and a third that claims what the holder
  released or what expired. Two keys and "no key" give unrelated requests, one
  hash and "no hash" give every collision on the unique index. The proofs of
  section 5 remove the bounds for safety. Two claim attempts are the constant of
  the code.
* Two payments are enough to overlap, three failures to exhaust the attempts of
  one job (two in the instances, three in the code) and lose its dead-letter
  update. One submitted row is enough because rows interact only through `swept`
  and `listed`, which are sets updated per row.
* In `draft_sync` one draft is being sent while another waits in the list; two
  flows are one that runs and one that is turned away. Requests, keys, drafts
  and flows are interchangeable, so these safety runs use symmetry; the liveness
  runs do not.
* Contracts: entries interact only through the balance, so two ids are one that
  could be paid with the tokens of the other; amounts 1 and 3 with a third and
  two thirds in basis points round both ways. Three voters form every cycle that
  a walk of three must find. One dishonest oracle of three sources is a minority
  that can still push in every ledger. `MaxPrice` 4 and deviations of 40 and 100
  per cent reach both refusals of the feed.
* Services: two requests give every overlap of two read-modify-write sequences;
  where a third party matters (a login behind a logout, a third event after a
  released key, a successor of a successor key) there are three, four for
  passwords. Time reaches the end of every window, and in `Sessions` and
  `Throttle` runs past it; in `Notifications` it stops there, so that rows too old
  for the look-up in the database occur in the proof only. The sets of requests are
  interchangeable and one symmetric set of names serves several modules
  (`MCServices`).

`CHECK_DEADLOCK FALSE` stands in the runs whose finite sets of requests, rows or
instants may all be used up. In the draft runs deadlock is checked: a closed app
can be started again.

### Fairness

* `SubmitTransaction`: weak fairness of the steps of each request. A Node
  process runs its promises to the end; a process that may die is covered by
  `Crash`, which no fairness opposes. Nothing is assumed of `Submit`, `Expire`
  or faults. The poll loop needs no fairness of its own: its deadline is time.
* `PaymentPipeline`: calls run on, Bull works its queues off, cron and the
  interval timer fire, time passes. The ledger, new requests and failures are
  not fair. `EveryRowFinalised` therefore includes the transaction that never
  reaches the ledger.
* `DraftSync`: the app runs what it has begun and the device comes back online
  (`FairSpec`); for `EveryDraftSettles` the user also closes the app from time to
  time and days pass (`RestartSpec`), because expired drafts are cancelled only
  at start-up. Weak fairness is enough for closing: it is the last thing that
  stays enabled.
* `Contracts`: ledgers go on closing, and a depositor who may take expired tokens
  back asks for them. Nothing else is fair: nobody has to release.
* The services are checked for safety only. What they do not promise is that a
  started request ends: processes stop, and nothing resumes them.

## 4. Properties and what they revealed

`OneInsertPerKey`, `SameKeySameAnswer`, `NoPoisonedKey` and `ReplayIsStable`
carry the premise `faults = 0`. It is needed: `complete()` stands in the same
`try` block as the INSERT, so a failed SET releases a key whose work was done, and
the next request inserts again (finding 1, `submit_fault`). An INSERT that
took effect and whose answer is lost would end the same way; the run lets only
Redis fail, so that its counterexample is the failed SET. `SameHashSameRow` holds under every failure,
because the unique index and not Redis carries it.

`LimitHolds` names every way past `validateTransactionLimits`: an overlapping
call, a row in PROCESSING, which the aggregate does not count, and a row revived
from FAILED by a retry. `NoStuckProcessing` names the one way to stay in
PROCESSING. `FinalStatusStable` allows the one overwrite the code permits: the
sweep updates by id what it read as PENDING. The client's idempotency key
is in no property: `create-payment.dto.ts:37-39` promises that a second initiation
with the same key is rejected, but `initiatePayment` stores the key and nothing
reads it, so two calls with one key are simply two payments.

`CancelledStays` allows the revival by a flush that had read the draft before it
was cancelled. `NoNeedlessResend` counts a second send as excused only when the
app could not record the first. `FailedDraftIsRetried` fails (finding 2): a
reconnection during a flush is dropped.

### Contracts

* `Solvent`: what is owed on all open entries together is there, in the contracts
  whose entries are paid in when they are opened. The first Escrow and the second
  Refund contract promise before they are paid and are not in the set.
* `ReleasedInProportion`: releases in steps never pay more than the percentage
  released; `ExpiredGoesBack` and `NothingLockedForever` settle the instant of
  expiry, which `release` and `reclaim` (or `withdraw` and `refund`) both test.
  The first HTLC's `withdraw` has no time limit, so it is in the second property
  only: after the expiry both sides may take the tokens.
* `ApprovalsDecide`: executed exactly at the threshold. `TallyIsBacked`: no more
  votes than tokens, unless a token moved during the voting period: snapshots are
  taken one by one with the balance of that moment, so a token that moves can be
  registered again. The quorum is stored and read by nothing.
* `PowerCountedOnce` needs walks as long as there are voters (100 in the code).
* `AdministrationHolds`: `authorize` pushes a user who is on the list already and
  `revoke` removes one entry. `upgrade` leaves the version of an earlier
  `upgrade_with_version` pending, so that `apply_upgrade` publishes a version
  nobody gave for that code, although `lib.rs:178-180` says it is left untouched.
* `PricesHold`: the median is fair while more than half of the fresh *prices* are.
  Prices are not oracles: an oracle has one per ledger in which it pushed, those
  of a removed oracle count until they are stale, and the feed's last price is
  shared by all the oracle contracts it pushes to. A price of 1 can never rise
  unless the deviation is 100 per cent.

### Services

* `LogoutHolds` names the touch that revives a session: `SessionGuard` starts one
  for every request, the logout itself included, and does not await it.
  `IndexCoversSessions`: `this.sessionTtlMs` is set nowhere, so the index of a
  user's sessions lives for the cache's default minute and "sign out everywhere"
  misses sessions older than that, even the one it comes with. `OneLoginPerChallenge` counts a login once
  its challenge is consumed, and holds up to a read before the other's delete.
* `LockoutCounts` and `PasswordNotReused` hold for requests that do not overlap;
  parallel guesses count once, and one of them can lift a lock.
* `RotationKeepsAKey`: something works in every state of a rotation; `dropped`
  names the exceptions (a cancel that stops half way, or at the end of the grace
  period). `RevokedKeyIsRefused` fails (finding 3): the guard asks an old key for
  its grace period and not whether it is active.
* `StatusFollowsAnchor`: an undisturbed record follows the callbacks.
  `simulateStatusUpdate` is not confined to development, so an anchor out of reach
  for three minutes "completes" a transaction until a callback corrects it.
* `PaymentsCounted`: `setCursor` means to keep the cursor for ever
  (`stellar-sse-consumer.service.ts:517`) and gets the default minute
  (`redis.module.ts:18`), so that a stream that starts later starts from now and
  passes over what arrived in between. `expired` says that this has happened;
  until then a stream starts behind a payment only before the first cursor. A
  handler that fails is taken for a record that does not parse, and the next
  payment moves the cursor past it (`excused`). The claim before dispatch never
  refuses anything, so that a payment delivered again is counted again
  (`DeliveryCountedOnce`, finding 4). `CampaignCompletes`: two requests that complete the last two milestones at once complete neither the
  other nor the campaign.
* `OneNotificationPerWindow` excuses outages of Redis, cleared keys, and a failed
  event that releases the key of a later one. An outage is excused although the
  store says that the database then prevents duplicates
  (`notification-dedup.store.ts:121-122`): `createMany` does not ask it.
* `CachesAreRecent`: what is served was true less than a TTL ago and is as new as
  every answered change, except for a fill that had read the database before that
  change and ends after it. Such a fill keeps the settings old for a TTL from its
  own start, the dashboard for a TTL from its end (`late`). Status changes made by
  workers never invalidate a dashboard, and it is never warmed, since no caller
  enqueues users and the scheduled job carries none.
* `ThrottleHolds`: a counter lets through at most `Limit` of the requests it
  counted. INCR and PEXPIRE are two calls: a counter without an expiry is repaired
  by the next request. A request whose count was not heard passes.
* `QueuedSentOnce`: nothing keeps two passes of the web queue apart, a removal that
  fails counts as a failed post, and write-backs restore removed entries; those
  ways to post twice are in `unsure`.
* `LibrariesAgree` names the differences between the three libraries that
  `detect.dart:116-121` says give identical results.

## 5. Proofs

Every safety invariant and every action property that a run confirms is also a
theorem, for arbitrary constants that satisfy the assumptions of their modules,
without bounds on requests, rows, drafts, entries, voters, crashes or failures
beyond being finite numbers. The assumptions give the constants their types,
keep addresses apart, and make the sets over which something is added up finite
(accounts, ids, voters, the payments of a wallet). Two of them limit anything:
deviations are at most 10000 basis points, as the code enforces, and the days of
API keys begin with 1, since 0 stands for "never".

An argument that an invariant holds is always laid out the same way: the
invariant as a conjunction of named parts, each with a comment; one lemma for
the initial state, one per action or per part, one that combines them; the
theorem, which adds the temporal step.

### Submission, payments, drafts

`SubmitTransactionProofs`: `OneInsertPerKey` alone is not inductive. The
argument follows the *owner* of a record, the request that claimed it in the
present window and has not completed or released, dead or alive:

1. `Ownership`: a live holder is an owner (nothing expires under it), an owner's
   record is present, and two owners of one key are equal. SET NX gives the last
   one: a claim succeeds only when the record is absent, and then nobody owns it.
2. `Recorded`, as long as no round trip fails: an owner's record is in flight; a
   row inserted in the present window is either held by its owner on the way to
   `complete` or is the stored response; every successful answer of the window
   is the stored response. `OneInsertPerKey` and `SameKeySameAnswer` follow, and
   are kept in the invariant for the windows that have ended.
3. `HashInv`: rows with one hash are equal, and results of executed requests are
   rows that carry the hash of the request.

The steps are proved action by action (`TypeStep`, `OwnershipStep`,
`RecordedStep`, `HashStep`, `PoisonStep`); `Invariance` combines them, and the
named theorems follow.

`ImplementsPromise` is the refinement of `IdempotentExecution`. The mapping takes
as the work performed under a key its *inserter*, the row inserted in the key's
present window; as the outcome the stored response; and as the reply the row of a
successful answer. Beside the invariant above it needs that stored responses are
rows (`ResponsesAreRows`). Each step is one of the promise or a stutter
(`StepRefines`): a request that comes in is `Arrive`; reading a finished record is
`Replay` (`ClaimRefines`); the INSERT is `Perform` (`CreateRefines`; by `Recorded`
nobody has inserted in this window), or `ReplyUnkeyed` for a request without a
key, like finding the row of its hash (`PersistRefines`); storing the response is
`Publish` (`StoreRefines`); the TTL is `Forget`. The steps of a request whose row
is not inserted leave the inserters alone (`OutsiderKeepsInserters`). The premise
`[](faults = 0)` is the one that finding 1 shows to be necessary.

`PaymentPipelineProofs`: `NoStuckProcessing` needs to know that a job which can
still fail has an attempt left (`AttemptsLeft`): a failed attempt either leads
to a retry or makes the job fail for good, and only then `onJobFailed` starts a
dead-letter update. It also needs that a job past its second update does not
find its row in PROCESSING (`DoneNotProcessing`). `LedgerAgreement` needs two
facts about what the two background jobs have read: a row found on the ledger
has been decided there (`FoundIsDecided`, `ChecksLeft` for its counter), and a
row the sweep has read is old (`SweptIsOld`). `FinalStatusStable` is proved step
by step from `Typed` alone, since every update of a submitted row but the
sweep's second statement is conditional on SUBMITTED (`PaymentsLeaveSubmitted`
disposes of the payment actions). `LimitHolds` is strengthened to what is
*reserved*: the payments that count and those whose check has passed and whose
INSERT has not run yet, together, are within the limit (`ReservedWithinLimit`).
A check adds one term to that sum, within the limit, because a check that does
not see another reservation sets `overlooked`; an INSERT keeps the sum, and a
worker that brings a failed row back sets `overlooked` too.

`DraftSyncProofs`: the shape of the flows (`FlowInv`) says that the flag
`_submitting` lets one flush run at a time, that a flush has a list only while
it works it off, and that the draft at hand has left the list and is in
`submitting`, or was cancelled behind the flush's back. For `NoNeedlessResend`
the invariant speaks of all drafts that *may be posted*, now or after some
retry (`MayBePosted`): all their accepted posts are unconfirmed. A draft whose
post was confirmed therefore cannot reach a post again. `CancelledStays` rests
on `TakenNotGone`: no flush has read a draft that was cancelled at that moment.

### Contracts

`ContractsProofs`: `EscrowInv` adds to `ReleasedInProportion` the shape of the
entries and that only the first escrow has releases; `PartsInProportion` is the
arithmetic of rounding (the sum of the parts, rounded down, against the whole).
`ExpiredGoesBack` needs that an open entry with an expiry names its depositor.
`MultiSigInv` says that the counter of a payment is the number of its approvers
(`ApprovalsCounted`), which a set of approvers turns into the threshold
(`OneMoreApproval`). `GovernanceInv` has executed proposals end in the past, so
that no vote can reach them (`DecidedForGood`). `AuthorizationInv` and
`UpgradeInv` say when a user is on the list twice and what a pending version means.

`MinorityMovesNothing` has two parts. The price at an index of a sorted list is
defined by counting; that there is one (`AtIndexExists`) is shown with the least
natural number that is a large enough price. If the median lay below the fair
prices, all fair ones would be above it, and the counts of the two halves would
exceed the whole (`MajorityDecides`). The feed's limit needs that its newest price
here is the one it remembers. `ContractsTypeCorrect` gives the types of all
contracts, which no run repeats.

`Sums` has what is needed about `MapThenSumSet`: the sum of nothing, of a set and
one more element, of two disjoint sets, of a changed function, of fewer or smaller
terms, and of the parts of a partition. The induction rules of the library take an
operator, which the provers cannot instantiate; `SubsetInduction` is the same rule
for a *set* of subsets, shown with the well-foundedness of the natural numbers,
and `Adds` defines the sum as a function on the subsets of one set.

`TotalsProofs` uses them:

* `SolventInv` adds to `Solvent` that the pot of a campaign that was paid out is
  empty (a deposit after that starts from nothing). What is owed is the sum of
  what is due on *each* id, open or not (`OwedIsTotal`); a call that opens, pays or
  closes an entry changes one term by as much as it moves tokens.
* `TallyInv` has four parts: a tally is the sum of the snapshots of those who voted
  (`Counted`), who are registered (`VotersRegistered`); while a proposal is open and
  no token has moved, snapshots are balances (`SnapshotsCurrent`); and the snapshots
  together are within the supply (`SnapshotsBacked`). The last one is where a
  transfer would break it: a snapshot may be taken from a balance that was counted
  elsewhere before.
* `DelegationInv` says that no set of voters delegates only among its members
  (`Acyclic`). `Delegate` keeps it because its walk, if it may be as long as there
  are voters, meets everybody it could meet: a walk that repeats nobody cannot be
  longer than the set of voters, and so ends at a representative. Then every walk
  ends at one (`ReachesItsRoot`), the voters are parted by where theirs ends
  (`Following`), and the sum over the parts is the sum over all.

### Services

`IdentityProofs`, sessions: `SessionsInv` says where a thread may be and what it
carries (`CallShape`), that only sessions written by a login are stored, indexed,
listed or used (`Origins`), and, for each promise, what the threads under way hold:

* `Revoked`: what a touch has read is still stored or in `revivable`; whoever has
  index entries to remove has deleted the sessions first.
* `OneIndexing`: until `lossy`, one thread at most is between reading the index and
  writing it, and the list it has read is the stored one. Without the second half
  `IndexCoversSessions` is not inductive.
* `Challenges`: a login past `consumeChallenge` has its challenge deleted.

Accounts: `OneWriter` and `OneChange` are the same idea for the row of a user: until
`mixed` (`crossed`), one request at most has read and will write, and what it has
read is what is stored.

API keys: `RotationKeepsAKey` needs an order. `Succession` says that the keys have
an *age* in which each is younger than those it succeeds (`InOrder`), that no key
succeeds two (`OnePredecessor`), that a cancellation runs alone, and that after
every deactivated key there is one that no cancellation can take away any more
(`KeptAfter`). The ages and the set of keys revoked by a cancellation are not
variables of the model: they are witnesses of an existential quantifier in the
invariant, chosen anew at every step.

`ServicesProofs`: `Sep24Inv` holds of undisturbed records: one call at a time, so
that what it has read is still stored (`OneCall`); polls only before a callback.
`CachesInv`: a reader on its way has read what the database held after it began,
and is in `overtaken` once a newer change has been seen to (`FillsAreRecent`,
`UpdatesAreKnown`); that carries over to the entry it stores (`EntryIsRecent`).
`ThrottleInv`: counts are distinct and within the counter, the last one counted
is about to set a missing expiry, and an expiry set in time is one period after
the start. `CountInv` describes the stream (`StreamShape`), that no record
before its position is uncounted for no reason the history names (`NoneSkipped`), that those after
it are untouched (`AheadIsFresh`), that a second count has a reason (`NoneTwice`),
that what a stream started behind stays behind (`SkippedBehind`), and that no
count has been followed by its cursor when there is none and none has expired
(`CursorKept`). `CompleteInv` says what a request that has read the milestones
knows of them. `DedupInv` says whose claim the key is and that claims of different
rows are a window apart; `CollapsedOnto` that an event refused by the key has a
row, or a claimant on its way to one, to be collapsed onto.

`WebInv` speaks of each payment: before it is queued it is in no pass
(`Unqueued`); what is removed was accepted (`RemovesAccepted`); and a payment that
is not `unsure` is in the hands of one pass, which finds it stored and pending
(`SureInHand`), so that it is posted once.

`LibrariesAlwaysAgree` has no state to follow: each library is shown to return what
`Policy` asks for, case by case (`TSFollows`, `GoFollows`, `DartFollows`).

`ServicesRunSideBySide` takes a behaviour of `Services` to a behaviour of every
component; from it follow the types of the whole and, at once, all promises
(`ServicesKeepTheirPromises`), which is what the run `services` checks on a small
instance.

### Only model-checked

* Liveness under fairness (`EveryRequestAnswered`, `EveryRowFinalised`,
  `EveryDraftSettles`, `NothingLockedForever`): ENABLED and leads-to from fairness
  are out of the prover's reach.
* The four violations are counterexamples of TLC. The premise `faults = 0` of the
  submission theorems is the one that the first of them shows to be needed.

## 6. Plan

The core (submission, payments, drafts) came first, then the contracts, then the
services; all are in place, and every safety property has its theorem. What is
left:

1. Parts that carry liveness and are invariants themselves, such as bounds on the
   number of steps a request can still take, which would say more than the runs
   about how fast `EveryRequestAnswered` is reached.
2. Composition of the clients with submission: a draft or a queued payment posted
   with a key would be accepted once even when its answer is lost. The code sends
   no key today, so there is nothing to check yet.

## 7. Not modelled

* **Contracts**: access control, pause, allowlist, trustline, metadata, the bridge
  (it credits numbers, no tokens), `PaymentContract` and the router (one call each),
  operators, `IgnitionPayContract.release_milestone` (no state),
  `update_governance_token`, the transfer of the recovery admin.
  `src/wallet.rs` holds tests only.
* **Code that does not run**: `DisputesService` and both contract-event processors
  are registered by no module or never enqueued; `ReadReplicaRouter` and
  `reconciliation.helper.ts` have no callers; the mobile stream page and push
  notifications do not compile; WalletConnect is a stub.
* **No state, or one row**: SEP-38 quotes, SEP-24 webhook signatures, analytics,
  wallets, profile, KYC and roles, deposit addresses (nothing releases them),
  balance and browse caches (read-through with a TTL only), permissions (a static
  map), the processors that only log or write once.
* **Registration**: the token of the confirmation mail is sent to nobody, so that
  nothing follows it; the monitor of address generation only logs, and its
  sustained-breach alert is never reached.
* **Detail**: validation of payloads, formatting, mails, the encoding of stored
  responses (dates in JSON), the case of keys, and the read-only queries.
* **Frontends**: pages and widgets hold view state. The SEP-24 wizard polls, and
  uses a constant it does not import. Most of the repository's lines are of this
  kind, which is why the map covers a modest share of them.
