# Loupe backend: TLA+ models, model checking and proofs

Loupe is a FastAPI service for trading-card collectors. Members sign in, scan
cards (photos are graded and stored by a background job), keep a vault with
prices from third-party providers, pay for a Pro plan through Stripe, and follow
each other in a community. This directory holds TLA+ models of the parts of it
whose correctness depends on the order in which concurrent requests, jobs,
webhooks and timers act, the TLC runs that check them, and TLAPS proofs of their
main invariants for every value of the constants.

The code runs on several instances, each one event loop. Python code between two
`await`s is atomic within an instance; the database, Redis and Stripe are shared.
Sessions are opened with `autoflush=False, expire_on_commit=False`
(`app/db/session.py`): a handler works on the rows as it loaded them, its inserts
and updates reach the database at the commit, an update writes only the columns
whose value differs from the loaded one, and a unique key is checked at the
commit. Postgres runs at READ COMMITTED and nothing in the modelled code locks a
row except where a model says so. Most of what can go wrong follows from these
facts: a value read before an `await` is old when it is written back.

## Inventory

| Component | State | Operations | Interacts through | Hard behaviour | Correct when |
|---|---|---|---|---|---|
| Sessions | `users.token_version`, password hash, ban and delete marks; JWT pairs and reset links held by clients | login, refresh, logout-all, change password, reset, admin revoke, SSO, impersonate | the row; the claims in the tokens | the epoch moves by `SET ver = ver + 1` in two handlers and by "snapshot + 1" in two others | a revoked pair is dead for good; nobody else is signed out; a used link stays closed |
| Login lockout | `failed_login_attempts`, `locked_until` | attempt, failure, lock, success | the row, the clock | attempts are verified for a long time outside any transaction | every failure is counted; only time lifts a lock; every lock ends |
| Scan pipeline | scan job, graded card, fingerprint | create, complete, process (inline or arq), fail, delete | database, blob store, arq retries, sockets | two runs of one job; a job deleted or re-marked under its run; death outside the guard | a complete job has its card and a stored card its complete job; a re-submission makes no second row; jobs end |
| Billing | the member's customer, subscription and plan columns; Stripe's subscriptions | subscribe, checkout, webhook, comp | Stripe's API and events | events duplicated, reordered, handled concurrently, raised on | Pro only for what was paid or given; the plan follows Stripe; a payment arrives |
| Circuit breaker | failure count, opening time, probe lock | guard, record success or failure | all calls to one provider on one instance | calls that end out of order, late, or by their caller's deadline | it trips on a streak; open lets nothing through, half-open one probe; it recovers |
| SWR cache | L1 and refresh lock per instance, shared L2 table | get-or-refresh, background refresh, wait | Redis or its in-process stub, the table, upstream | lock expiry in use, failing refresh, cold waiters | one refresh at a time; never an empty page over a value; never an older value |
| Follow graph | profiles, follow edges, pending requests | claim, go public or private, follow, unfollow, remove, accept, decline, sweep, deactivate | the tables; privacy decides every feed | reads in several statements and one commit; conflicts that undo a whole sweep | a private account is seen by whom its owner let in; asks are not lost; the graph holds claimed handles |
| Second factor | `mfa_enabled`, secret and backup codes of the row | set up, enable, disable, challenge, verify by TOTP or backup code | the row, sign-in | each request writes back the list or the switch from its own copy | a used backup code stays used; an enabled factor has a secret its owner confirmed |
| Price alerts, price history | alerts; the JSON document of a card: history, pricing, image hash | create, evaluate, observe, snapshot, backfill, resolve, index, delete | five kinds of job over one card row | the document is read, changed and written whole; an alert is marked in memory | a recorded point is kept; an owner is told once |
| Entitlements | the member's cards, plan, switch and plan shape | enforce, add, remove, scan, notice | plan column, site configuration, delivery log | four reads at four times, then an insert with nothing locked | overlapping adds pass the cap by a bounded number; one notice |
| Budgets for paid APIs | a month's counter in Redis | ask, call, spend | Redis, the provider | the counter is read before a call and raised after it | answers pass the ceiling by fewer than the calls under way |
| E-mail delivery | a row of the delivery log; the suppression switch | queue, send, retry, mark, webhook, suppress | Resend, which repeats and reorders; the admin | answer lost after the message was taken; two commits of a webhook with a crash between | a bounce ends in suppression; a final status stands |
| Safety and moderation | a post, comment or story; its cases | screen, publish, edit, report, look, decide, remove | all posted content, two moderators | a page of the queue goes stale; edits wait for screening | a doubtful text on show has its case; a removal answers the queue |
| Account lifecycle, notifications and push | verification marks, notification rows | find-or-create, emit, deliver | sessions, everything | two sign-ups at once; failure between store and push | one account per identity; once per event |
| Vault, catalogue, search, identification, AI, market, provider clients, posts and stories, stores, admin, portal, analytics, HTTP layer, jobs | rows and caches | reads, single-row writes, calls out | the parts above | little of their own | data, not control |

`PROJECT.json` lists every part with its files and the reason where it is not
modelled, and under `hazards` the places where the code is hard to test, each
with the properties that cover it.

## Modules

Each component is one module with a type invariant, safety and action properties
and, where the code promises progress, liveness. The `MC*.tla` modules and their
`.cfg` files are small instances for TLC. The theorems of `Sessions`,
`ScanPipeline`, `Billing` and `SwrCache` are in `<Module>Proofs.tla`, which extends
the component; those of the components a run checks side by side are in one module
that extends the composition: `GuardsProofs` (`LoginLockout`, `SecondFactor`,
`CircuitBreaker`, `ApiBudget`), `CommunityProofs` (`FollowGraph`, `Moderation`) and
`VaultProofs` (`CardPrices`, `VaultCap`, `EmailDelivery`). A request, job or webhook is a slot whose record says at which
`await` it stands and what it remembers of its reads; each action is one stretch
of code between two such points, with the whole of its effects.

| Module | Code | State and actions against the code |
|---|---|---|
| `Sessions` | `services/auth/user_service.py`, `password_reset_service.py`, `auth/dependencies.py`, `auth/jwt.py`, `routers/auth/auth.py`, `services/admin/user_admin_service.py` | `account` is the row; `tokens` and `links` what clients hold; `req` a request's snapshot. `…Load` reads, `…Commit` writes only what changed. `chosen`, `revs`, `lost`, `used` are histories |
| `LoginLockout` | `user_service.py`: `authenticate` and its helpers | `fails`, `left` (time left of a lock), `att` (attempts in flight). The failure update is one guarded SQL statement, the success another; `Tick` is the clock; `Abandon` a dropped request |
| `ScanPipeline` | `scan_service.py`, `routers/collection/scans.py`, `tasks/scan_processor.py`, the soft deletion of `graded_card_service.py` | `job` the status column, `run` each execution of the pipeline (a route or a worker), `graded` the rows runs have stored, `recent` those within the five minutes and not removed: what the duplicate check sees. `RemoveCard` sets `deleted_at`: the row leaves `recent` and stays in `graded`. `Raise` and `LoadFails` are caught by the processor's guard, from the first SELECT to the publication after the commit; `Die` is not |
| `Billing` | `services/billing_service.py`, `routers/billing.py`, `set_plan` | `acct` the row, `stripe` and `sent` Stripe's side (external), `task` requests, webhooks and admin calls. `Put` is the only-what-changed write |
| `CircuitPromise`, `CircuitBreaker` | `platform/circuit_breaker.py`, `integrations/_http/_resilient.py` | `CircuitPromise` is what a breaker promises: three modes, who may call. `CircuitBreaker` has the counter, the cooldown clock, the lock and the calls, and implements it under `mode`, `ordinary`, `probing` |
| `SwrCache` | `platform/cache_swr.py`, `cache_l2.py`, the lock of `redis_client.py` | one key; `l1`, `lock` per instance, one `l2`, a `pc` per request and background task. Values are the numbers of the upstream calls that made them |
| `FollowGraph` | `social/services/graph.py`, `profiles.py`, `_common.py` | `profile`, `follows`, `requests` are the tables; `run` the handlers in flight. `Aged` keeps row identity: a row loaded or deleted by key is not the one inserted later under the same pair |
| `SecondFactor` | `services/auth/mfa_service.py`, `auth/mfa.py`, the routes of `routers/auth/auth.py` | `factor` is the row's three columns, `freq` the requests with the row each loaded. `PutColumn` writes only what differs from that copy; removal with a backup code is two commits (`DisableByBackup`, `FinishRemoval`). A TOTP code matches or not; backup codes are pairs of set and number |
| `CardPrices` | `tasks/price_snapshot.py`, `price_backfill.py`, `image_index.py`, `services/market/price_alert_service.py`, the resolve of a card | `doc` is the JSON document, `job` the writers with the document each loaded; `Commit` writes it whole, with the alerts marked from an earlier SELECT. `Trim` is the history window, `Tell` the announcement after the commit |
| `VaultCap` | `services/entitlement_service.py`, `site_config_service.py`, `graded_card_service.py`, `email_log_service.py` | `add` is an add at its next read: switch, plan shape, count, insert, and the notice of one that was turned away. `ScanStores` is the pipeline, which asks nothing |
| `ApiBudget` | `platform/api_budget.py`, `integrations/_http/apitcg.py`, the price enrichment of `card_search_service.py` | `used` is the counter, `lookup` the calls: admitted, answered, counted. `AskForPage` is the one check before a page's tasks; `RedisChanges` takes the counter away |
| `EmailDelivery` | `services/email_log_service.py`, `email_service.py`, `routers/email_webhook.py`, the admin's retry | `mail` is one row, `send` its sends (post, mark, write), `hook` its webhooks (move, suppress). `taken` and `open` are the provider's side (external): messages it took, and bounces it will deliver until answered |
| `Moderation` | `social/services/safety.py`, `posts.py`, `comments.py`, `stories.py`, `social/moderation.py` | `thing` is the post, comment or story, `kase` its cases by what filed them (`blocked` is the queue's tab of that name: removed by the classifier, decided by nobody), `submit` the author's texts on their way through screening, `moderator` a moderator away, before a page, or closing |

Components do not share variables; they compose by assumption. `Sessions` takes from
`LoginLockout` only that an attempt succeeds or not, `Billing`'s webhooks assume
nothing of sessions, and `SwrCache`'s upstream call, like every provider call,
goes through what `CircuitBreaker` describes and may therefore fail at once.
`SecondFactor` takes over where `Sessions` has a verified password; `VaultCap` takes
`Billing`'s plan as a flag that may change at any moment, and `ScanPipeline`'s
insert as a card that arrives unasked; `CardPrices` and `VaultCap` hand their mails
to `EmailDelivery`.

### History variables

What a property excuses is recorded where it happens and read by no action:
`lost`, `used` (`Sessions`), `stranded`, `overlap`, `dragged` (`ScanPipeline`),
`disorder`, `paid`, `comped` (`Billing`), `lapsed`, `forced`, `had` (`SwrCache`),
`admitted` (`FollowGraph`), `crossed` (`FollowGraph`, `SecondFactor`), `spent` and
`held` (`SecondFactor`), `recorded`, `atRisk`, `told`, `toldAgain`, `contended`
(`CardPrices`), `excused`, `crossing`, `notices` (`VaultCap`), `answered`,
`unmetered` (`ApiBudget`), `forgotten`, `clash` (`EmailDelivery`), `looked`,
`takenDown`, `late`, `redecided` (`Moderation`).

## Runs

All bounds are constants in the `.cfg` files. Each run ends by exhausting its
state space.

| Run | Instance | What it shows |
|---|---|---|
| `sessions` | 2 requests, 3 revocations, 2 hashes, 2 pairs, 1 link | a revoked pair is refused unless an absolute epoch write was lost; current pairs survive; a consumed link never opens |
| `sessions_lost_epoch` (violated) | same | reset or admin revoke writes "snapshot + 1" over a bump that committed meanwhile, and a revoked pair lives again |
| `guards` | lockout: 3 attempts, threshold 2, lock of 3 ticks; factor: 2 requests, 2 secrets, 2 enrolments of 2 codes; breaker: 3 callers, threshold 3, cooldown 2; budget: 3 calls, ceiling 2, pages of up to 3 | no failure goes uncounted and only time lifts a lock; a used backup code and a confirmed secret stay; the breaker implements `CircuitPromise`, opens exactly on a streak and recovers; the ceiling is passed by fewer than the calls under way |
| `scan_pipeline` | 2 jobs with one photo, 2 runs | a complete job has its card; a stored card keeps its job complete, whatever raises before or after the commit, unless a late mark drags the job back; runs in sequence make no duplicate, also of a removed card; a job in `processing` ends unless its run died outside the guard |
| `scan_duplicate` (violated) | 3 runs | two runs check for the duplicate before either stores |
| `billing` | four casts, 3 changes, 1 fault: 2 subscriptions and 1 webhook; 2 overlapping webhooks; 2 requests racing for a customer; an admin's comp beside a webhook | nothing unpaid grants Pro; the plan is Stripe's after an orderly history; a payment reaches the plan unless another writer interferes |
| `billing_switch` (violated) | 2 subscriptions, 1 webhook | the end of the old subscription drops a member who pays on the new one |
| `breaker_timeouts` (violated) | 3 callers, threshold 3, cooldown 2 | calls that end by their caller's deadline are not counted |
| `swr_cache` | 2 requests on one instance, 1 on another | single flight, no empty page, never backwards, every request answered |
| `community` | follow: 2 fans of 1 owner, 2 handlers; moderation: 2 texts, 1 reporter, 2 moderators, each kind of thing | consent, claimed handles only, no ask dropped, a public inbox empties for good; a doubtful text on show has its case, a removal answers the queue |
| `moderation_unseen` (violated) | same | a decision closes a case filed after the moderator's page was loaded |
| `vault` | prices: 2 jobs, 1 alert, 2 days, window of 1; cap: 2 adds, 4 cards, caps 0 and 1; mail: 2 sends, 2 webhooks, 1 message, keyed or not | alerts are told once, points are kept, the cap is passed by one add at most, a bounce ends in suppression through crashes and redelivery |

`guards`, `community` and `vault` each check several components that share no
variable. Their module gives every behaviour a `part` that never changes: the
actions are those of that component, and the others stay in an initial state. The
state space is the sum of the components' and not their product, a property of one
component is checked on exactly the behaviours of its own specification (the
others satisfy it in their initial state), and fairness is conditional on the
part. `MCPaidPlan` does the same with one component: a `cast` fixes which
subscriptions, customers, requests, webhooks and admins may act, so that each of
the four instances stays small.

`InOrder` in these modules is symmetry reduction by hand, used because TLC's
`SYMMETRY` is unsound with liveness. Slots that are interchangeable (two jobs, two
adds, two webhooks, two moderators) are idle in the same state and no property
names one of them; a behaviour in which the second begins while the first is idle
becomes, with the two swapped, one that `InOrder` admits. Every behaviour has
such a twin, so nothing is lost. What is not interchangeable (an admin and a
webhook, a fan with an edge and one without) is not ordered.

Why these bounds suffice to be worth running: every race named above needs two
writers, so two slots exhibit it, and where a third matters it is there (a
threshold crossed by attempts that all passed the check, a late call besides a
probe, a waiter beside a holder and another instance, a page of look-ups beside a
single one). The revocation bound of 3 lets the epoch move forward and back onto
an old value; two subscriptions are what a switch needs; two fans are what a
partly conflicting sweep needs; two days with a window of one make the window
close; two enrolments tell a code of an old set from one of the new. The
invariants that matter most are also proved, where no bound applies. The bounded
counters (`MaxRevs`, `MaxHash`, `MaxTokens`, `MaxLinks`, `MaxChanges`,
`MaxFaults`, `MaxAge`, `MaxSecrets`, `MaxEnrolments`, `MaxDay`, `MaxPrice`,
`MaxCards`, `MaxLimit`, `MaxMessages`, `MaxPage`, `MaxAnswered`) end behaviours
and never enable one.

`CHECK_DEADLOCK FALSE` stands where the modelled system really stops: in `billing`
and `billing_switch` (Stripe's changes run out at `MaxChanges`), in `swr_cache`
(each request is served once), and in `community` and `moderation_unseen` (each text
is submitted and each report made once).

### What the violated runs say

Each quotes a sentence of the code; see `findings` in `PROJECT.json`.

- `RevokedStayRevoked`: `users.token_version` is called monotonic and a bump is
  said to kill all outstanding tokens. Two of the four writers add one to the row
  they had loaded.
- `NoPhantomDuplicate`: "an arq retry of the same job must NOT create a phantom
  duplicate row". The check is a SELECT and no key covers it.
- `PayingMemberKeepsPro`: the handler never compares the event's subscription
  with the one on the row.
- `TimeoutsTrip`: `guard()` is said to record failure "on any exception
  (including timeouts)"; `asyncio.wait_for` ends the call with `CancelledError`,
  which is not an `Exception`.
- `DoubtfulTextIsLookedAt`: a case is opened for every doubtful text because "the
  alternative to the *case* is content nobody ever looked at". `resolve()` sweeps
  every case of the target that is open at that moment, also one filed since the
  moderator's page was loaded.

For each, a passing property states what the code does guarantee
(`RevokedUnlessLost`, `SerialRunsDedupe`, `InSyncWhenOrderly`, `TripsOnAStreak`,
`ShownTextIsAnswered`).

### Exceptions the properties carry

The handlers read, then commit. The properties name what that leaves open.

- `ScanPipeline`: a mark or a worker that loaded the job while it was uploading
  writes `processing` over whatever the row says by then, also over `complete`
  (`dragged`); such a job may end as failed with its card stored. Two runs past the
  duplicate check at once may store twice (`overlap`), and nothing is promised of a
  job whose run died outside the guard (`stranded`).
- `Billing`: overlapping writers, a change applied after a later one and an orphaned
  customer are `disorder`: the handler keeps no version, and of
  what follows only `NothingUnpaidGrants` speaks.
- `SwrCache`: once a lock ran out under its holder (`lapsed`), neither single flight nor
  order is promised of that instance, nor order once a cold miss refreshed without
  the lock (`forced`); that nobody gets an empty page over a value, and everybody an
  answer, still is.
- `Sessions`: a lost epoch write (`lost`), which `sessions_lost_epoch` exhibits. Two
  requests that both passed the check with one reset link both reset: the link is
  closed to whoever loads the row afterwards.
- `FollowGraph`: `crossed` holds the pairs that were being written while one of the
  two deactivated: such an edge can survive the account's leaving and come back to
  life when its handle is claimed again. `Consent` counts as let in whoever asked
  while a sweep begun in public was still running, since the sweep goes by the
  privacy first read in its session; and `AskNotForgotten` excludes asks that arrive
  between the sweep's SELECT and its DELETE, which takes every row of the owner.
- `SecondFactor`: a used backup code can come back when another request had the
  list loaded while it was used (`held`), and a confirmation beside another setup or
  a removal can switch on a secret nobody confirmed, or none (`crossed`).
- `CardPrices`: a point recorded while another job held the document may be
  overwritten by that job (`atRisk`); two evaluators that both read an alert as
  pending both tell its owner (`contended`).
- `VaultCap`: cards held by right, scanned in, or held when the cap was lowered
  excuse the cap (`excused`). `OneNotice` excuses two adds that both found the log
  empty and a row that was not written (`crossing`).
- `ApiBudget`: nothing is promised once a call was admitted or answered without the
  counter (`unmetered`), which is what the module chooses when Redis is away.
- `EmailDelivery`: an event that came before the row knew its `provider_id`, after a
  retry gave it another, or met a database error is answered without effect
  (`forgotten`); two sends or two webhooks of one row at once may undo a final
  status (`clash`).
- `Moderation`: a case filed after a removal had listed the open ones stays open
  (`late`). `resolve()` never asks whether the case is still open, so a dismissal
  from an older page can overwrite "removed" while the thing stays gone
  (`redecided`).

Where an exception is the very race a hazard names, the hazard's `note` in
`PROJECT.json` says so: the code has the race, and the property says how far its
effects reach.

## Fairness

- `LoginLockout`: the clock runs and a request that has begun ends, by its commit
  or by being dropped. Nobody must try a password.
- `ScanPipeline`: a run takes its next step unless it raises or dies; both are
  separate actions without fairness. There is no reaper, so a job whose run died
  is exempt in `ScanEnds`.
- `Billing`: a handler that began ends or raises; Stripe redelivers an event until
  it is answered 200 (strong fairness on delivering something unanswered), which
  is its documented contract. Nobody must pay.
- `CircuitBreaker`: requests keep arriving, the clock runs, and a provider that is
  healthy again and again while calls wait answers one of them in the end.
- `SwrCache`: the event loop runs what can run, and upstream calls end by their
  own timeouts. Neither the deadline of the wait nor the lock's TTL is relied on.
- `FollowGraph`: handlers that began end; the owner keeps opening the app, which
  is what calls the sweep (strong fairness, because other handlers may hold the
  modelled slots when they open it).

`Sessions`, `SecondFactor`, `CardPrices`, `VaultCap`, `EmailDelivery`, `Moderation`
and `ApiBudget` state safety only: what they promise is about what a stale write
may undo, and a request of theirs that dies is never resumed.

## Proofs

All theorems are `Spec => …`, with the specification of their component, for
arbitrary constants under the named assumptions (`BoundsAreNatural`,
`LimitsArePositive`, `NoneIsNoId`, `TasksDiffer`, `PairsOfUsers`, `CapBounds`,
`SomeLookups`, `CaseKeys`, …), which the runs evaluate. Every invariant and every
action property of a passing run has one.

### What the runs check, for every instance

| Component | Theorem | Argument |
|---|---|---|
| `Sessions` | `TypeCorrect`, `RevocationHolds`, `SessionsSurvive`, `ConsumedLinks` | `EpochInv`: absent a lost write the epoch is the number of revocations, and every pair, and the snapshot of every login in flight, carries the epoch of the row it was read from; `LinkInv`: hashes are numbered, so a consumed link was signed over one replaced for good |
| `LoginLockout` | `LockoutTypes`, `Threshold`, `OnlyTimeLifts` | The stored counter is the number of failures since the last lock or clear (`FailuresCounted`): the increment and the test are one statement |
| `SecondFactor` | `FactorTypes`, `SpentCodes` | `CodesInv`: every list of codes, stored or loaded, holds codes of sets already made, and a used one only if it was held elsewhere |
| | `ConfirmedSecret` | `SecretInv`: until a confirmation overlaps another writer, one in flight has read the secret that is stored, and a setup in flight found the factor off |
| `CircuitBreaker` | `BreakerTypes`, `Refinement`, `Trips` | Not closed exactly when the counter is at the threshold (`OpenCounts`), and the lock is held by the one caller whose call is a probe (`LockIsProbes`); each step maps to a step of `CircuitPromise` or a stutter |
| `ApiBudget` | `Ceiling` | `MeterInv`: answers are counted or about to be, and answers plus calls under way stay below the ceiling plus the number of callers |
| `ScanPipeline` | `TypeCorrect`, `CompleteJobsHaveCards` | `CardInv`: a run about to defer to a duplicate has found a stored row of the photo, and the row and the status commit together |
| | `StoredStaysComplete` | `CardImpliesComplete` is inductive over `Inv`: every step keeps complete jobs complete or records the job it dragged back, and a card is stored only with the status (`CompleteQuiet`) |
| | `SerialRuns` | `DupInv`: of a photo no two runs were storing at once, the one run about to store (`Alone`) is the only one, and no recent row is the submission it is about to store |
| `Billing` | `TypeCorrect`, `PaidGrants` | `PaidInv`: every event sent and every event a handler holds, apart from pending ones no handler applies, is about a paid subscription |
| | `InSync` | `EventsInv`: Stripe's changes are numbered, events of one number agree, and the latest change of a paid subscription has been announced. `OrderInv`: until the history is disorderly the row keeps its customer (`Steady`), one writer at most is at work (`OneWriter`) and has read the row as it stands (`Current`), and the plan is that of the latest change applied, no answered change being later (`InStep`) |
| `SwrCache` | `TypeCorrect`, `OneRefresh`, `FilledIsServed`, `OnlyForward` | While no lock lapsed, the holder of the flag is the holder of the key; a call in flight under the lock is at least as recent as what L1 holds |
| `FollowGraph` | `FollowTypes`, `ClaimedOnly`, `PrivateIsPrivate`, `AsksAreKept` | One lemma, `StepEffect`, says what any action may do: edges come only from a writer in flight, claims go only with a leaver. Over it, `ClaimInv` (a leaver holds every edge and ask of its own, or the pair crossed) and `AdmitInv` (whatever is about to become an edge is admitted) are inductive |
| `Moderation` | `ModerationTypes`, `ShownAnswered` | `FiledInv`: a case is filed once, so what a page shows or a sweep lists has been filed; `ShownInv`: a text waiting to be written was not refused, and a thing with a removed case is gone |
| | `TakedownCloses` | `QueueInv`: while a removal is under way, every open case is late or among those it will settle |
| `CardPrices` | `CardTypes`, `Points` | `HistoryInv`: the document and every loaded copy that may be written back keep the recorded points within the window. `KeepsUpserted` says that setting a point and trimming to the newest keeps the newest, `TrimFits` that it fits the window |
| | `ToldOnce` | `ToldInv`: of an uncontended alert, no evaluator holds it once it is fired and one job at most is about to tell it |
| `VaultCap` | `Overshoot`, `NoticeOnce` | `CapInv`: the cards plus the adds that counted room stay below the cap plus the number of adds, and no count goes by a higher cap than the one in force; `NoticeInv`: one add at a time is about to mail, and only while the log is empty |
| `EmailDelivery` | `MailTypes`, `Bounced` | `BounceInv`: an event a webhook is handling is still open at the provider, or has had its effect or its exception |
| | `FinalStands` | `OrderInv`: while nothing overlaps, a send works on a row without `provider_id`, and a webhook only on one that has it, with its status as read |

`CardImpliesComplete` needs little more than the types. The others are mostly not
inductive alone: each is about committed state, and what a handler in flight is
about to commit has to be constrained too. The strengthenings above are exactly
that.

### The compositions

`EachGuard`, `EachCommunityPart` and `EachVaultPart` say that `MCGuards`,
`MCCommunity` and `MCVault` implement the specification of every part they run: a
step of one part is a stutter of the others. So a property proved of a part is one
of the composition, which is what TLC checks; `GuardsTypes`, `CommunityTypes` and
`VaultTypes` draw that conclusion for the type invariants.

### What stands behind the liveness properties

Liveness under fairness is beyond the prover, but most of what could go wrong with
it is not about fairness: a job with nobody in charge, a lock nobody holds, an
event answered without effect, an end that recedes. These are safety properties,
and are proved for each of the liveness properties the runs check.

| Checked by TLC | Theorem | What it says |
|---|---|---|
| `ScanEnds` | `AlwaysInHand` | a job in `processing` has a run that will write its end (`NeverOrphaned`), unless one died outside the guard |
| | `RunsEnd` | every step of a run is nearer its end (`Place`), so with fairness that run gets there |
| `PaidReachesPro` | `PaymentNotLost` | after an orderly history the plan is that of Stripe's latest change, or the event that says so will be delivered again (`PaymentInHand`). `InSync` follows from it |
| `LockLifts` | `LockRunsOut` | whatever locks the account or may yet be stamped ends within `LockFor`; while a lock is in force nothing moves that end out and each tick brings it nearer (`EndsWithin`) |
| `RecoveredProviderReturns` | `WayBack` | a half-open breaker may be probed, or is being probed |
| `EveryRequestAnswered` | `Unstuck` | a set lock belongs to a refresh under way (`LockIsHeld`), so a waiter waits for a step that comes; a request that is over has its answer (`DoneIsAnswered`) |
| `InboxClears` | `InboxFillsNoMore` | nobody new sets out to ask a public account, and each ask that still arrives uses up a request that had read it as private (`AsksRunOut`) |

TLC confirmed each of these on the instances above before it was proved.
They are listed in no run, as are `OneNotice` and `FinalNeverRegresses`;
`WindowHolds` is checked within `VaultTypeOK` and proved with `Points`.

What stays with TLC: the liveness properties themselves, where fairness turns these
facts into progress, and the refuted properties.

## Not modelled

Within the modelled parts: registration and provider sign-in (an account exists
from the start); a scan without images, the grading itself (any outcome), cards added
by hand, which are meant to be able to repeat a scanned one; trials,
refunds, the customer portal, period dates; read errors of a cache tier and its
retention of weeks, and a refresh that returns None, which would be stored and served
(`cache_swr.py:133`): its two callers' refreshers (`card_search_service.py:802` and
`:823`) return a dictionary or raise; client disconnects in the cache and the community; bans, deleted
accounts, likes, visits, avatars and notifications in the community; the price
alerts' own cap (the same count before an insert, with a constant limit); the OCR
budget (a counter with its own caller) and the turn of the month; batches of mail
and the cron runs that choose whom to mail; screening of profiles, collections and
reviews, and of pictures apart from text. The numbers of the code that only scale a
model (15 minutes of lock, 60 seconds of refresh lock, five minutes of duplicate
window, the length of the price history) are ticks, events or small constants.

Narrow races that were read and left out, so that a maintainer knows of them: the
hash upgrade at sign-in (`user_service.py`) writes a rehash of the old password and
may land over one changed meanwhile; change-password re-reads its row after the
commit and mints from that; a trial is decided while `pro_since` is empty, which
only a webhook fills; `stripe_subscription_id` outlives its subscription, so a comp
given later cannot be revoked by an admin; a cold waiter of the cache that misses
both the store and the release goes to upstream itself; and without a reachable
Redis the refresh lock is one per process. `moderation.py:44` says a case is opened
also when no key is configured; `screen()` lets everything through then, on purpose
by its own comment, and the model has the latter.

Outside: the parts listed without a module in the inventory, mostly single-row
writes, queries, text and image processing, and clients of third parties. They are
most of the repository's lines and little of its control: the search, the mirror,
the identification and the portfolio are queries, ranking and arithmetic over data
that the models hold abstract.

## Plan

1. Done: sessions and lockout, scans, billing, breaker, cache, follow graph, in
   this order, which is that of the harm done when they fail.
2. Done: second factor, price document and alerts, the vault's cap, paid-API
   budgets, e-mail delivery, moderation, each with its inductive invariants proved.
3. Account lifecycle: two sign-ups under one identity (provider and e-mail), the
   verification mark beside a change of address.
4. Notifications: one row per event key, and the failure between row and push.
5. Compositions that share state: `Billing` with `VaultCap` (a plan that drops while
   adds are in flight), `SwrCache` over `CircuitBreaker` (a refresh refused by an
   open breaker).
6. Proofs. Done: every invariant and action property of the passing runs, the
   safety side of every liveness property, and that the compositions implement
   their parts. Left: an abstract subscription ledger that `Billing` implements on
   orderly histories, and lost updates excused by a history variable restated as
   a refinement of the component without the stale write.
