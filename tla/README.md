# Formal models of the MGA operating system

TLA+ models of the policy administration platform in `src/` (a TypeScript
backend on PostgreSQL, Redis, Kafka and the OneShield carrier API; a React web
client), with TLC configurations that check them on small instances and TLAPS
proofs about them. Paths below are relative to `src/src/backend/src` (backend)
or `src/src/web/src` (web).

1. [Inventory](#1-inventory): the system's parts
2. [Modules](#2-modules): what is modelled and how it corresponds to the code
3. [Runs](#3-runs): what TLC checks, bounds, fairness
4. [Proofs](#4-proofs): what TLAPS proves, and along which argument
5. [Findings](#5-findings): where the code does not do what it says
6. [Conventions and omissions](#6-conventions-and-omissions)
7. [What is left](#7-what-is-left)

## 1. Inventory

The backend is a Node cluster (`server.ts:51-86`): a primary process forks one
worker per CPU and forks a new one whenever a worker dies. Inside a worker,
handlers interleave at their `await`s. Nothing is shared between workers but
PostgreSQL, Redis, Kafka, S3 and OneShield; module-level objects (repositories and
their caches, dedup sets, circuit breakers) are one per worker. In the browser,
callbacks, timers and answers of one tab interleave; tabs exchange the actions of
their stores.

**Backend**

| Component | State it keeps | Hard behaviour | Correct when | Module |
|---|---|---|---|---|
| Policy service, repository, model; OneShield client | policies table; a cache per worker (300 s); what OneShield has issued | update validated against a cached copy, no row version, cache evicted before the commit, OneShield called inside the transaction, each POST sent twice and retried without idempotency key | statuses follow the transition table; a policy is born under a link OneShield issued for it and shows another only if an event brought it; a rolled-back write is never served | `PolicyLifecycle` |
| Policy controller | response cache in Redis | filled after the await that read it; not invalidated by other writers | an old answer has a reason and an end | `PolicyReads` |
| Requests and middleware (`app.ts`, routes, middlewares) | each request's place and who answered it | breakers that answer while the handler goes on, or never call it; rejections after the answer end the worker; the 404 handler comes first | every request is answered | `RequestPipeline` |
| Cluster lifecycle (`server.ts`) | worker processes, restarts under way | deaths, replacements and restarts overlap; messages to workers that are starting | the number of workers is kept; a restart ends and is announced truly; shutdown drains | `ClusterLifecycle` |
| Connections (`config/database.ts`, `config/redis.ts`) | the one Sequelize instance, the Redis client, timers | concurrent first calls, loss and close each make or end an instance | one instance, and it is open | `Connections` |
| Policy events | processed keys, offsets | at-least-once delivery, dedup by policy id, mark after the await, breaker timeout, a start without a committed offset | what is passed unhandled has a reason | `PolicyEvents` |
| Claims events | batch, offsets | offsets resolved past failures; dead letter after a success; a start without a committed offset | what is passed is accounted for | `ClaimsEvents` |
| Producers of the three topics | connection, attempts | a send times out though the event is stored; producers without a client | a call that resolves has stored its event | `EventProducers` |
| Underwriting service, controller, consumer | assessments in Redis (1 h), decisions | OneShield told by the service and again by the consumer; a score of 0 is no assessment | an approval reaches OneShield | `UnderwritingServer` |
| Claims service, repository, controller, model | claims table; one query runner for all requests | transactions of concurrent requests nest; reads outside of them; event after the commit; events that change the status past the validator | claims move along the table; what is announced is there | `ClaimsServer` |
| Endorsements | table, cache | conflict check outside the transaction; cache set before the commit; repeated synchronisation | no two of one date pending | `Endorsements` |
| Documents | S3 object, row, caches | three stores written in turn; a key shared by uploads | the stores agree | `DocumentStore` |
| User accounts (`models/User.ts`) | failures, status, lock | attempts save their own instances | a lock stands until its end | `UserAccounts` |
| Compliance service, billing client | breakers, audit trail | lost answers, breaker timeout, later steps that fail | a wish is carried out once | `OutsideCalls` |
| Analytics | three stacked caches, gauges | lifetimes add up; loads in flight | types only | `Analytics` |
| Logging, encryption, dates, validation; migrations and seeds | -- | -- | -- | not modelled |

**Web client**

| Component | State it keeps | Hard behaviour | Correct when | Module |
|---|---|---|---|---|
| HTTP client | marks and retries of a request | refresh and retries meet in one interceptor | repeated one way, a bounded number of times | `ApiClient` |
| Session | tokens, timer, slice, MFA entry | a refresh answered after a logout; a failing logout | held tokens are renewed; tokens after a logout have a reason | `WebSession` |
| Policy store | two caches, pending requests, slice | optimistic updates, shared requests, answers in any order | spinners and requests have a cause | `PolicyStore` |
| Policy pages, form, card | hook state, form versions, drafts | callbacks of old renders; late validations; polling against binding | no refresh is lost; only validated data is created | `PolicyPages`, `PolicyForms`, `PolicyCard` |
| Claims store, form and page | slice, page cache, documents | thunks share marks; documents uploaded after the claim; requests repeated, given up or lost after the server made the claim; two updates for one press | marks have a cause; further claims are explained | `ClaimsStore`, `ClaimsDesk` |
| Underwriting store and views | three caches, pending names, selection, dialog | versions cross; the dialog decides the first selected row | an old assessment or a double decision is explained | `WebUnderwriting`, `UnderwritingDesk` |
| Documents | upload card, retries, list | retries of an old render; reset counters; below them the HTTP client's own repetitions | a second copy is explained | `WebDocuments` |
| Dashboards | ranges, caches, live updates | answers of a range left behind | types only | `WebDashboard` |
| Interface slice, store middleware, notices | two tabs | every action is exchanged; rate limit; one timer clears all | types only | `WebUi` |
| Widgets and layout | search, table, sidebar, boundary | debounce that is never cancelled | types only | `WebWidgets` |
| Routes, selectors, styles, validators | -- | -- | -- | not modelled |

`PROJECT.json` lists each component with its files and status, and, under
`hazards`, every place where the code is exposed to a behaviour that a test
would hardly reach, with the properties that cover it.

## 2. Modules

The policy service, the centre of the system, and the cluster have specifications
of their own, with an abstract specification, fairness and proofs. Each other
component is one module with its state, its actions and what it promises;
`MCBackend` and `MCWebClient` compose those for TLC.

| Module | Content |
|---|---|
| `PolicyRules`, `PolicyLedger`, `PolicyLifecycle` | rules of a policy; what the service promises of the table; the service, repository, caches, transactions and OneShield |
| `ClusterLifecycle` | the processes of the backend: forks, deaths, restarts, draining |
| `RequestPipeline`, `PolicyReads`, `Connections` | a request through the middleware; the response cache; database and Redis connections |
| `PolicyEvents`, `ClaimsEvents`, `EventProducers` | the two consumers and the three producers |
| `ClaimsServer`, `UnderwritingServer`, `Endorsements`, `DocumentStore`, `UserAccounts`, `OutsideCalls`, `Analytics` | the other backend components |
| `ApiClient`, `WebSession` | the browser's requests and its session |
| `PolicyStore`, `PolicyPages`, `PolicyForms`, `PolicyCard`, `ClaimsStore`, `ClaimsDesk`, `WebUnderwriting`, `UnderwritingDesk`, `WebDocuments`, `WebDashboard`, `WebUi`, `WebWidgets` | stores, hooks, forms, views |
| `MCPolicyLifecycle`, `MCBackend`, `MCWebClient` | instances and compositions for TLC |
| `PolicyLifecycleProofs`, `ClusterLifecycleProofs` | theorems and proofs about the module of that name |
| `EventsProofs`, `RequestsProofs`, `ServicesProofs`, `BackendProofs`, `WebStoresProofs`, `WebViewsProofs` | theorems and proofs about the other components, and about their two compositions |

Each module begins with what it stands for and what it abstracts; every definition
that models code has its file and lines in `PROJECT.json` under `map`. Two
conventions hold in all of them. An action is the code from one `await` (or
callback, or timer) to the next, with the reducer or `finally` it runs into. A
*history variable* (marked "history" where it is declared: `slRaced`, `wuWhy`,
`ocWhy`, `cnSpoilt`, ...) records that something happened which the code does not
remember; only properties read it. Properties named `...Explained` have the form
"this bad state is reached only through one of these named races or failures": TLC
then shows that the list is complete, and no guard of the code covers what is on it.

Actions whose modules need a word:

- `ClaimsServer`. `slStack` is the query runner: the transactions of all requests,
  one inside the other. A commit closes the top, whoever opened it; `slRaced` has the
  requests that overlapped. Reads and the model's own save use other connections. A
  status change comes as a request (`UpdateClaimStatus`, `CheckMove`: the validator's
  table) or as an event (`ClaimEvent`), which `ClaimsEventConsumer.ts:206-214` hands to
  the service directly; the repository's own check (`Forbids`) is all it has to pass.
- `ClaimsDesk`. A submission is a request that the server may serve (`ServerMakes`),
  again if the HTTP client repeats it, and also after the client has given it up
  (`cdLate`, `ServerMakesLate`). On the page each press starts two updates, one by the
  page and one by its component (`HandleStatusChange`), and the buttons stay enabled,
  so that several presses overlap: `DeskCalls` are slots for updates.
- `PolicyEvents`, `ClaimsEvents`. A partition is its messages and three offsets
  (reached, committed, and where the consumer began). A start continues at the committed
  offset, and at the end of the log while there is none (`fromBeginning: false`):
  `peFirst`/`ceFirst` remember where the first start began, `peMissed`/`ceMissed` what a
  later one began past. `peLate`/`ceLate` are the calls
  the breaker gave up on, which go on and may still take effect. A crash keeps the
  committed offset and the effects and loses everything else.
- `RequestPipeline`. A router can be mounted in the application or alone (as the
  tests of a router mount it): only so do requests pass the 404 handler that is
  registered ahead of the routes. Each router has its own order of limiter,
  authentication and validation (`FirstStage`, `GoesIn`).
- `PolicyReads`. The breaker may give an update up (`UpdateTimesOut`); it goes on and
  commits (`LateUpdateCommits`), and nobody drops the copy.
- `DocumentStore`. Files are numbered; `dcReplaced` and `dcErased` are history: what
  a later upload overwrote under the shared key, and what was deleted for good.
- `Connections`. `cnOpen` are the instances that are open, `cnInstance` the one the
  variable names; a call is at one of its awaits in between.
- `WebDocuments`. Which callback of `DocumentUpload` an attempt reports to depends on
  the render it was made in, hence on whether the card's properties change
  (`wdView.steady`). An attempt is not one request: the HTTP client below it repeats
  (`ClientRepeats`), and gives up requests the server may still serve (`wdLate`).
- `PolicyPages`. A run carries the `lastFetchTime` and `retryCount` of its render.

### PolicyRules

A row keeps four fields: `status`, `uw` (what the code tests of the JSON column
`underwritingInfo`: risk score, notes and approver present), `doc` (a
POLICY_DOCUMENT among the documents) and `link` (`oneShieldPolicyId`, the number
of the OneShield policy, 0 when unset; 9 in the instances is a link OneShield does
not issue there). The other columns decide nothing.

- `ValidTransitions`, `Permitted` -- `validatePolicyTransition`
  (`PolicyService.ts:200-245`).
- `Validates` -- `Policy.validate()` (`Policy.ts:137-181`): BOUND and ACTIVE need
  risk score and notes, ACTIVE a link.
- `Masked` -- `Policy.toJSON()` (`Policy.ts:187-206`), which drops notes and
  approver. `findById` caches and returns masked rows, and `repository.create`
  inserts one.
- `MapOneShieldStatus`, `CarrierView` -- the two conversions at the carrier.
- `Assign`, `WriteColumns` -- `Object.assign(policy, updates)`, then `save()`,
  which writes only the columns that differ from what was loaded.

### PolicyLifecycle

A *request slot* carries one request at a time; `pc` is the `await` its handler
stands at, and an action is the code from one `await` to the next.

| State | Code |
|---|---|
| `row`, `staged`, `lock` | committed rows, a transaction's uncommitted row image, the row lock (READ COMMITTED; the transaction of a request is one session) |
| `cache` | `cacheManager` of `PolicyRepository`, one per worker |
| `issued`, `told` | at OneShield: policies issued per number, what the last PUT said |
| `pc`, `req`, `upd`, `seen`, `inst`, `left` | the handler: where it waits, its request, the updates to assign, `existingPolicy`, the model instance, retries left |
| `tx` | the transaction seen from the database: none, open, or killed by a timeout |
| `held`, `links` | history variables: the statuses and the links each policy was ever committed with |

| `pc` | Waiting for | Leaves by |
|---|---|---|
| `insert` | `Policy.create` | `Insert`, `InsertFails` |
| `post1`, `post2` | the two POSTs of `PolicyClient.createPolicy` | `Post1`, `Post2`, `PostRetry`, `PostGivesUp` |
| `lookup`, `query`, `fill` | cache get, `findOne`, cache set in `findById` | `LookupHit`, `LookupMiss`, `Query`, `QueryNone`, `Fill` |
| `load` | `findByPk` in `update` (or the return of a bare read) | `Load`, `LoadFails`, `Refuse`, `ReturnRead` |
| `save` | `policy.save` | `Save`, `SaveNothing`, `SaveFails` |
| `evict` | `cacheManager.del` | `Evict` |
| `put1`, `put2` | the two PUTs of `PolicyClient.updatePolicy` | `Put`, `PutFails` |
| `commit`, `abort` | `commit()`, `rollback()` | `Commit`, `CommitFails`, `Rollback` |

Requests and events carry any update: `handlePolicyUpdated` passes the payload's part
of a policy on as it is (`PolicyEventConsumer.ts:226-228`), and `Object.assign` takes
all of it (`PolicyRepository.ts:221`), `oneShieldPolicyId` included. A row may so take a
link that OneShield did not issue for it (`BroughtLinks`), become ACTIVE under it, and
OneShield is then told of it with a PUT under that link. Payloads that rename a
policy's number are left out: the model knows a policy by it.

The environment adds `KillIdleSession` (PostgreSQL ends a session idle in its
transaction for 10 s while the handler waits up to 30 s elsewhere,
`config/database.ts:46-60`), `Expire` (cache TTL or eviction by size) and
`CrashWorker` (the process dies: its handlers, transactions and cache are gone,
and a new worker takes its place). A POST or PUT that fails may or may not have
had its effect at OneShield.

### PolicyLedger

The table with everything else hidden: a policy appears once, linked and DRAFT,
QUOTED or CANCELLED; afterwards it keeps its link or takes one that somebody asked
for (`OtherLinks`, the links updates bring along), and takes a new status along
an edge of the transition table that starts at *a status the policy has had*.
The stronger promise, that the edge starts at the status it has *now*, is what a
test of the repository says and what the code does not keep (section 5).

### ClusterLifecycle

`server.ts` from the outside: which worker processes there are and what state
each is in. `PolicyLifecycle` shows what the death of a worker does to the
requests in it; this module shows when workers die and what comes after them.
Workers are numbered in the order of their forks.

| State | Code |
|---|---|
| `primary`, `born` | the primary process; `cluster.fork()` calls so far |
| `booting`, `hung`, `serving`, `draining` | a worker in `startServer`, stuck there, listening, in `shutdown` |
| `exited` | dead, the primary's `exit` event still to be handled |
| `mail` | workers with an unread `'shutdown'` message |
| `open` | which worker serves a connection |
| `signals`, `asked`, `counted`, `announced` | the closures of the SIGUSR2 handler: `workers`, `restartCount`, the final log line |

| Action | Code |
|---|---|
| `Listen`, `StartFails`, `StartHangs` | `startServer` resolves, throws (`process.exit(1)`), or waits for a `listen` that emitted `error` |
| `Accept`, `Close` | a connection begins, ends |
| `ReadMail`, `Signal` | `shutdown`, asked by message or by a signal to the worker |
| `Drained`, `DrainTimeout` | `process.exit(0)` after the servers closed, `process.exit(1)` by the timer |
| `Crash`, `Orphaned` | a worker dies; it exits because its primary is gone |
| `Replace` | the exit event: the restarts' listeners count it, then `cluster.on('exit')` forks |
| `Restart` | SIGUSR2: all workers are asked at once |
| `PrimaryStops` | SIGTERM to the primary, which has no handler for it |

## 3. Runs

| Run | Instance | Shows |
|---|---|---|
| `policy_lifecycle` | two workers with one slot each, one policy | `TypeOK`, `LifecycleOrder`, `CancelledAtBirth`, `LinkIsExplained`, `ToldOfBound`, `NoDirtyCopy`, and that the table refines `PolicyLedger` (`LedgerSpec`) |
| `policy_answered` | one worker with two slots, fairness | every request is answered (`Answered`); the cache shared by two handlers |
| `policy_stale_transition` | one worker, two slots | counterexample to `AlwaysLegalTransition` |
| `policy_lost_update` | one worker, two slots | counterexample to `OptimisticLocking` |
| `policy_cancellation` | one worker, two slots | counterexample to `ApprovalHonoured` |
| `cluster_lifecycle` | two workers, two connections, two restarts, two faults, fairness | `TypeOK`, `Population`, `AnnouncedTruth`, `RestartCompletes`, `Recovers` |
| `cluster_zero_downtime` | the same | counterexample to `ZeroDowntime` |
| `cluster_graceful_stop` | the same | counterexample to `GracefulStop` |
| `backend_services` | thirteen backend components, two calls of each at once | `BackTypeOK` and the thirteen backend properties below |
| `web_client` | fourteen web components, two calls of each at once | `WebTypeOK` and the twelve web properties below |
| `claims_dead_letter` | `ClaimsEvents`, two messages | counterexample to `ExhaustedIsDeadLettered` |
| `documented_routes` | `RequestPipeline`, two requests | counterexample to `RoutesServed` |

The runs listed with a counterexample are expected to fail; each states what a
comment, a document or a test says, and TLC's trace shows how the code departs from
it.

What the properties of `PolicyLifecycle` say:

- `LifecycleOrder`: no policy was ever ACTIVE without having been BOUND before,
  BOUND without QUOTED, EXPIRED without ACTIVE. Neither staleness of the copy an
  update is validated against nor OneShield's answer at creation can break this.
  For creation the reason is indirect: the row inserted has gone through
  `toJSON()`, hence has no underwriter notes, hence cannot pass
  `Policy.validate()` as BOUND or ACTIVE.
- `CancelledAtBirth`: a policy is CANCELLED only if it was created so.
- `LinkIsExplained`: however many POSTs are lost or repeated, a policy is born under
  one link OneShield issued for it and is never given another of those; any other link
  it shows was brought by an update.
- `ToldOfBound`: OneShield is sent only policies which had been committed BOUND
  and have a risk score, even if the update that told it is rolled back.
- `NoDirtyCopy`: no cache entry and no copy an update is about to be validated
  against stems from an uncommitted write: its status and its link were committed.
- `LedgerSpec`: refinement of `PolicyLedger`.
- `Answered`: a request that has arrived ends.

And those of `ClusterLifecycle`:

- `Population`: as many workers as configured, running or about to be replaced,
  however deaths, replacements and restarts overlap.
- `AnnouncedTruth`: a restart logs 'All workers restarted successfully' only when
  none of its workers is left. (It says nothing of the replacements, which the
  code does not wait for either.)
- `RestartCompletes`: every restart ends, the workers it found starting included,
  unless the primary dies or one of its workers hangs in `listen()`.
- `Recovers`: when faults and restarts have ended, all workers accept again but for
  those that hang; without a primary all workers end.

What `backend_services` checks:

| Property | Module | Says |
|---|---|---|
| `TransactionsMatch` | `ClaimsServer` | the shared query runner has one open transaction per request inside its own; a claim that was announced is there, or its request overlapped another |
| `MovesAllowedUnlessRaced` | `ClaimsServer` | a claim moves along the transition table; an event moves it off the table, but never where the repository forbids it; a claim that is kept has one at the carrier. Unless requests overlapped |
| `ApprovalToldTwice` | `UnderwritingServer` | an approved request has been told to OneShield or both calls failed; a policy of risk 0 is never decided |
| `PassedEventsExplained` | `PolicyEvents` | a message whose offset is committed was handled, or was there before the first start, or came while a start without a committed offset began past it, or was dropped after an earlier one of its policy was handled |
| `PassedMessagesExplained` | `ClaimsEvents` | a message whose offset is committed took effect, failed its retries, was left in a broken batch, was there before the first start, or was begun past by a start without a committed offset; only messages that took effect are dead-lettered |
| `ResolvedIsStored` | `EventProducers` | a publish that resolves has its event in the topic; the claims and underwriting producers always end with an error and store nothing |
| `StoresAgree` | `DocumentStore` | a confirmed upload has its row; a row lost its content only to a later upload or a deletion, never to a failure in between |
| `ConflictsExplained` | `Endorsements` | two endorsements of one date are pending only after overlapping creations or a failed second synchronisation |
| `LockStands` | `UserAccounts` | a running lock is not ended by a sign-in that loaded the account before |
| `EffectsExplained` | `OutsideCalls` | a wish is carried out twice only after a lost answer, a timeout of the breaker or a failure of a later step; a success reported is a success |
| `OneInstance` | `Connections` | without failures and crossings at most one database instance is open, and it is the one the variable names |
| `UnansweredExplained` | `RequestPipeline` | a request stays unanswered only in the breaker of the policy routes or in a dying worker; a worker dies only of requests already answered |
| `StaleCopyExplained` | `PolicyReads` | a cached response is behind the row only during an update, or after a crossing read, a failed drop, an update the breaker had given up, or another writer |

What `web_client` checks:

| Property | Module | Says |
|---|---|---|
| `SpinnerHasCause`, `OneListRequest` | `PolicyStore` | no spinner is left behind; a page is requested once however many ask |
| `RefreshNotLost` | `PolicyPages` | a refresh refused because the last fetch is fresh is made up for by the effect |
| `CreatedWasValidated` | `PolicyForms` | what is created was accepted, in this very version, by both validations |
| `OneWayToRepeat` | `ApiClient` | a request is repeated after a refresh or after retryable failures, never both, and a bounded number of times |
| `MarksHaveCause` | `ClaimsStore` | spinner, pending update and progress are shown only while such a thunk is under way |
| `ExtraClaimsExplained`, `SyncingHasCause` | `ClaimsDesk` | each further claim of a form follows a failure reported though its claim was (or would be) made, or a repeat of the HTTP client; after the reset the claim has all its documents; "Syncing" is shown only during an update of the page |
| `TokensExplained` | `WebSession` | held tokens will be renewed; tokens after a logout come from the storage or a crossing refresh |
| `UnderwritingExplained` | `WebUnderwriting` | an assessment from before a decision is cached, and an operation stays pending, only for the reasons listed |
| `DecisionsExplained` | `UnderwritingDesk` | a row is decided twice only by pressing again; an unpressed row only as the first selected |
| `CopiesExplained` | `WebDocuments` | a file is stored twice only by the user, after a lost or given up answer, or by the HTTP client's repeat, never by the scheduled retries alone |

The two remaining properties of these runs, `BackTypeOK` and `WebTypeOK`, join the type
invariants of the components.

**Composition.** The components in `MCBackend` and `MCWebClient` share no variable,
and none reads another's: what one needs of another (an answer that fails, a
commit, an event) is a free choice in its own module. A behaviour of the composition
takes the steps of one component, chosen at the start (`part`). Every reachable
state of every component is reached so; what is saved is the product of their
states, which no property is about. (The form and the page of `ClaimsDesk` share
nothing either, and are two parts of `MCWebClient`.)

**Bounds.** Two slots are enough for every pairwise race (two writers, writer and
reader, a request and a crash); policies do not interact in the code except by
sharing a worker's process, so one policy is checked by TLC and any number is
covered by the proofs. `MaxRetries = 1` makes the retry path happen and be
exhausted. `MaxIssued` (3 in the safety run, 2 where fairness is used) bounds
how many policies OneShield issues per number; a create needs two, one more
allows a lost POST or a second create. Drafts are a plain DRAFT and one that
asks to be BOUND at once under a link of its own; updates are one status change of
each kind, quoting with complete underwriting information, binding with a link that
OneShield did not issue. OneShield answers DRAFT, APPROVED
(mapped to BOUND, refused by the model) or DECLINED (mapped to CANCELLED).
In the cluster, two workers are the least that can die and drain at different
times; `MaxRestarts = 2` lets restarts overlap, and `MaxFaults = 2` lets a fault
meet a replacement for a fault (a crash, a failing or hanging start, a signal to
one worker). Exits are bounded by restarts and faults, so nothing else needs a
bound.

In the compositions two slots (requests, calls, files, tabs, rows) are the least that
can cross, and the properties speak of pairs. The other bounds each leave room for
the case they could cut off:

- `MaxEvents = 3`, `MaxApplyRetries = 1`, one key: an event, a duplicate of its
  policy and a third after a crash; a retry that happens and is exhausted.
- `MaxClaimEvents = 2`: a message behind the one a batch is broken off at, or one that
  came between a crash and the next start.
- `Targets`: a move of the table, one that is allowed from some statuses only, and PAID,
  which an event may ask for from anywhere but DENIED.
- `MaxPublished = 2`: an event announced anew after a timeout.
- `MaxFailures = 6`: one attempt beyond the five that lock an account.
- `MaxWrites = 4`: a write before the read, two across it, one after the drop.
- `MaxSends = 3`, `MaxPools = 3`, `MaxClients = 2`: a repetition of a repetition; an
  instance made beside another, and its replacement.
- `CacheTtl = 2`: a copy that outlives the one it was made from.
- `MaxRetryAttempts = 3`: the code's own number. `MaxRefreshes = 2`: one more than
  any request gets.
- `ListAttempts = 2`, `RetryAttempts = 1`, `MaxRetryCount = 2`, `MaxUwRetries = 1`: retries
  that happen and end.
- `MaxEdits = 3`: data edited during a check of an edited form. `MaxVersions = 1`: an
  assessment before and after a decision.
- `MaxCopies = 2`, `MaxDecided = 2`, `MaxSubmits = 3`, `MaxSubmissions = 2`:
  the second time that must have a reason. `MaxNewClaims = 3`: a claim made by a repeat
  and one made late. Three `DeskCalls`: the two updates of a press and one of the next.
- `MaxSync = 1`, `MaxTransactions = 2`, `MaxFlight = 1`, `MaxFiles = 2`: one action exchanged,
  two loads, one answer left behind, a file and its successor.

The slots are interchangeable, so `SlotSymmetry` permutes them; no property of these
runs is a liveness property.

**Fairness.** `FairSpec` has weak fairness on `Step(r)`, all that a handler does
after its request arrived. The code justifies it: each `await` of a handler
settles, because statements end by `statement_timeout` (30 s), idle sessions by
their own timeout, and OneShield requests by the client's timeout. Nothing is
assumed about arrivals, crashes, session kills or cache expiry. When the bound
`MaxIssued` is reached a POST can still fail, so that the bound blocks nobody.

In the cluster `Fairness` says that a start that does not fail ends, that messages
are read, that the drain timer fires, that the primary handles exit events and
that a worker notices the loss of its primary. Nothing is assumed of clients: a
connection may stay open for ever.

No other module assumes fairness, and none states that something happens
eventually: messages, answers and users of the other components may stay away.

Deadlock is not checked for the cluster: without its primary the service really
stops. Nor is it in the compositions and the runs of one component: users may stop,
and a behaviour may end at a bound.

## 4. Proofs

`PolicyLifecycleProofs` proves, for any sets of policies, workers, requests,
drafts and updates and any bounds:

| Theorem | Statement |
|---|---|
| `Invariance` | `Spec => []IInv` |
| `TypeCorrect` | `Spec => []TypeOK` |
| `OrderKept` | `Spec => []LifecycleOrder` |
| `NeverCancelledLater` | `Spec => []CancelledAtBirth` |
| `LinksAreExplained` | `Spec => []LinkIsExplained` |
| `ToldOnlyOfBound` | `Spec => []ToldOfBound` |
| `CopiesAreClean` | `Spec => []NoDirtyCopy` |
| `ImplementsLedger` | `Spec => LedgerSpec` |

Assumptions: `AbsentAssumption` (the absent values differ from every value) and
`ConstantsAssumption` (the constants are of their types: drafts and updates are any
set of them, links included; a slot belongs to one worker; the lock's `Free` is no
request). TLC evaluates both on every run.

None of the invariants is inductive: a status is committed several awaits after
it was checked, by a handler whose copy may be stale by then. `IInv` therefore
adds what a handler carries from one `await` to the next:

- `PolicyInv`: a policy without a row has held no status; a committed row has a
  status among those held. (What is known of its link is `LinkIsExplained` itself.)
- `CacheInv`, `SeenInv`: a cached or returned copy is a masked image of a
  committed row -- its status and its link have been the row's, and it shows
  no approver. Since history only grows this stays true as the copy goes stale;
  this is why stale copies cannot break `LifecycleOrder`.
- `LockInv`: who has staged an image holds the row lock, so at most one
  transaction can change a row between a save and a commit.
- `ControlInv`, `UpdInv`, `InstInv`, `StagedInv`: which locals are set at which
  `await`, and that the updates past the check, the saved instance and the staged
  image have a status the history permits. A creation stages the link it was issued;
  an update stages the row's link or one it brings. `StagedInv` survives another
  request's commit because of `LockInv` and because history only grows.

There is one lemma per action (`LookupHitStep`, `SaveStep`, ...). Most rest on
frame lemmas: `LocalStep` (only one slot's locals change), `ThrowStep`,
`EndStep` (handlers and transactions disappear) and `WriteStep`. `ImplementsLedger`
needs in addition that only `Commit` writes the table (`OnlyCommitWrites`) and
that what it writes opens or amends one policy of the ledger (`CommitAmends`).

`ClusterLifecycleProofs` proves, for any number of workers, restarts and faults and
any set of connections:

| Theorem | Statement |
|---|---|
| `ClusterInvariance` | `Spec => []IInv` |
| `ClusterTypeCorrect` | `Spec => []TypeOK` |
| `PopulationKept` | `Spec => []Population` |
| `AnnouncementsAreTrue` | `Spec => []AnnouncedTruth` |

from `CountsAssumption` (there is at least one worker; the bounds are numbers).
`AnnouncedTruth` is not inductive: that a counter has reached the number of a
restart's workers says something only if the counter counts them. `CountInv` says
so: a restart's counter is the number of its workers the primary no longer has.
It survives the exit of any worker because a replacement has a number no restart
asked (`Known` lies within `1..born`), and it makes the announcement true because
a part as large as the whole is the whole (`GonePart`). `Population` needs `Apart`:
an exited worker does not run, so it leaves the list exactly once.

The components are proved in six modules. Each proves, of every component named in its
row and for any sets of slots and any bounds, that the component keeps its types
(`...Typed`, one theorem per component) and the properties the runs check:

| Module | Components | Properties proved |
|---|---|---|
| `EventsProofs` | `PolicyEvents`, `ClaimsEvents`, `EventProducers` | `PassedEventsExplained`, `PassedMessagesExplained`, `ResolvedIsStored` |
| `RequestsProofs` | `RequestPipeline`, `PolicyReads`, `Connections`, `UserAccounts` | `UnansweredExplained`, `StaleCopyExplained`, `OneInstance`, `LockStands` |
| `ServicesProofs` | `ClaimsServer`, `UnderwritingServer`, `Endorsements`, `DocumentStore` | `TransactionsMatch`, `MovesAllowedUnlessRaced`, `ApprovalToldTwice`, `ConflictsExplained`, `StoresAgree` |
| `BackendProofs` | `OutsideCalls`, `Analytics`; `MCBackend` | `EffectsExplained`, the age of a report; `BackTypeOK` and all of the above |
| `WebStoresProofs` | `ApiClient`, `WebSession`, `PolicyStore`, `ClaimsStore`, `WebUnderwriting` | `OneWayToRepeat`, `TokensExplained`, `SpinnerHasCause`, `OneListRequest`, `MarksHaveCause`, `UnderwritingExplained` |
| `WebViewsProofs` | `PolicyPages`, `PolicyForms`, `ClaimsDesk`, `UnderwritingDesk`, `WebDocuments`, `PolicyCard`, `WebDashboard`, `WebUi`, `WebWidgets`; `MCWebClient` | `RefreshNotLost`, `CreatedWasValidated`, `ExtraClaimsExplained`, `SyncingHasCause`, `DecisionsExplained`, `CopiesExplained`; `WebTypeOK` and all the web's properties |

**Assumptions.** Each component's `...Assumption` says that its bounds are numbers, and
besides:

| Assumption | Says | Because |
|---|---|---|
| `PolicyReadsAssumption` | at least one write | the row is created |
| `ApiClientAssumption`, `PolicyStoreAssumption` | at least one retry and refresh; at least one attempt | `MAX_RETRY_ATTEMPTS`, the store's attempts |
| `ClaimsServerAssumption` | the targets are statuses | the validator's enumeration |
| `RiskScoresAssumption` | a score lies within 0 to 100 | the schema of the assessment |
| `ConnectionsAssumption` | at least one Redis client may be made | a bound of 0 would cut the first one off |
| `AnalyticsAssumption` | an entry lives for a tick at least | the lifetime is positive |
| `PolicyStoreAssumption`, `UnderwritingDeskAssumption` | the value for "none" is no slot and no row | it is the model's own |

TLC evaluates them all: `MCBackend` and `MCWebClient` extend the components.

**The composed theorems.** `BackendTyped`, `BackendSafe`, `WebClientTyped` and
`WebClientSafe` are about `BackSpec` and `WebSpec`, the very specifications that TLC
runs: they state the type invariants, the other invariants and the two action
properties of `backend_services` and `web_client`. A step of the composition is a step
of one component and a stutter of the others, so a behaviour of the composition is one
of each of its components (`BackRunsClaimsServer`, `WebRunsPolicyStore`, ...: one lemma
per component), and what a component's specification implies holds in it.

**The inductive invariants.** What had to be added to the types and the property, per
component:

- Policy events. `PassedExplained`: there is a reason for every offset passed since the
  start, committed or not, from the first start on. `WithinLog` orders the offsets;
  `MarkedApplied` ties a marked key to a message that took effect among those passed,
  and says that as many are committed while the consumer is stopped, so that a start
  without a committed offset finds no mark; `Stopped`: a consumer that does not run has
  nothing in hand, and one that never started has passed nothing. A crash forgets the
  marks but not the effects.
- Claims events. `PrefixSettled`: everything below the resolved offset, and below the
  committed one, took effect, failed, was left, or was begun past at a start; `CurrentSettled`: so is everything of a batch below the message
  in hand, which is the least one not dealt with. The least and the greatest
  offset of a batch are `LeastOf` and `GreatestOf`, from the well-foundedness of the
  naturals. `BatchUnderWay`: a message is in hand only while a batch is, and a batch
  only while the consumer runs; before the first start nothing is committed.
- Producers. `OnlyPolicyConnects`: the other two never have a connection, so none of
  their attempts is ever acknowledged.
- Pipeline. `AnsweredInv`: a request whose handler goes on after an answer has been
  answered, and only by the claims or the documents router if its handler records it;
  `KilledOver`: a request a dying worker took along is over.
- Policy reads. The property is inductive together with the types: each step that
  makes the copy old is one of the reasons it lists.
- Connections. `ConnectionsInv` is about the time before anything spoils the pool: a
  call that makes or closes an instance is then alone, the one that connects has the
  only open instance, which the variable does not name yet, and the one that has
  closed leaves none. After a failure or a crossing it says nothing, nor can it.
- User accounts. `LockStands` needs the types only: a save writes the columns in which
  an instance differs from what was loaded, and of the saves but `SetPassword`'s only a
  failed sign-in changes the lock's end, to a running one (`AccountSaves`).
- Claims service. `StackMatches`: the query runner has as many layers as there are
  requests inside their transactions. `TransactionsMatch` follows, but also needs
  what a *single* request may rely on: `RacedPairs` (two requests under way have both
  raced) and `Own` (a request that has not raced finds the row as it checked it, and
  the only layer is its own). That an unraced update stays on the table of
  transitions is `Own` at its write; for an event `Own` has only that the repository
  does not forbid the move. `Carried`: a row, committed or not, has a claim
  at the carrier.
- Underwriting service. `WorkFits`, `DoneFits`: which stages a decision has behind
  it, with a score other than 0 from the moment the code tested it.
- Endorsements. `PairsExplained` extends the property to creations under way, since two
  are already lost when both have looked and neither has inserted. `CacheExplained`
  and `CarrierKnows` tie the cache and the carrier to the rows, `TasksHaveRows` the
  tasks.
- Documents. `Fits`: an upload's content is kept (or was replaced or erased) once it
  was put, and it has its row once that was saved; the other operations work on
  a document with a row. The rows are among the contents kept (`DocumentStores`).
- Outside calls. `OutsideSafe`: while there is no reason to repeat, one call at most is
  awaited, and once the wish was carried out that call is past acting or its caller
  was told.
- Reports. `CallFits`, `EntryFits`: how old a value is *at the end of the lifetime of
  its entry*, per cache. The bound in `AnalyticsTypeOK`, three lifetimes and the
  requests between them, says nothing of what is left of a lifetime and is not
  inductive.
- HTTP client. `SendsCounted` ties the number of sends to the retries,
  `WaysApart` keeps the mark of a refresh and a retry count from meeting in one
  request.
- Session. `LogoutCrossed`: after a logout whatever can bring tokens back came from the
  storage or crossed it, the refreshes under way included; `SignedInHolds`,
  `WillBeRenewed`: held tokens have a timer, a refresh or a logout coming.
- Policy store, claims store. A thunk that is not under way is no cause
  (`IdleIsNone`, `IdleHasNoKind`).
- Underwriting store. `CallShapes`: what a call at each stage is; `LateIsKnown`: a
  request that was given up and may still act is on record. `CachesExplained` and
  `PendingExplained` are the two halves of the property.
- Policy pages. The property is inductive together with the types.
- Policy forms. `SubmittedIsValid`: the version that is being submitted was accepted by
  the form's validation, and later edits do not reach it.
- Claims desk. `ClaimsCounted`: every claim was blamed on a reported failure or made by
  a repeat, but for the one that the submission under way (or the one that ended well)
  was told of, whose documents are in it or left; requests given up leave room for their
  claims. `SyncingHasCause` is inductive together with the types.
- Underwriting desk. `DialogWasPressed`, `TwoAreConfirmed`, `AskedIsUndecided`,
  `AskedWasPressed`: what is known of each decision request under way, before it
  reaches the counts the property is about.
- Web documents. `KnowsOnlyIfUnsteady`: only a card whose properties change schedules a
  retry; `OneAttempt`: without a reason for a copy, one attempt at most is running
  or scheduled, none that would store a file already stored, and no request is left
  at the server that was given up.
- Policy card, user interface, dashboard, widgets. Types, which need more than they
  say: a call that has been answered has read a status; the queue of notices and the
  exchange between the tabs stay within their bounds.

**Not proved**, only model-checked: liveness (`Answered`, `RestartCompletes`,
`Recovers`), because the prover has no rules for fairness and `ENABLED`; and the
counterexamples of the runs that expect a violation, which are behaviours and not
theorems. The proofs speak of the models: that those are faithful to the code is
what the map is for.

## 5. Findings

1. *Illegal transitions.* `updatePolicy` validates a status change against the
   copy `findById` gives it, possibly stale by up to 300 s, and does not check the
   row it loads afterwards (`PolicyService.ts:154`). A row can move along an edge
   which does not start at its status: two updates validated while the policy was
   QUOTED can take it to BOUND and on to ACTIVE, and back to BOUND by the slower.
2. *Lost updates.* `PolicyRepository.update` says "optimistic locking"
   (`PolicyRepository.ts:201,224`) but there is no version; two concurrent updates
   both succeed and the second is saved over columns it never read.
3. *Cancellation impossible.* The approval needed to cancel
   (`PolicyService.ts:238`) is looked up in a copy from which `toJSON()` removed it
   (`Policy.ts:201`): no policy can be cancelled through the service.
4. *Restart with downtime.* The "Zero-downtime restart handler" (`server.ts:67`) asks
   all workers at once to stop accepting and replaces each only after its exit.
5. *Stop without draining.* The handlers for SIGTERM are registered in workers only
   (`server.ts:155`); the container's SIGTERM reaches the primary, which dies of it
   and takes the workers' open connections along.
6. *Dead letters.* "If retries exhausted, send to DLQ"
   (`events/consumers/ClaimsEventConsumer.ts:194`), but the send stands after an `await`
   of the retries that throws when they are exhausted (`:189`): the topic gets the
   messages whose retry succeeded, and those that failed are passed over.
7. *The 404 handler is first.* The technical specification lists
   "/api/v1/policies/{id} | GET | Retrieve policy details" (`Technical
   Specifications.md:638`, under `src/blitzy/documentation`), but `app.ts:112` registers
   `notFoundHandler` before any router (`app.ts:152-188`): an authenticated request is
   answered with 404.

Two more are no departures from a quoted text, but are in the models: an event may give a
row a link of its own (`LinkIsExplained`), and every event of a policy after the
first that was handled is taken for a duplicate, since events are told apart by the
message key, which is the policy's id (`PolicyEventConsumer.ts:127`,
`PassedEventsExplained`).

## 6. Conventions and omissions

- Values have their declared TypeScript types. That JSON turns dates into strings
  in a masked copy is ignored; the documents of a policy are part of what is
  loaded; `createdAt` is supplied. The schema is the Sequelize class's; the SQL
  migration of the same table names its columns and statuses otherwise.
- `circuitBreaker.fire(fn)` is taken to await `fn`. The breaker's open state (a
  call refused without being sent) is a failed POST or PUT, which the model has;
  the breaker's timeout, after which the call runs on in the background, is not
  modelled.
- `findById` starts a transaction for its query when the cache misses
  (`PolicyRepository.ts:135`) and never ends it; the connection this leaks from
  the pool is not modelled (no exhaustion of the pool).
- A name the code uses and defines nowhere is taken as external, with the meaning
  its use gives it: the connection pool's `startTransaction` in
  `PolicyRepository.ts`, and `crypto.constants` in `server.ts:32`, which is not
  imported.
- The HTTP and the HTTPS server of a worker are one: it is `serving` when both
  listen, and drained when both are closed.
- Of Node's cluster: a message waits until the worker has a listener for it; a
  message to a worker that has exited is lost; the list of workers loses a worker
  with its exit event.
- Rows are never deleted: no handler of the service deletes one.
- Retries axios makes below the client repeat a request as `PostRetry` does.
- `findByCriteria` reads without cache or state and is left out.
- Other names that are used and defined nowhere, with the same reading: the query
  runner of `ClaimRepository`, `processMessage` of `ClaimsEventConsumer` (bound in the
  constructor), the policy service's `getPolicy` and `getPolicies` in the web client,
  `logSecurityEvent`. A call of a method that is not defined may succeed or fail.
- Code no other code reaches is left out, or its component says so: `ui` slice's
  `setThemeMode`, `setModal`, `setBreakpoint` and `setSidebarVisible` and the
  `EndorsementForm` are used by no page; `policy.validator.ts` and `utils/dateTime.ts`
  are imported by nothing, `analytics.routes.ts` is mounted by nothing; the billing
  client and the methods of `models/User.ts` have no caller (`OutsideCalls` and
  `UserAccounts` model what they do when called).
- The web modules have one tab; the exchange of actions between tabs is in `WebUi`.
- The loading flag of `useAuth.ts` is not modelled.

**Not modelled**, and why:

- *Backend helpers* (logging, encryption, dates, validation): no state that two
  requests share; where a handler depends on their failure, its module has it.
- *Schema migrations and seeds*: scripts that run once, by hand.
- *Web routes, selectors, styles, validators*: tables and pure functions of what the
  stores hold.
- *Infrastructure*: descriptions for Terraform, Helm and Kubernetes.
- Of most modelled components a part is left out, named in the component's note in
  `PROJECT.json`; the largest are searches, amounts and reports (data that decides
  nothing) and drawing.

## 7. What is left

- *Liveness of the other components.* The consumers make progress only if Kafka
  redelivers, the pages settle only if the server answers; each needs a run of its
  own, without symmetry.
- *The pools.* The connections `findById` leaks and the breakers' open state and
  timeout in `PolicyLifecycle`, once it is known what the pool's `startTransaction`
  is.
- *Composition of `PolicyEvents` and `PolicyLedger`*: an event is an amendment of the
  ledger; a lost one (by its key) is an amendment that is missing.
- *Refinements of the components.* Only the policy service is shown to implement an
  abstract specification; the claims service and the document store each have one
  worth stating (a claim's history; a file that is stored and found again).
- *The carrier*: `told` and `issued` of `PolicyLifecycle` as a refinement of an abstract
  carrier.
