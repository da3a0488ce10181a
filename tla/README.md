# ServerStats in TLA+

ServerStats is a SaaS for API monitoring.  Services report their API hits over
HTTP; an ingest API authenticates them by API key and publishes them to
RabbitMQ; a consumer process stores them in MongoDB (raw documents) and
PostgreSQL (aggregated metrics); an alerting worker watches the metrics and
notifies people.  This directory holds models of that system, the TLC
configurations that check them and the proofs TLAPS checks.  Source paths below
are relative to `src/server/src/`.

## 1. The system: an inventory

| Component | State it keeps | Operations | Talks to |
|---|---|---|---|
| Circuit breaker (`shared/infra/resilience/circuitBreaker.infra.ts`) | state, failure and probe counters, time of the last failure | `isRequestAllowed`, `onSuccess`, `onFailure` | embedded in the producer and in the consumer |
| Event producer (`shared/infra/messaging/`, `shared/infra/amqpConnection.ts`) | breaker, confirm channel, connection, flags of an attempt to connect | `publishApiHits`, `getChannel`, `connect`, close listeners, drain | RabbitMQ; called by the ingest service |
| Event consumer (`modules/processor/consumer.ts`, `consumerStartup.ts`, `services/processor.service.ts`) | channel, breaker, active messages, armed retry timers | `handleMessage`, `retryMessage`, `sendToDLQ`, `reconnectToChannel`, `stop` | RabbitMQ, Redis (idempotency keys), MongoDB, PostgreSQL |
| Dead-letter consumer (`modules/processor/dlqConsumer.ts`) | channel, statistics | log and discard a dead letter, or send it back if a header asks | RabbitMQ |
| Alerting, API side (`modules/alerting/services/alerting.service.ts`) | collections `alertings`, `alert_fire_logs` | create, update, enable, delete, feed | MongoDB |
| Alerting worker (`modules/alerting/worker/`, evaluator, dispatcher, fire log) | the page and position of its cycle | cycle: page, cooldown, evaluate, dispatch, log, stamp | MongoDB, statistics, HTTP receivers |
| API keys (`modules/client/services/apiKey.service.ts`, `shared/infra/cache/apiKeyCache.ts`, `validateApiKey.middleware.ts`) | collection `apikeys`, cache entries with a TTL | create, revoke, look up, evict a client's keys | MongoDB, Redis |
| Clients and users (`modules/client/services/client.service.ts`) | collections `clients`, `users`, retention cache | sign-up, create, permissions, (de)activate | MongoDB, Redis |
| Authentication (`modules/auth/services/auth.service.ts`, `authTokenCache.ts`) | users, one-time tokens in Redis, JWT cookies | login, onboarding, verify, reset, change password | MongoDB, Redis, mail |
| Authorization (`shared/utils/authorization.utils.ts`) | none | decisions over role and permissions of a token | middleware, services |
| Analytics (`modules/analytics/services/analytics.service.ts`, `modules/processor/repos/`) | table `endpoint_metrics`, collection `apihits` with its TTL index | upsert; overview, top endpoints, time series, drill-down, raw log | PostgreSQL, MongoDB; the alert evaluator reads the overview |
| Audit log, rate limits, list endpoints | none of their own | one write per action, counters of a library, pages | MongoDB, Redis |
| Start, health and end of the processes (`index.ts`, `*Startup.ts`) | connections | sequential start, signal handlers | everything |

How they interact.  A hit is an HTTP request: look up the key (cache, then two
Mongo queries), publish to the main queue, answer 202.  The consumer takes up to
`prefetchCount` messages at once; a message is checked against Redis, inserted
in Mongo (unique `eventId`), added to Postgres, acknowledged, and marked in
Redis.  What fails is retried from a timer that republishes it, or goes to the
dead-letter queue.  The worker polls the rules every minute; the API changes the
same documents meanwhile.

What is hard.  Every `await` is an interleaving point between requests,
messages, timers and channel events of one process, and Redis, Mongo, Postgres
and RabbitMQ are shared between processes.  Channels and connections go and come
back under handlers that hold delivery tags of the old ones; processes are
killed or told to stop between any two steps and Docker restarts them
(`src/server/docker-compose.yml:133`); messages are delivered again; replies are
lost after a statement was applied; caches outlive what they cache.

What makes each part correct:

* breaker: counters of one period never leak into the next, no more probes than
  allowed, silence while open, recovery once the service is up;
* producer: an accepted event (with publisher confirms) is in the queue, at most
  once per attempt; one attempt to connect at a time, and nobody waits for it forever;
* consumer: an event is lost in the known ways only and counted at most once per attempt of
  one upsert loop; every event is stored or dead-lettered in the end; a running consumer
  never stops listening;
* alerting: a breached rule is noticed, the cooldown is kept and the history shows
  the firing it counts from, deleted rules take their history with them;
* API keys: what is revoked stops working, what is usable works;
* accounts: a company has an administrator and a person a company, whatever
  overlaps or fails half-way; onboarding closes behind the first user;
* authentication: a link or a password that is good no more gets nobody in,
  sessions follow what an administrator decides, a user can get verified;
* analytics: what is read out of the rows is what a count of the single upserts
  gives; a reader of the raw log misses nothing.

## 2. Modules, and how they correspond to the code

| Module | Models | Properties |
|---|---|---|
| `CircuitBreaker` | every method of the breaker as an operator on a breaker record, so that other modules can embed one | – |
| `BreakerCalls` | a breaker under overlapping calls that succeed, fail, or never report | `TypeOK`, `CountersOK`, `AtMostMaxProbes`, `ProbesAccounted`, `QuietWhileOpen`, `Recovers` |
| `EventConsumer` (`MCEventConsumer` adds the symmetry) | the consumer process with breaker, handlers, timers, channel, queues and stores | `TypeOK`, `MetricsBounded`, `MetricsCountedOnce`, `MarkedOnlyIfStored`, `OnlyForsakenLost`, `NeverDeaf`, `EventuallySettled`, `StopLeavesNoStoredEvent`, `ProcessedOnce` |
| `Processing` | the contract of the consumer with its stores, abstractly: the life of each event, from its raw document to its key | – (checked as `ProcessedOnce` of `EventConsumer`) |
| `Publishing` | the contract of `publishApiHits`, abstractly: an event is in the queue or not, a call is answered or not | – (checked as `AnswersAreTrue` of `EventProducer`) |
| `EventProducer` | concurrent `publishApiHits` with breaker, retries, channel manager, connection | `TypeOK`, `AcceptedIsDelivered`, `CopiesBounded`, `OneConnectAttempt`, `NobodyWaitsForever`, `ProbesDecide`, `AnswersAreTrue` |
| `Alerting` | rules, fire log, worker, API | `TypeOK`, `RefiresRespectStamp`, `StampsAreLogged`, `AtMostOneOrphan`, `BreachesAreNoticed` |
| `ApiKeys` | keys of one client, their cache, lookups, revocation, switching the client | `TypeOK`, `QuietRevokeIsFinal`, `StaleKeysDieOut`, `UsableKeysRecover` |
| `Accounts` (`MCAccounts` adds the symmetry) | overlapping requests that make companies and people, over the unique indexes | `TypeOK`, `NoUnmannedCompany`, `NoStrayUser`, `OnboardingCloses` |
| `UserAccount` | one user: login, sessions, password, one-time tokens, what an administrator does | `TypeOK`, `LateComersFail`, `SessionsFollowUser`, `EventuallyVerified` |
| `Analytics` (`MCAnalytics` has the hits) | the rows and documents the hits of one client leave, and what is read out of them | `TypeOK`, `StatsFollowUpserts`, `PagesCoverLog`, `LooksBackFarEnough` |
| `BreakerCalls_proofs`, `EventConsumer_proofs`, `EventProducer_proofs`, `ApiKeys_proofs`, `Accounts_proofs`, `UserAccount_proofs`, `Alerting_proofs`, `Analytics_proofs` | – | the theorems of section 5 |

`EventConsumer`, `EventProducer` and `BreakerCalls` all embed the breaker of
`CircuitBreaker`.  `EventProducer` implements `Publishing`: `Contract == INSTANCE
Publishing WITH ...` maps the queue and the answers of the calls.  `EventConsumer`
implements `Processing`: what each event has in Mongo, Postgres and Redis, and whether
a handler is at its upsert, makes up its life.

**Grain.** One action runs from one `await` to the next, with everything the
code does in between.  Node.js runs promise continuations before the next event
of the loop; `EventProducer` needs that (`Quiet`), in the other modules no
property depends on it and every order is allowed.

**CircuitBreaker, BreakerCalls.** The time of the last failure is the bit
`cooled`: a failure clears it, `Cooldown` sets it.  `isRequestAllowed` both
answers and changes the breaker; `Allowed` is the answer, `AfterAsking` the
change.  A call is `normal` or a `probe` while the breaker is in the period that
admitted it, `late` afterwards.  A call may end without a report, as
`handleMessage` does for a duplicate (`consumer.ts:226-232`); `lostProbes` counts
the probes of the current half-open period that did.

**EventConsumer.** A handler is a small machine: `paused` (the breaker said no;
one second, then `nack` with requeue), `check` (`hasProcessed`), `save`
(`createApiHit`), `upsert` (the upsert with its own retries), `mark`.  `chan` is
`null`, `open`, `broken` (dead and not noticed), or `closed` (noticed, or kept by
a `close()` that threw).  A delivery tag is `live`, `stale` (its channel is gone)
or `gone` (another handler settled it): tags start at 1 on every channel and the
code settles on `this.channel` as it is after the await, so a stale tag may
settle another delivery (`SettleOther`), or an unknown one, on which the broker
closes the channel (`SettleUnknown`, counted as a channel loss).  `link` counts the
calls of `reconnectToChannel` (`waiting` for a channel or a delay, `consuming` while
`consume()` is out) and what they have set up on the channel: each registers a close
listener *before* it consumes, so that a channel that closes under a pending
`consume()` leaves two loops, the failed one and the listener's, and both may consume
on the next channel, each with a prefetch of its own.  When the channel closes,
`NoticeClose` either starts the loops or ends the process: on a channel error the
listener of the connection re-emits the error to nobody, and the `prefetch()` nobody
awaits is rejected.  `forsaken` is a history variable: the events a copy of which went
for good, in a timer that died or fired without a channel, or acknowledged on another
handler's stale tag.  Errors are
classified as `isRetryableError` does, including its exception on a numeric
`code`, which is an unhandled rejection and ends the process.  An error of the
Mongo driver's network layer carries no code the function knows: permanent.
`sendToQueue` may answer `false` although the message is sent: then the delivery
is rejected, and dead-lettered, as well.  `handleMessage`'s early returns on a
channel that is null are not reached: a message arrives on a channel.  A start that
fails before anything is connected ends the process and is not seen; one that fails
later leaves it `idle`; if the channel had closed under it, a reconnect loop is left
too, which goes on when nobody runs the consumer any more.

**EventProducer.** `chan` is the manager's channel or the stage of the one
attempt to make it (`dial`, `setup`, `opening`); `conn = "stale"` is a connection
that closed, or never gave a channel, before `connect()` had registered the listeners
that would forget it.  `NoticeClose` is the end of a channel: with its connection, or
alone on a channel error, which the manager re-emits to nobody
(`confirmChannelManager.ts:69`); that throws before amqplib has rejected what waits for
a confirm, so any of these calls may be told and the others are `hung`, as is a call
that waits for the `drain` event.  `Restart` is the end of the process, be it by that
exception (`index.ts:160`) or any other way, and Docker's restart: a new breaker and
channel, and nobody answers the requests there were.  A retry publishes whatever the
breaker says, as the code does.

**Alerting.** `_id` order is the order of creation.  A page is a set of documents
as they were when read.  The clock ticks between any two steps.  A channel's
`dispatch` may reach its receiver or not: it may throw, before or after the receiver
got the message, return without sending, or have no handler.  What the loop does next
is the same, and `channelsNotified`, which nothing computes with, is left out.  A write
of the fire log may fail or lose its reply; either way `recordFire` throws.
SIGTERM does not wait for the cycle, so a shutdown is a process that ends at any
await (`ExitWorker`).  The second step of `deleteAlert` need not happen: the
query may fail or the API process end.

**ApiKeys.** One client, since clients share nothing; every key may write.  An
entry of the cache is the `isActive` of the answer it holds.  ioredis sends the
commands of the process in the order they are issued.  `leaky` is a history
variable: a lookup was between its query for the key and its fill when the key
was deleted, or the delete or the eviction failed.

**Publishing.** What the HTTP layer may rely on (`ingest.service.ts` answers 202
for an accepted event and an error otherwise): a call is answered once; with
publisher confirms an accepted event is in the queue; a call that is rejected
before anything was written never gets its event there.  A call whose confirm was
lost may have been delivered though it failed.

**Processing.** An event is `unseen`, then `counting` from the insert of its raw document
to the end of the one upsert that follows, then `settled`; its key in Redis comes
last and may go again.  An insert or a count whose reply is lost may be the last thing
that happens.  Raw documents live for days, by their TTL index, and are taken not to
expire while a copy of their message is about, as in `EventConsumer`.

**Accounts.** A request is a row of queries, one per `await` (`Plan`); the `_id` of a
company or a person is the request that made it.  `Check` is one of the finds that
look for a collision or for the client, `InsertClient` and `InsertUser` meet the
unique indexes and the validator of `user.model.ts:61-68`, `Rollback` is the
`clientRepo.delete` of a signup.  A query that throws may have been applied
(`QueryFails`), the process may end under all requests (`Crash`).  Who may ask is
decided from the accounts there are: sessions are `UserAccount`'s, and whether a
`client_admin` still has `canManageUsers` is not tracked.  A client id in a path is
one that some list has shown.

**UserAccount.** One user, since accounts share nothing but their requests.  A session
is the permissions its JWT carries; nobody can take it back.  A token is `stored`
in Redis or `gone`; `GetToken` and `DeleteToken` are the two commands of
`AuthTokenCache.consume`.  `late` marks a request that came with a link already
used up, or with a password that was not the user's and has not become it since.
bcrypt's await is merged with the read it follows when the answer is a refusal,
and the two finds of `changePassword` are one.  `permissions` of
`updateUserPermissions` are the merged ones: any of `Permissions`.  The end of the
process is every request failing.  `stormy` is the time in which things may fail;
after it they do not.

**Analytics.** Time is counted in ticks, `Hour` of them to the hour.  A hit has one
endpoint, which stands for service, endpoint and method.  `StoreHit` and
`UpsertMetrics` are the two halves of `processEvent`: the document, and each attempt of
the upsert that is applied.  `applied` counts these: none when every attempt failed or
the process ended between the two, two when the reply of the first was lost.  `_id`s
come in any order, as several consumers make them.  A document expires one of the
`Retentions` after its hit: the current setting, a cached one, or the default.  The
reader of the raw log starts over when it gets no cursor; `from` is what there was on
its first page.  The narrowest buckets are one tick wide.  `date_trunc('day')` works in the database's time zone, taken to be UTC.

**Abstractions.** Payloads, formats, statistics, logging, statuses and wording are
left out; an event is its `eventId`, an error its class, a rule its cooldown.
In `EventConsumer` the buckets of `endpoint_metrics` are merged: `metrics[e]` is what event e added to them,
and raw documents do not expire; both are modelled in `Analytics`.  `losses`,
`kills`, `signals`, `exits`, `switches`, `nacks`, `published`, `clock`, `now`, the
requests, tokens and `_id`s have bounds, all named by the constants of their module;
`MaxConsumeLosses` allows more losses under a pending `consume()`, and
`MaxDisturbances` bounds losses, kills and signals together.

## 3. What the runs check

| Run | Instance | Shows |
|---|---|---|
| `breaker_overlap` | 4 calls, threshold 3, 2 probes | counters, probe limit and accounting, silence while open, recovery unless a probe was lost |
| `consumer_faults` | 2 events, 2 handlers, 1 channel loss and 1 more under a pending `consume()`, 1 kill, 1 signal, at most 2 of these together, starts that fail, failing stores, lost replies of Postgres | types; the count of an event is bounded by the attempts of one upsert loop; the contract of `Processing`; events are lost in the three known ways only; a running consumer listens or is about to; a shutdown that drains leaves no stored event in the queue |
| `consumer_settles` | 3 events (1 malformed), 2 handlers, database faults, Redis failing, backpressure, a process that stays | everything is stored or dead-lettered in the end |
| `consumer_crash_loop` | 1 event, 1 kill | refutes the README's "everything else goes to the `_dl` queue" (section 6) |
| `alerting_faults` | 1 rule, 2 channels, cooldowns 1 and 2, 3 ticks, failing channels, Mongo and statistics, 2 exits | types; no dispatch inside the stored cooldown; no stamp the history does not show; at most one orphaned entry; a rule that stays breached is noticed |
| `alerting_lookahead` | 2 rules, pages of 1 | refutes the last with more rules than a page holds (section 6) |
| `producer_faults` | 3 calls, both modes, threshold 2, 2 probes, 1 retry, 2 losses, 1 nack, backpressure | the contract of `Publishing`; accepted is delivered, at most once per attempt; one attempt to connect, for which nobody waits forever; probes decide |
| `apikeys_faults` | 1 key, 2 lookups, 2 switches, Redis and Mongo failing | quiet revocations are final; stale answers die out; usable keys recover |
| `accounts_overlap` | 3 requests of any kind, 1 slug, 2 emails, 2 usernames, failing queries, lost replies, process ends | a signup leaves no company without its administrator unless its own clean-up was cut off; a person's company exists unless it was taken back meanwhile; onboarding closes behind the first user |
| `user_account` | 2 requests of any kind, 1 token, 2 passwords, 2 sets of permissions, a storm | late links and passwords get nobody in; sessions follow the account; who goes on asking is verified |
| `analytics_reads` | 2 hits over 4 hours and 2 days, upserts applied up to twice, documents that expire, pages of 1 | every statistic for every range equals a count of the single upserts; drill-downs add up to the series; pages cover the log |
| `analytics_lookback` | 2 hits | refutes "how far back to look" of a threshold rule (section 6) |

**Why the bounds are enough.**  Three or four calls cover a call of each period
(normal, probe, late) next to a fourth; the thresholds exceed 1, so that a
counter can be between zero and its limit (but in `consumer_faults`, none of whose
properties is about the breaker).  Two handlers are the least that can
race for an insert, settle each other's tags or share a breaker; one loss beyond
what a handler survives makes a tag stale and then unknown.  Two events are the
least for a tag to settle the wrong message.  `postgresUpsertRetryAttempts = 2`
has a middle and a last attempt.  Two channels have a first and a last; cooldowns
1 and 2 on three ticks are inside and outside.  One retry has an attempt with a
retry and one without.  One key suffices because keys meet only in the eviction
of a client's keys, which treats each on its own.  Three requests are a signup, a
user who joins its company meanwhile, and one that collides with either; one slug
makes every pair of companies collide, two emails and usernames let people collide
in one and not in the other.  Two requests are the least that can hold the same
token or the same document; two passwords and two sets of permissions tell old from
new.  Two hits meet in one row or stand beside each other, in another hour, day or
endpoint, and an upsert applied twice meets itself; the clock starts within an hour.
One loss under a pending `consume()` makes two loops, two listeners and two consumers.

**Fairness.**  Weak fairness on promise continuations, timers and commands in
flight: Node runs them, and every client library answers or throws.  The broker
delivers each ready message (strong fairness, as the prefetch and the channel
come and go).  Docker restarts the consumer and the worker.  A user
who wants to be verified asks for a link again and again and follows the newest one
before the 24 hours of its token are over (strong fairness, as requests come and
go); Mongo, Redis and mail work once the storm has passed.  An attempt to connect
ends, one way or the other, a dead connection is noticed (heartbeats), a cooldown
and a TTL go by.  No fairness is assumed of other requests, operators, faults, signals,
kills or the network.

**Deadlock** is checked except in `accounts_overlap`, `analytics_reads` and
`analytics_lookback`, whose requests and hits run out.

## 4. Hazards

`PROJECT.json` lists each hazard of this code at its line with the properties
that would catch it.  They fall into: handlers that resume on a world that has
moved on (channel, page, cache); messages and statements that happen twice, or
half; shutdowns and kills between two steps; promises nobody resolves; cursors
and counters at their limits; checks that others overtake before the write they
guard; a token or a session that outlives the reason it was given for.

## 5. What is proved

All theorems hold for every value of the constants that satisfies the `ASSUME`s of
the modules (finite sets of calls or handlers, natural bounds, thresholds above
zero).

| Theorem | Module |
|---|---|
| `BreakerTypeCorrect`, `BreakerCountersOK`, `BreakerProbesBounded`, `BreakerProbesAccounted`, `BreakerQuietWhileOpen` | `BreakerCalls_proofs` |
| `ConsumerTypeCorrect`, `ConsumerMetricsBounded`, `ConsumerMetricsCountedOnce`, `ConsumerMarkedOnlyIfStored`, `ConsumerKeepsContract`, `ConsumerNeverDeaf`, `ConsumerLosesOnlyForsaken`, `ConsumerStopLeavesNoStoredEvent` | `EventConsumer_proofs` |
| `ProducerTypeCorrect`, `ProducerOneConnectAttempt`, `ProducerCopiesBounded`, `ProducerAcceptedIsDelivered`, `ProducerKeepsContract` | `EventProducer_proofs` |
| `ApiKeysTypeCorrect`, `ApiKeysQuietRevokeIsFinal` | `ApiKeys_proofs` |
| `AlertingTypeCorrect`, `AlertingRefiresRespectStamp`, `AlertingAtMostOneOrphan`, `AlertingStampsAreLogged` | `Alerting_proofs` |
| `AccountsTypeCorrect`, `AccountsNoUnmannedCompany`, `AccountsNoStrayUser`, `AccountsOnboardingCloses` | `Accounts_proofs` |
| `UserAccountTypeCorrect`, `UserAccountLateComersFail` | `UserAccount_proofs` |
| `AnalyticsTypeCorrect`, `AnalyticsPagesCoverLog`, `AnalyticsStatsFollowUpserts` | `Analytics_proofs` |

Each rests on an inductive invariant, proved initial and kept by every action:

* `BInv`: the properties themselves plus `ProbesCounted`, *every probe in flight
  has been counted*: the limit on probes in flight follows from the limit on the
  counter, and without it a period that ends could strand probes uncounted.
  Lemmas say what each operator of `CircuitBreaker` does to the counters; consumer and
  producer have theirs for the breaker they embed.
* `CInv`: a handler past the raw insert (`upsert`, `mark`) has its event in Mongo;
  at most one handler is at `upsert` per event, with the count so far bounded by
  its attempts; an event with nobody at `upsert` is never counted again.  The
  unique index lets one handler in; nothing a crash, a stale tag or a second copy
  does lets in another.  Nor is anybody at `upsert` for an event that another handler is
  about to mark.  Lemmas say once what settling, failing, exiting and
  detaching do to the other handlers (`Kept`).
* `LinkKept`: no step of a handler touches the loops that reconnect; with it `NeverDeaf`
  is inductive beside `TypeOK`: who takes the last consumer or listener away leaves a
  loop at work, and a loop ends only when it has made a consumer.
* `PublishedSafe`: an event the producer published is stored, dead-lettered, waiting in
  the queue or a timer, held by a handler whose delivery is outstanding, or forsaken.
  What a handler lets go of must be in one of the other places by then; a handler with a
  stale tag may settle what it does not hold, so the invariant speaks of outstanding
  deliveries, more than `OnlyForsakenLost` asks.  It rests on `Attached` (deliveries
  are outstanding on an open channel only), which `Dwindles` keeps: every step but
  a delivery leaves no more of them, and none when the channel goes.
* `NInv`: an event that is published once is unknown, or waits once in the queue or a
  timer, or is held by one handler, or is over; what waits is not stored, so the retry
  never meets the unique index; a process that has exited has no handler at work.
  What is invariant is `UnlessDisturbed`: `NInv` as long as no channel has been lost
  and nobody has killed the process, under `Gentle`: nothing is published twice, Mongo
  has no numeric code but that of its index, and a shutdown drains in time.  From it
  follows `ConsumerStopLeavesNoStoredEvent`, with signals and losses at will (the
  property speaks of the states no loss and no kill has led to).
* `PInv`: while an attempt to connect runs exactly one call makes it; a message is
  in the buffer at most once and only for a call that waits for it or has stopped
  waiting, so that copies in queue and buffer stay below the attempts; a call that
  waits for its confirm with an empty buffer has its message in the queue.
* `KInv`: no revocation is about to delete a key that is deleted; a key whose
  revocation left no way back has no lookup between query and fill, since only a
  document that is there sends a lookup on.
* `LInv`: a document of the page holds the stamp its rule has now, unless the rule is
  gone; a page has one document of a rule; who is evaluated or dispatched was out
  of its cooldown when it was checked, and time only takes it further away.  A rule
  that is deleted and whose history has gone has at most one entry, and none as long
  as a page still holds it.  `SInv` adds that the rule about to be stamped has its entry,
  unless it is deleted, and a deleted rule does not come back.  That a page is not
  empty and has a next cursor (`FetchPage`, `NextCursor`) rests on lemmas about the
  newest and the n-th newest element of a finite set.
* `AInv`: a signup under way has its company from the insert to the end of its
  rollback; a request that has made its user has nothing left to do but to take back
  its company; a person's company was there when it was looked for and is gone only if
  its signup, not answered then, has taken it back since; an onboarding past its check
  found no user among those that had been answered.
* `UInv`: a request that is late is still before its first answer, with a password that
  is not the one of the user or a token that Redis does not know; a token that was good
  for somebody is stored no more.
* `TInv`, `RowsExact` (analytics): a row has as many hits, as many errors and as much
  latency as the upserts applied for its endpoint and hour together, its least and
  greatest latency are those of some of them, and there is a row for each endpoint and
  hour counted and no other.  Every hit an upsert merges keeps it (`SumsUpOneMore`).  What is
  then read out of the rows is a sum over rows, what it is compared with a sum over
  upserts: `RowsAddUp` says the one is the other for any set of rows a filter picks,
  `SeriesExact` that truncating an hour to its day is truncating the hit's time to it,
  `DrilldownsAddUp` that no hit of the range falls between the rows.
  The sums are the community module's, folds that take the elements in an order nobody
  knows; that the order does not matter, that a sum splits by classes and that it is
  the number of elements when every element adds 1 are lemmas.  They are what an
  induction over finite sets would give; as the provers cannot apply one, each takes a
  least set for which it fails (`LeastSubset`, from the library's well-founded
  orderings) and finds a smaller one.  A reader of the raw log is the third invariant:
  it has been shown everything at or above its cursor that was there all the time, and
  what was there on its first page and is below the cursor is still to come, in
  whatever order `_id`s are made.
* `ProducerKeepsContract` is the refinement: `PInv` says where the message of a call
  may still be, from which every step of the producer is a step of `Publishing` or a
  stutter (`ContractInit`, `ContractStep`).
* `ConsumerKeepsContract` is the other: from `CInv`, every step lets each event live on
  as `Processing` says (`Lives`).  The contract moves events independently, since the
  end of a process gives up all that its handlers were counting at once.  A step that
  leaves the stores alone and starts no upsert is a stutter or a giving up
  (`QuietLives`); an attempt of an upsert is a count of its own event and of no other
  (`AttemptLives`).

Two invariants are proved only.  `MetricsCountedOnce` speaks of a Postgres that loses
no reply, which no run assumes; `MarkedOnlyIfStored` follows from the contract.

**Only model-checked:** the liveness properties (`Recovers`, `EventuallySettled`,
`BreachesAreNoticed`, `NobodyWaitsForever`, `ProbesDecide`, `StaleKeysDieOut`,
`UsableKeysRecover`, `SessionsFollowUser`, `EventuallyVerified`), which need fairness
and ENABLED.  Every other property of a passing run is proved.

## 6. Where the code and its documentation disagree

Three runs are expected to find a violation:

* `consumer_crash_loop`: a process killed between the raw insert and the
  acknowledgement gets the message again, meets the unique index, and
  `isRetryableError` (`shared/utils/infra.utils.ts:7`) calls `toUpperCase` on the
  numeric code 11000.  The rejection is unhandled, the process exits, and the same
  message awaits the next one: neither stored anew nor dead-lettered.
* `alerting_lookahead`: `findEnabled` hands out the `_id` of the look-ahead
  document as cursor and the next page asks for smaller ones: the first rule after
  each page is never evaluated (`modules/alerting/repos/alerting.repo.ts:84`).
* `analytics_lookback`: `lookback_minutes` is "how far back to look"
  (`alertEvaluator.service.ts:12`), but the rows of `endpoint_metrics` begin on the
  hour and `getOverviewStats` asks for those that begin in the window: the hits of
  the hour in which the window begins are missing.  At five past the hour a rule of
  60 minutes sees five of them.

**Observations.**  The models also contain the following, each reproducible by
checking the property on the constants given; no run is spent on them.

*Consumer and producer*

* `OnlyForsakenLost` without its last disjunct fails: `retryMessage` acknowledges a
  message whose only copy is then a timer (`consumer.ts:341-349`), which dies with a
  kill, with a shutdown (`stop()` does not wait for timers), or fires when there is no
  channel; and after a reconnection a stale tag acknowledges another event.
* The `close` listener is there before `consume()` is answered (`consumer.ts:124-129`),
  so a channel that closes under a pending `consume()` starts a second loop while the
  first goes on (`consumer.ts:137-150`).  Both may end up consuming on one channel, each
  with a prefetch of its own and a listener of its own: the next loss starts two loops,
  and every further loss under a pending `consume()` adds one.  When both call
  `consume()` in one millisecond the `consumerTag` is the same (`consumer.ts:164`) and the
  broker closes the connection.
* `ConsumerSettles.cfg` with `StartMayFail = TRUE`: `EventuallySettled` fails.
  `EventConsumer.start()` swallows its errors and stops the consumer, the startup loop
  (`consumerStartup.ts:44`) takes that for a success and returns, and what is still
  connected, such as the AMQP connection `stop()` does not close, keeps the process
  alive: it consumes nothing and nobody restarts it (`proc = "idle"`).
* With Redis failing, a second copy of an event crashes the process the same way
  as in `consumer_crash_loop`; `redisIdempotencyStore.ts:18-21` expects a
  duplicate write at worst.
* `Recovers` without its last disjunct fails: a duplicate skipped as a probe never
  reports, and when the probes are spent HALF_OPEN admits nobody and is never
  left.
* In the default mode, without confirms, a call that waits for `drain` on a channel that
  closes is never answered (`hung`), though "the HTTP layer only validates and publishes to
  RabbitMQ, then returns immediately" (`src/README.md:33-35`).  `NobodyWaitsForever` is
  about the attempt to connect only.
* A confirm channel that ends by an error has it re-emitted by a manager nobody listens
  to (`confirmChannelManager.ts:66-70`): an uncaught exception, on which the API process
  shuts down gracefully, waiting for the open requests, some of which are `hung`.
* A connection that closes before `connect()` has registered its listeners, because no
  channel could be made or the queues could not be declared, stays (`conn = "stale"`):
  every later attempt reuses it and fails (`amqpConnection.ts:120-126`).
* A dead letter is discarded unless its header `x-requeue` is set, which nothing in
  the repository sets; one that is sent back is mostly the wrapped letter, which
  the main consumer rejects as malformed (`dlqConsumer.ts:79-121`).

*Alerting*

* A channel without an address is listed as notified though nothing is sent:
  `webhook.channel.ts:47-49` and `email.channel.ts:93-101` return, and
  `alertDispatcher.service.ts:43-44` adds whatever has returned.  So `channelsNotified` of
  an entry says which channels did not throw, not which were told.
* When the fire log entry cannot be written, or its reply is lost, there is no stamp
  either, and the next cycle notifies again.  When every channel fails, the stamp is set
  all the same.
* Summary rules fire whenever their cooldown has passed (60 minutes by default),
  not daily or weekly (`alertEvaluator.service.ts:44-65`).
* `src/README.md:129-130` says that the alerting worker is not wired into compose yet;
  `src/server/docker-compose.yml:144-153` starts it with `restart: unless-stopped`, which
  is what the fairness of its restart rests on.
* The cursor of `findEnabled` is used by `user.repo.ts`, `client.repo.ts`,
  `alertFireLog.repo.ts` and the audit log's repository too: their lists skip the
  first document after every page.  `findRawLogs` does not.

*API keys, accounts, sessions*

* `RevokedKeyStopsAtOnce` of `ApiKeys` fails: a lookup that read the key before the
  delete fills the cache after the eviction, and the key works until the TTL, which
  the comment at `apiKey.service.ts:172` excludes.  `setClientActive` returns before
  the eviction it starts has evicted anything.
* Two onboardings that overlap both find no user, and both make a super admin.  A
  public signup before the first onboarding closes it for good: `findIfAnyExists(true)`
  asks for any user, though the refusal says "Super admin already exists."
  (`auth.service.ts:90`).
* A signup cut off between its two inserts leaves a company whose slug is taken.
* `register` gives no `clientId`, and the validator of `user.model.ts:61-68` wants one
  for every role but `super_admin`: other registrations always fail.
* Two requests that come with the same link at the same time both find the token:
  "atomically" (`authTokenCache.ts:12`) is two commands.  `LateComersFail` holds for
  those that come later.
* `changePassword` compares with what it has read and writes after hashing: it may
  overwrite a reset that came between.  Two updates of permissions that overlap lose
  one, as the object is merged in memory.  A deactivated user's sessions act until
  their JWT expires; that is why `SessionsFollowUser` is a liveness property.

*Analytics*

* A series up to three hours is read from documents, which expire and exist even
  when the upsert failed, a longer one from rows: the two may differ.
* An upsert whose reply is lost is tried again and counted again
  (`processor.service.ts:88-102`): the figures of a range may exceed its hits by as many
  as there are attempts less one for each.  `StatsFollowUpserts` compares them with the
  upserts applied, `MetricsBounded` bounds those.
* `deleteOldApiHits` has no caller in use: documents go by their TTL index only.

## 7. What is not modelled, and why

The dead-letter consumer acknowledges what it receives and keeps no state.  The audit
log only writes what nothing decides on.  Rate limits live in a library.  Routes,
controllers, DTOs, mail and message formats, migrations and configuration keep no
state.  Starting and stopping the API process is sequential.  Not modelled inside the
components above: `updateClient` and the lists of clients, users and keys; `logout`,
which clears a cookie; the decisions of `AuthorizationUtils` other than the guards of
`Accounts`; averages, rates, the order and length of the top lists, the CSV export and
the list of services; the merge of permissions that loses one of two updates;
`channelsNotified` of a fire log entry; the fields of a rule other than its cooldown;
`EventProducer.shutDown`, which nobody calls; a cooldown that is not a number; the age
of the process in the default `expiresAt` of a key.

## 8. Plan

Done, in this order: breaker, consumer, alerting, producer, API keys, the contract
of the producer and its refinement, analytics, accounts, a user's account; each with
its configuration and its proofs, and the contract of the consumer with its refinement.
Next: what the two contracts say together, of an event from the answer of the HTTP
layer to its rows.
