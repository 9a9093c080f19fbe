# TarotFriend: a TLA+ verification project

TarotFriend is a monorepo of services around a tarot-reading product. This
directory holds TLA+ models of its stateful parts and of the rules its answers
follow, the TLC configurations that check them on small instances, and TLAPS
proofs of the results that matter most for every instance. All paths below are
relative to the repository's root (`src/` in `PROJECT.json`).

| Command | What it does |
|---|---|
| `tlc -workers 2 -config X.cfg MCModule.tla` | one of the runs of section 4 |
| `tlapm ModuleProofs.tla` | the proofs of section 6 |

`PROJECT.json` lists the components, the runs, the mutants (one small bug per
checked property, which the property must detect), the lines of code each
definition stands for, the findings, the hazards and the theorems.

## 1. Inventory

### The parts and how they interact

```
 browser ── reading page ── API client ──HTTP──▶ TarotReading backend ──▶ PostgreSQL, Redis, a language model
 clients ──HTTP──▶ CustomerManagement ──▶ PostgreSQL, Redis (sessions, presence, rate limit), Kafka
 services ──gRPC──▶ DataAccessLayer ──▶ PostgreSQL, MongoDB, InfluxDB, Qdrant, Neo4j
                         │  ├─ cache manager ──▶ Redis        (lists, records)
                         │  ├─ write-behind buffer            (in the process)
                         │  ├─ customer view: a fan-out over six engines
                         │  └─ event pipeline ──▶ Redis stream, Kafka ──▶ Subscribe RPC
 packages/shared: event bus, service tokens, health checks
 operators ── migrations, seeds, test users ──▶ TarotReading's PostgreSQL
```

| Component | State it keeps | Operations | Hard behaviour | What makes it correct |
|---|---|---|---|---|
| DataAccessLayer: write-behind buffer (`internal/cache/write_behind.go`, `internal/service/write.go`) | a slice under a mutex; each flush's batch outside it | Add, flush, flushLoop, Close | handlers, the loop and main flush at once; shutdown | no acknowledged write lost or tried twice; drained before the pools close |
| DataAccessLayer: query and write services, cache manager | lists and records in Redis, rows in the backend | Query under 4 policies, Write under 3 strategies, SCAN invalidation, TTL | a reader caches what it read before a write; Redis fails half way through a scan | a stale list has one of the known causes, and goes away |
| DataAccessLayer: IngestStream | two channels, a buffer, a ticker | receive, buffer, flush, end | two goroutines; `select` chooses at random; the client leaves at any time | order kept, answers in position, nothing dropped, goroutines end |
| DataAccessLayer: event pipeline | Kafka writer's queue; Redis stream | EmitEvent, XADD, Produce, Close | fire-and-forget goroutines race the shutdown; one sink fails, or hangs until the context of both is over | a sink misses an event for its own troubles or the shared context only; events arrive |
| DataAccessLayer: Subscribe | `lastID`, a channel | XREAD loop, push, deliver | timeouts, trimming, a slow client | order, no gaps, reader ends |
| DataAccessLayer: customer view (`internal/service/customer_view.go`) | – (its cache is never filled) | fan-out to six queries in 400 ms | any of them fails or is late | a hole shows where its query failed and nowhere else |
| CustomerManagement: sessions and presence (`services/session.service.ts`) | session keys, a set per user, presence in two places | login, logout, refresh, heartbeat | several Redis calls per operation, no transaction, TTLs | the places agree, or repair themselves |
| CustomerManagement: addresses | rows with `isDefault` | create, update, delete | unset-others then write, no transaction | one default at most, and kept |
| CustomerManagement: customers, Kafka producer | the row; `connected` | create, update, softDelete; connect, publish, disconnect | events after the statement, unawaited, dropped while disconnected | the events tell what the row says |
| CustomerManagement: contacts, charts, tags, consents | rows | look up, then write | what was found has gone or come meanwhile | nothing comes back or twice; a consent tells its last decision |
| CustomerManagement: finance | records, never changed | create, list, getSummary | page and total are two queries | page fits total; each record in one sum |
| CustomerManagement: metaphysical profile | – | sign, Chinese year, life path of a date | time zones, dates that do not exist, cycles | agrees with the calendar (on a server not behind UTC, of days that exist) |
| CustomerManagement: server, routes, middleware | – | parse, mounts, limiter, auth, validation, handler, errors | mounts that overlap, `mergeParams` | a request reaches its operation and is told the outcome |
| Rate limiters (both backends) | one counter per client | incr, expire | INCR and EXPIRE are two calls | refused only beyond the limit; windows end |
| TarotReading: reading page, API client, POST /sessions and /readings | page state, current session in localStorage, rows | submit, select, retry, abort, reload; handlers | handlers outlive the request; retries of POST; closures over old renderings | what is shown is stored; extra rows have a cause; the page settles; crisis resources are shown |
| TarotReading: the screens of the page | stage, cards on the table, timers, sections, modal | type, choose, click, toggle, dismiss | promises end after other clicks | the screen waits for its call; every card turns |
| TarotReading: tarot engine | a deck; card details in a cache | shuffle, orient, look up | index arithmetic of a seeded generator; parallel look-ups | distinct cards that exist |
| TarotReading: sentiment, crisis detection, interpretation | – | keyword rules, a model call with a fallback | lists that overlap; an answer with parts missing | distress never hides; the page can read an interpretation |
| TarotReading: users, tokens, reading API | rows, token pairs, the browser's token | issue, renew, check, GET, feedback | a token of before a logout; a retry after a lost answer | served to its user; feedback is accounted for |
| TarotReading: migrations and seeds | tables of cards, spreads, plans | up, reset; four scripts | two runs at once; a run that stops | whole and single tables, with known exceptions |
| packages/shared: event bus | connections, handlers, offsets | publish, on, consume | handlers that throw, restarts | handlers are told |
| packages/shared: service tokens, health checks | – | generate, verify, check | clocks that differ | a token lasts its time |
| DataAccessLayer: router, query builder, other backends, configuration, middleware | none between calls | pure functions, driver calls | – | not modelled, see section 8 |
| TarotReading: database and observability libraries, home page | – | – | – | not modelled |
| CaringService, ShoppingCart, TarotistScheduler, templates | – | health routes | scaffolding | not modelled |
| generated code, deployment | – | – | – | not modelled |

Every hazard, with its line and the properties that watch it, is in
`PROJECT.json`. Some of them the code does not avoid: there the property names
the hazard as the only cause of what it excepts, and the hazard's note says which
definition states the claim without the exception (section 4).

### Observations

What was met while translating the code besides the disagreements of section 4.

DataAccessLayer

- A reader may cache a list after the write that made it stale has invalidated
  the key (`query.go:63`). `StaleOnlyIfOwedOrExcused` marks such a list as
  excused, and `StaleListsGoAway` shows that the TTL removes it.
- Two pages of one list share a cache key (`manager.go:175` hashes the filters
  only), so one page may be answered with another's. `AnswersTheFilters` states
  what remains true: the answer always comes from the right filters.
- The events of acknowledged writes are lost when the process stops before
  their goroutine has run (`grpc.go:93`, `main.go:288`), and two writes of one
  client may be emitted in either order. `Produce` adds a writer to a map that
  nothing guards (`kafka_producer.go:56`), which only an unknown service reaches.
- The key of the session presence is written by nobody, so the view always says
  offline.

CustomerManagement

- The API limiter is mounted on several prefixes (`index.ts`), so a request for
  contacts counts twice, one for consents, tags or addresses two or three times.
- A body that is no JSON, is too large or of an unknown charset, and a path that
  does not decode, are answered with 500: `errorHandler` does not look at the
  status of such errors. `AnswersTellTheOutcome` names these.

TarotReading

- A `ZodError` is not called `ValidationError`, so invalid input is answered
  with 500 (`error-handler.ts:140`) where `backend/tests/contract/sessions.contract.test.ts`
  expects 400, and the API client retries it three times.
- `handleInputSubmit` swallows its error, so the input (`ChatInput.tsx:43`)
  clears a text that was not sent; and through its closure the page may open the
  modal by the session before, whose new one has no resources: scrolling is then
  locked with no modal to be seen.
- POST /readings never passes `user_input` on, so the prompt for sensitive
  readings is never chosen; `getResources` always answers in English.
- `refreshAccessToken` does not look at the status of the account: only the next
  request of a suspended user is refused. The client keeps a token in memory
  that another tab has cleared.
- Feedback has no unique constraint: a retry after a lost answer stores it twice.
- `gracefulShutdown` waits for no request. `db:reset` of `package.json` names a
  script that does not exist.

## 2. Plan

Order, most important behaviour first; all of it is done except what section 8 leaves out.

1. `WriteQueue` (abstract) and `WriteBehind` (detailed), with the refinement and its proof.
2. `EntityCache`: the caches beside the backend; its proof.
3. `IngestStream`, `EventEmission`, `Subscription`, `EventBus`, `CustomerView`, composed in `MCStreams`; 1 and 2 under fairness in `MCDataAccess`.
4. `Sessions`, `RateLimit`, `Addresses`, `ReadingFlow`, `CardDeck`, composed in `MCServices`.
5. `CustomerRecords`, `CustomerRelations`, `Ledger`, `Metaphysical`, `Gateway`,
   `Accounts`, `ServiceTokens`, `Guidance`, `ReadingScreen`, `Seeds`, composed in `MCRecords`.
6. Proofs for the modules above whose invariants have a clear inductive strengthening.

What would come next: an abstract log that each subscriber reads a contiguous
part of, for `Subscription`; the routing table and the query builder as operators
against a reference definition.

## 3. The modules

### WriteQueue, WriteBehind

`WriteQueue` is what callers are promised: an accepted write is settled once,
and the queue closes only when it owes nothing. `WriteBehind` is the code.

- Actors: `Handlers` (gRPC handlers), `Loop` (`flushLoop`), `Main`. `pc` gives
  the place of each; several may be inside `flush()` at once, because the mutex
  covers the swap of `items` and not the writes.
- `Add` is one step under the mutex, with its decision to flush; `Swap`,
  `WriteItem`, `FlushDone` and `Requeue` are the parts of `flush`; `Tick` and
  `LoopReturns` the cases of the loop's `select`; `Sigterm`,
  `GracefulStopReturns`, `CloseManager`, `LoopJoined` and `ClosePools` the end of `main`.
- `log` and `tried` are histories: what `Add` took, what `WriteRecord` was given.
- `MaxErrs` is how often the flush function may return an error. The program's
  only flush function never does (it logs and returns nil), which is `MaxErrs = 0`;
  the requeue branch is checked with 1.

### EntityCache

One entity under each strategy of `cache_config.yaml`. A request is one step per
call it makes. `Ask`, `GetList`, `QueryBackend`, `SetList` are
`QueryService.Execute` under the four cache policies; `WriteRecord`, `SetRecord`, `DelRecord`,
`DelPage`, `ScanDone` are `WriteService.Execute` with `Manager.Invalidate`, which
deletes the record and then scans the list keys page by page. `ExpireList` and
`ExpireRecord` are the TTLs; each Redis call may fail if `RedisFails`. A record is
the number of the write that made it, 0 if there is none. `BufferWrite` and
`FlushItem` are the write-behind path, whose buffer is a sequence here and is
modelled in full in `WriteBehind`.

### IngestStream, EventEmission, Subscription, EventBus, CustomerView

`IngestStream` separates the wire, the receiving goroutine, `recvCh`, `errCh` and
the handler's `select`. `FlushRequest` writes and answers one buffered request.
The client may half-close or cancel at any moment.

`EventEmission` has a goroutine per successful write, the Redis stream, the
queue of the asynchronous Kafka writer, and `main`, which waits for handlers and
not for these goroutines. `Fails` is a failing call, bounded by `MaxLosses`, and
`causes` are the troubles of each event: a Redis that hangs uses up the context
Kafka's call has too, and an XADD whose answer is lost (`AddUnanswered`) is sent
again. The events of `Malformed` cannot be encoded, and reach neither sink.

`Subscription` names an entry by its position. `from` is what a pending XREAD
waits beyond: with `lastID = "$"` that is the newest entry at the time of each
call. The stream keeps at least `StreamMax` entries (an approximate MAXLEN).

`EventBus` is one producer and one consumer group. Kafka is external: a log, a
position, and a remembered offset that lags behind. `EachMessage` and
`CallHandler` are the consumer's callback with its loop over the handlers;
`Restart` begins again at what Kafka has remembered.

`CustomerView` gives each engine a version that may change at any time. A request
looks into the cache first and leaves its view there if `Configured` names it.
`during` is what each engine has had since the request began: the view may show
any of that, or nothing for a query that failed, and nothing else.

### Sessions, RateLimit, Addresses

The functions of these services are sequences of awaited calls; each call is a
step, each may throw, and any number of functions overlap. Excuses a property
needs (a call threw, a heartbeat came late) are histories, each set by one
action, so that a property says exactly which interleavings are to blame. The
sets of a user's sessions keep an id whose key has run out (`expired`).
`RateLimit` has both versions of `cache.incr`: CustomerManagement sets the expiry
with the first increment, TarotReading with each. An INCR may be applied with its
answer lost, and sent again or given up (`IncrUnanswered`), and the server may stop
before EXPIRE (`Stop`): `orphaned` is the counter left without an expiry.

### CustomerRecords, CustomerRelations, Ledger, Metaphysical

`CustomerRecords` is one customer's row with the events that follow each
statement: `FindUnique`, `WriteRow` and `CustomerEvent` are a request,
`Connect`, `Send`, `SendFails` the promise of its event, which nobody awaits, and
`told` what a consumer makes of the topic. A statement may be committed and its
answer lost (`unanswered`), and then makes no event. `GracefulShutdown`
disconnects the producer under the promises that are left.

`CustomerRelations` has the look-up and the write of each call in two steps.
Consents carry the time that was read before the statement.

`Ledger` has the two queries of a paged list, which `Promise.all` sends side by
side, and the sums of the summary.

`Metaphysical` computes, for every date the validation lets through (days a month
does not have, a month 13) on both sides of UTC, what the code does, and compares
with the calendar: the dates on which signs begin, the cycle of sixty years, digits
modulo nine. The reference is the date of the request itself, of a day that exists,
and not the one the code shifts it to.

### Gateway, Accounts, ServiceTokens

`Gateway` sends one request of every shape through the application: the mounts
in their order as a sequence, the routes of each as a sequence of records, and a
step for each middleware. A path is a sequence of segments, so that which mount
takes a request is computed as Express does; one segment does not decode, and is
an error in the first mount or route that looks at it (`PathFails`). A body may be
refused by the parsers (`unread`), and authentication may throw. `Endpoints` is the
reference: the endpoints as the comments above the routes name them.

`Accounts` is one browser and the users of TarotReading: the script that makes
them, the pair of tokens, and a request with its attempts. A token is named by
its user, its type and its last day.

`ServiceTokens` has a clock per service, ahead of the time by at most `MaxSkew`.

### Guidance, ReadingScreen, Seeds

`Guidance` counts the keywords of a text by kind. The kinds overlap as the lists
of the code do (a crisis keyword that is negative too, one that contains a
positive keyword), which is where a score and a level might disagree.
`Generate`, `CallLLM`, `ModelAnswers` and `ModelFails` are the interpretation,
over the parts the model's JSON may have, each missing, of another type, short of
something or as the interface says.

`ReadingScreen` is what the user sees and can press, where `ReadingFlow` is what
the network does: here a call is a promise that is kept or broken at any time.
A timer is a card that may turn; `up`, `timers` and `clicked` are the cards.

`Seeds` runs the scripts row by row in the order of their lists, with the guard
each has (a count that is not zero ends it). `RunMigration` makes and empties the
tables. A draw looks its cards up side by side, through the cache.

### ReadingFlow, CardDeck

`ReadingFlow` is one user with one page. `fetches` lists the HTTP requests in
order; each has a handler of its own that goes on after the client has given the
request up, and a row is named by the request that created it.

| Part of the code | Actions |
|---|---|
| `page.tsx` up to an await | `SubmitInput`, `SelectSpread`, `NewReading`, `CloseModal`, `Reload` |
| `BaseApiClient.request` | `Fetch`, `Offline`, `Break`, `Abort`, `Headers`, `Wake`; the timer is gone with the headers, so nothing ends a body that stalls |
| `page.tsx` after the await | `Session`, `Reading`, and `CallThrows` |
| the handlers of POST /sessions, /readings | `Admit`, `Refuse`, `ExecuteReading`, `CreateRow`, `UpdateUser`, `HandlerFails` |

`closure` is the session that `handleInputSubmit` was rendered with: the code
tests the crisis resources of that one. The answer of the database to a creation
may be lost after it has committed (`lost`). A token that has expired, or a paid
spread without a subscription, is an outcome of `Refuse`.

`CardDeck` is the shuffle, one swap a step, and the orientations. The secure generator may return any
index in range; the seeded one also the index one past the end, when the hash is
2^32 - 1. `edge` records that this has happened.

### Compositions

`MCDataAccess`, `MCStreams`, `MCServices` and `MCRecords` put components that share no state into
one state space: a behaviour chooses a component and runs it, and the others
rest. This is a way to run them, not a claim about their interaction. Where
components do interact the interaction is inside a module: the page with the
client and the handlers (`ReadingFlow`), the writes with the shutdown
(`WriteBehind`, `EventEmission`), the cache with the backend (`EntityCache`), the
row with the producer and its consumer (`CustomerRecords`), the tokens with the
browser and the API (`Accounts`).

## 4. The runs

| Run | Configuration | Distinct states | What it shows |
|---|---|---|---|
| `write_behind_safety` | 2 handlers, 4 writes, MaxSize 2, one returned error | 885 186 | no write lost or tried twice; in order unless flushes overlap; drained before the pools close |
| `entity_safety` | 1 reader, 2 writers, 2 records, 2 queries, 3 strategies, failing Redis | 1 177 880 | stale lists have one of the known causes; answers match their filters |
| `data_access_live` | the buffer with 2 handlers and 3 writes, or the caches with 1 reader, 1 writer, 1 record; fairness | 135 278 | the buffer implements `WriteQueue`; every write is tried and the shutdown ends (`WritesAndShutdownFinish`); no list stays stale for ever |
| `streams` | 3 requests, buffer 2, channel 1; 3 events, one of them malformed, 2 losses; 5 entries, stream 2, channel 2; a bus with 2 handlers, 2 messages, a restart; a view of 4 engines | 156 959 | requests and answers in order; a sink misses an event for its own troubles or the shared ones; no gap after the first entry; handlers are told; a view tells its sources; goroutines end, readers and consumers catch up |
| `services` | 2 sessions of a user; 2 concurrent requests; 3 addresses; 3 HTTP requests with 2 attempts; 5 cards | 656 341 | sessions, presence, windows, defaults, rows and draws; presence runs out, windows end, the page settles |
| `records` | 2 overlapping calls on a customer's row and relations; 3 finance records; every shape of request; dates of 4 years; 4 keywords; 10 cards; 2 seeders; 2 users, 2 days; 2 clocks | 778 766 | the properties of the modules of `MCRecords`, below |

The properties of `records`:

| Property | Of | Says |
|---|---|---|
| `EventsTellTheRow` | `CustomerRecords` | a consumer has the tier and status of the row once nothing is under way, unless an event was dropped, the answer of a committed statement lost, or two events crossed |
| `RelationsHold` | `CustomerRelations` | nothing removed comes back, no tag twice, a consent tells its last decision |
| `LedgerIsRight` | `Ledger` | a page fits its total unless a record came between; each record is in one sum |
| `ProfilesFollowTheDate` | `Metaphysical`, `CustomerRecords` | on a server not behind UTC the profile of a day that exists is that of the calendar; the row's fields are those of the row's date |
| `RequestsAreAnswered` | `Gateway`, `Accounts`, `ServiceTokens` | a request reaches its operation, has one answer that tells the outcome (500 for what cannot be read), is served to its user, and its token lasts its time |
| `InterpretationCanBeRead`, `DistressNeverHides` | `Guidance` | no part the page reads is missing, whatever the model answers; a word of distress never lowers the level or hides the resources |
| `ScreenFollowsItsCalls` | `ReadingScreen` | the screen waits for its one call; no card stays face down |
| `SeedsWhole` | `Seeds` | tables whole and single after the scripts, but for named causes; draws are of distinct cards |

### Disagreements

Runs that end in a counterexample, each a disagreement between the code and what
a document or comment says of it, quoted in `PROJECT.json`:

| Run | Property | What happens |
|---|---|---|
| `write_behind_refused` | `FailedItemsAreReenqueued` | the flush function swallows the error: a write that was refused is pending nowhere |
| `ingest_dropped` | `EndedIsProcessed` | io.EOF overtakes requests that are still in `recvCh` |
| `subscribe_gap` | `NothingMissedWhileWaiting` | entries between two XREADs with `$` are never read |
| `limiter_slides` | `RefusedFairly` | each request renews the window it is counted in |
| `crisis_unseen` | `ReferredWhenDetected` | the page tests the crisis resources of the session before |
| `seeds_place` | `EveryCardHasItsPlace` | the minors begin at the place of the last major, and no card has the place 77: a draw of the last id fails |

More such claims are stated beside the models and have no run of their own: TLC
refutes each when it takes the place of the properties in the configuration named.
Each checked property above excepts what the counterexample shows, by name.

| Claim | Configuration | Who makes it | What happens |
|---|---|---|---|
| `WrittenIsCached` | `EntityCache_safety` | `write.go:81` "Sync write to cache", `dal.proto:19`, `WBS.md:168` | the invalidation of the same request deletes the record it has cached (`write.go:83-96`); `RecordsAreTransient` is what holds |
| `KafkaFailsForItself` | `Streams` | `pipeline.go:42` "to both Redis Streams and Kafka" | a Redis that hangs uses up the context of 5 s that Kafka's call has too (`grpc.go:96`) |
| `ViewIsCached` | `Streams` | `customer_view.go:59` "Results are cached for 2 minutes", `WBS.md:309` | `cache_config.yaml` has no such entity and `Manager.Set` ignores it |
| `FailsOpen` | `Services` | `CustomerManagement/src/api/middleware/rate-limit.ts:43` "Fail open" | a counter whose first INCR or EXPIRE failed has no expiry, and refuses its client for ever (`cache.ts:73-76`) |
| `ListedIsAlive` | `Services` | `session.service.ts:101` "Get all active sessions" | a session whose key has run out stays in the set |
| `LastLogoutClears` | `Services` | `session.service.ts:91` "Check if user has other active sessions" | such a session counts, and the logout of the last live one leaves the presence |
| `ClearedOnlyByTheLast` | `Services` | the same | a login between the count and the clearing |
| `DestroyedIsGone` | `Services` | `routes/sessions.ts:38` "Session destroyed" | a refresh writes the session back |
| `RequestsTimeOut` | `Services` | `api-client-base.ts:76` "abort controller for timeout", `FRONTEND_STATUS.md:14` | the timer is cleared with the headers (`:87`), and a body that stalls is awaited without it |
| `EveryCardExists` | `Services` | `tarot-engine.ts:111` "(exclusive)", `:118` "Normalize to [0, 1)" | the largest hash gives an index behind the deck |
| `InterpretationIsTyped` | `Records` | `api-contracts.ts:43-52`, `data-model.md:207` | the validation tests truth and `Array.isArray` only (`interpretation-generator.ts:177-182`) |
| `SkippedIsSeeded` | `Records` | `seed-spreads.ts:74` "already seeded, skipping" | a run that was stopped between two rows leaves a part, which is skipped too |
| `RowsAreSingle` | `Records` | `data-model.md:377` and its primary keys | two runs at once fill a table twice; `skipDuplicates` has no unique column to skip by |
| `InvalidDatesAreNull` | `Records` | `metaphysical.ts:157` "Returns null if the date string is invalid" | 29 February of a common year is 1 March |
| `BoundariesHold` | `Records` | `tests/metaphysical.test.ts:34-41` | behind UTC a date is read as the day before |
| `WritesProduceEvents` | `Records` | `WBS.md:246` (every write produces its event) | `publish` drops what it cannot send (`kafka-producer.ts:75`) |
| `CommentedPathsAreServed` | `Records` | `finance.ts:44`, `sessions.ts:71` | both are served at another path, and 404 at the one of the comment |

### Bounds, and why they are enough

Each bound is marked `bound:` where it is declared.

- *WriteBehind*: a buffer of two fills while one flush is under way, and four
  writes give two full batches; with two handlers, the loop and main four flushes
  can overlap. Handlers and writes are interchangeable, so the safety run uses symmetry.
- *EntityCache*: one reader meets everything two would, because readers only
  interact through the lists and each property speaks of one list; two writers
  interleave their scans; two queries, one selecting a subset of the other's
  records, tell a key that is not affected by a write from one that is.
  `MaxWrites = 2` allows a list to become stale after it was refreshed.
- *Streams*: three requests fill a buffer of two and leave one behind; a channel
  of one can be full while the receiver holds a request. Five entries with a
  stream of two make the trimming overtake a reader. One event of three is malformed, two losses meet
  both sinks of one event or each of another. Two handlers of the bus can
  be registered for one type before and after an event; one restart may come
  before Kafka has remembered an offset or after. Of the view's engines two stand
  for the four that are asked alike, besides the one behind a cache and Redis.
- *Services*: two sessions of one user are the least that can disagree about
  presence; two concurrent requests and a limit of two reach the limit and go
  beyond it, also after a window has ended; three addresses allow the default to
  move twice. Three HTTP requests allow a session, its retry and a reading,
  or two sessions in a row. The counter saturates at 4, above the limit of 2, where
  its values are alike.
- *Records*: two callers are the least that overlap; the five inputs change the
  birth date to another, to none and to one that is no date; two decisions can
  revoke and grant, or overlap, and the theorem of section 6 covers more. Three records and pages of two give a full page, a short
  one and one beyond the last. Four keywords reach every level from every side,
  since a single crisis word already does. `FourYears` has a leap year, a common
  one, the year the cycles are counted from and one before it. Two seeders
  overlap at every script. A life of one day for the access token and two for the
  refresh token, over two days, have each token expire alone. `AskedIds` are the
  ids beside which the deck is special: the first after the majors' end and the last.
- `MaxRedisErrors`, `MaxCounterErrors`, `MaxDbErrors`, `MaxReadErrors` and
  `MaxLosses` are 1 or 2: a failure during and a failure after another operation.
- `CHECK_DEADLOCK FALSE` in `Streams*.cfg`, `Services*.cfg` and `Records*.cfg`: the
  clients may have done all they are going to do, and these servers then have nothing to do.

### Vacuity

Every passing property has a mutant in `PROJECT.json`: an operator next to the
definition it replaces, marked `mutant:`, with the change a plausible bug would
make. The property fails when the mutant is substituted. An excuse in a property
(`excused`, `raced`, `broken`, `crossed`, `overlapped`, `cut`, ...) is a history
variable that one action sets, at the step that is to blame.

## 5. Fairness

| Assumed of | Fairness | Because |
|---|---|---|
| goroutines, the calls of a limiter | weak | the Go scheduler and the event loop run what can run |
| a case of Go's `select` | strong | it chooses at random among the ready cases, so one that is ready again and again is not overlooked for ever |
| tickers, timers, TTLs | weak | time passes |
| XREAD | weak | it blocks for 5 s at most |
| the callback of a Kafka consumer (`EventBus`) | weak | the client hands on the messages there are |
| the client of `ReadingFlow`: its attempts, timer and pauses | weak | the timer fires until the headers have come |
| logins, logouts, heartbeats (`Sessions`) | none | only the expiry of the presence is needed, whatever became of the calls |
| clients, operators, users, bodies of answers, servers as the API client sees them | none | nobody has to call, answer, leave or stop, and a body may stall |

`PageSettles` assumes, in the property itself, that bodies end (`BodiesEnd`), which
nothing in the client sees to. `KeysExpire` contains `SilentUsersGoOffline`, which assumes
that heartbeats stop and, for the set of who is online, that somebody goes on asking for
the count, since only that request removes old entries; and the end of a limiter's
window, unless its counter has lost its expiry. `EventsAreDone` excludes a consumer that is kept by a message
that is no JSON, which it takes again for ever (`event-bus.ts:114`). The modules
of `MCRecords` have safety and action properties only.

## 6. Proofs

`tlapm` proves these for every value of the constants, from the named
assumption of each module only (`WriteBehindAssumption`, `EntityCacheAssumption`,
`IngestAssumption`, `EmissionAssumption`, `SubscriptionAssumption`,
`EventBusAssumption`, `CustomerViewAssumption`, `SessionsAssumption`,
`RateLimitAssumption`, `AddressesAssumption`, `ReadingFlowAssumption`,
`CardDeckAssumption`, `CustomerRecordsAssumption`,
`CustomerRelationsAssumption`, `ServiceTokensAssumption`, `SeedsAssumption`,
`AccountsAssumption`, `LedgerAssumption`, `GuidanceAssumption`,
`ReadingScreenAssumption`, `MetaphysicalAssumption`): sizes, lives and limits are positive, bounds are numbers,
there is a user, and goroutines, readers and writers have different names.

| Module | Theorem | Shows |
|---|---|---|
| `WriteBehindProofs` | `TypeCorrect` | `TypeOK` |
| | `NoWriteIsLost` | `NoLostWrite` |
| | `CloseDrains` | `ClosedIsDrained` |
| | `PoolsOutliveFlushes` | `NoFlushAfterPoolsClose` |
| `WriteBehindOnceProofs` | `TriedAtMostOnce` | `AtMostOnce` |
| | `WritesStayInOrder` | `InOrderUnlessOverlapped` |
| | `BufferStaysBounded` | `BufferBounded` |
| | `Refinement` | `ImplementsWriteQueue`, for `MaxErrs = 0` |
| `EntityCacheProofs` | `TypeCorrect` | `TypeOK` |
| | `StalenessIsAccountedFor` | `StaleOnlyIfOwedOrExcused` |
| | `RecordsGoWithTheirWriter` | `RecordsAreTransient`, what `write_through` leaves in place of `WrittenIsCached` |
| | `FiltersAreAnswered` | `AnswersTheFilters` |
| `StreamsProofs` | `IngestTypeCorrect` | `IngestTypeOK` |
| | `SentStaysInOrder` | `SentInOrder` |
| | `AnswersInOrder` | `AnsweredInOrder` |
| | `RequestsStayInOrder` | `RequestsInOrder` |
| | `SinksStayIndependent` | `SinksAreIndependent` |
| | `NoEntryIsSkipped` | `NoGapAfterFirst` |
| | `NobodyMissesAnEvent` | `HandlersAreTold` |
| | `ViewIsOfItsTime` | `ViewTellsItsSources` |
| | `StreamsRunTheirParts` | a behaviour of `MCStreams` is one of each component |
| | `StreamsTypeCorrect` | `StreamsTypeOK` |
| `CustomerProofs` | `SessionsAlwaysAgree` | `SessionsAgree` |
| | `LimitIsFair` | `LimiterIsFair` |
| | `OneDefaultIsKept` | `OneDefaultAddress` |
| `ServicesProofs` | `DealIsDistinctCards` | `DrawnAreCards` |
| | `ShownIsWhatIsStored` | `ReadingsAreStored` |
| | `ServicesRunTheirParts` | a behaviour of `MCServices` is one of each component |
| | `ServicesTypeCorrect` | `ServicesTypeOK` |
| `GatewayProofs` | `AnswersAreRight` | `AnswersTellTheOutcome`, a conjunct of `RequestsAreAnswered` |
| | `RequestsReachTheirEndpoints` | `EndpointsAreServed`, another |
| `RecordsProofs` | `RelationsAlwaysHold` | `RelationsHold` |
| | `ConsumersHaveTheRow` | `EventsTellTheRow` |
| | `FieldsFollowTheDate` | `DerivedFromTheDate`, a conjunct of `ProfilesFollowTheDate` |
| | `ProfilesAreOfTheirDates` | `ProfileIsOfItsDate`, the other |
| | `ProfilesAlwaysFollow` | `ProfilesFollowTheDate` |
| | `TokensAreTimed` | `TokensLastTheirTime`, another |
| | `AccountsServeTheirUsers` | `AccountsAreServed`, another |
| | `RequestsAreAlwaysAnswered` | `RequestsAreAnswered`, with the two of `GatewayProofs` |
| | `ScreenWaitsAndTurns` | `ScreenFollowsItsCalls` |
| | `InterpretationsCanBeRead` | `InterpretationCanBeRead` |
| | `DistressIsNeverHidden` | `DistressNeverHides` |
| | `PagesFitTheirTotal` | `PageFitsItsTotal`, a conjunct of `LedgerIsRight` |
| | `SummariesAddUp` | `SummaryAddsUp`, the other |
| | `LedgerIsAlwaysRight` | `LedgerIsRight` |
| | `SeedsAreWhole` | `SeedsWhole` |
| | `RecordsRunTheirParts` | a behaviour of `MCRecords` is one of each component |
| | `RecordsTypeCorrect` | `RecordsAllTypeOK` |

The arguments:

- **WriteBehind.** `TypeOK` is inductive. `ControlOK` ties the places of the
  goroutines to one another (who may be in a flush when the server is stopped or
  closed). `NoLostWrite` needs that a batch holds only writes `Add` took,
  including the ones already tried, because a requeue puts the whole batch back.
  For the shutdown, `ShutdownOK` adds that once `GracefulStop` has returned no
  handler is in a flush, and once the loop is joined only main may be;
  with `NoLostWrite` this gives `ClosedIsDrained`.
  `AtMostOnce` is not inductive: two flushes might hold the same write. The
  strengthening says that the places a write can be in – the buffer, the rest of
  each running batch, `tried` – are pairwise disjoint and free of repetition, which the swap under
  the mutex keeps. The refinement maps `accepted` to the range of `log`,
  `settled` to that of `tried` and `closed` to `~poolsOpen`; `Add` is `Accept`, `WriteItem` is `Settle` because of
  disjointness, `ClosePools` is `Close` because of `ClosedIsDrained`, and all
  other steps stutter.
  For the order, `OrderOK` says that `log` is `tried`, then the rest of the one
  running batch, then the buffer: a flush that starts or goes on moves the
  boundary between two of them. The bound on the buffer counts the handlers about
  to flush, of which there are finitely many because each took a step to get there.
- **EntityCache.** A list is stale, not owed and not excused only if it was put there
  by a reader that read before the last write; a reader that a write has
  overtaken is marked in `raced`, and the invariant carries, for readers on the
  way to caching, that an unmarked snapshot is the current answer. Each write
  makes its own writer owe every key, and a page of the scan pays only for the keys it deletes.
  For the filters, what is under a key, and what a reader is about to put there,
  is made of records that some page with that key selects.
- **IngestStream.** What was sent is `processed \o buffer \o recvCh \o held \o
  wire`; each action moves one request over one of the four boundaries, which
  the lemma `HeadMoves` states once. The answers follow because the
  handler answers in the same step in which it processes, until the client is gone.
- **EventEmission.** `PlaceOK` says what the place of a goroutine tells of its
  event: nothing in either sink before its call, and after it the event is there or
  among its `causes` is one that keeps it away; the context that a hanging Redis
  has used up stays used up. With it XADD adds an event that is not there, or is
  there because an answer was lost (`AddedOnce`).
- **Subscription.** `ReaderOK`: the reader waits with empty hands, its position is
  that of the last entry it has been given, and an XREAD returns a run that begins
  with the first entry there is beyond it. Such a run continues what is in hand, in the
  channel and sent without a gap but for what was trimmed (`Gapless`), and an
  entry that goes from one of them to the next changes nothing of the whole.
- **EventBus.** Every event before a position was handed to each handler that wanted
  it when it came (`ToldUpTo`). It holds of the consumer's position because the
  handlers of the current message take their turns first (`TurnOK`), and of the
  position Kafka remembers, which a restart goes on from, because it is set to
  the consumer's (`PositionsOK`).
- **CustomerView.** While the queries run, what an engine or the list cache has is
  part of what was there during the request (`during`), which only grows; the
  empty parts are those of the queries that failed.
- **Sessions.** Each entry of a user has somebody who is to clear it: the logout to
  come while a session is in the set, else one that has yet to count or to clear
  (`OfflineOK`), unless what is in it has run out. A logout between the count and
  the clearing has seen an empty set, and a login in between is what the history
  remembers (`PresenceOK`). What is in a set is stored, has run out, or is between
  two calls of its logout.
- **RateLimit.** The counter is the number of requests made within the window, or,
  while one of them is on its way to set the expiry, within this tick
  (`WindowOK`); the requests of the last ticks are a prefix of the requests, which
  are kept from the youngest to the oldest. One request at a time opens a window
  (`OpenerOK`), so that only its own loss - a failed EXPIRE, an answer of INCR that did
  not come, a stop - orphans the counter.
- **Addresses.** Until two calls race, a call that is about to set its default has
  left no other one (`RoomForDefault`).
- **ReadingFlow.** `RowOK` says what a handler has done by the place where it is,
  `EndOK` that only the last request may be under way, `CallOK` that the page
  waits for its call and `HeldOK` that what it holds is in the database; a step
  of the client changes no row and a step of a handler takes none back.
- **CardDeck.** A swap permutes the places, so the deck stays injective; the place
  behind the deck stays undefined until an index reaches it, and by injectivity
  no other place is undefined then.
- **CustomerRelations.** Ids are drawn in order, so that a new contact is none of
  the removed ones; what a call has found is a contact or was removed since.
  A decision is later than all that is stored, because the clock goes on with each;
  and unless two have overlapped, the one under way is the only one, so that the
  row it will meet is the row of its look-up.
- **ServiceTokens.** A header is at most one token, made by a service with its
  own secret and clock, or signed with nothing; so a verification compares two
  clocks, each ahead by at most `MaxSkew`.
- **CustomerRecords.** Until two events have crossed, one call or one event is under
  way at most (`OneUnderWay`), and with it the consumer will have the tier and the
  status of the row (`LastEventCompletes`): a statement makes the difference that
  its caller is to publish, and an event, sent however often, takes it away; one whose
  answer was lost is remembered (`unanswered`). A
  row's derived fields are written in the statement that writes its date.
- **Accounts.** `UserOK` is what the middleware has established of a request at each
  stage: whoever is active when the user is looked up was active when the token
  was sent, because no action makes a suspended account active again. `RowsCounted` ties
  the rows a request has created to its attempts: one attempt creates one row at
  most, and a second row needs an answer that was lost. `TokensHaveUsers` is why
  no token is signed for a row that is not there.
- **Gateway.** `Reached` says what the step of a request tells: a call of the
  handler has a user, the token of a service, or is for the one route with
  optional authentication, which is a fact about the ten routers
  (`RoutersAreOK`); no mount reaches `/health` (`HealthIsNotMounted`), so its
  200 comes from the checks, which no longer change then. That a request reaches its
  endpoint is a fact about the lists of routes and one about the way through them:
  no two routes of all mounts take one request (`OneRouteTakesIt`), each endpoint is
  that of one route and each route that of an endpoint (`EndpointsHaveRoutes`,
  `RoutesAreEndpoints`), and none of the mounts and routes a request has passed
  serves it (`OnItsWay`). What an endpoint is asked by decodes (`AskedDecodes`), so that
  no such request ends in `PathFails`.
- **Metaphysical.** A date of the calendar is rolled over to itself, and on a server
  not behind UTC read as itself. The ranges of the signs join
  (`RangesJoin`), so one of them has the date, and the signs begun by then are in
  bijection with an initial interval (`SignNumberIsItsSign`). Adding up the digits of a
  number takes a multiple of nine away (`DigitsLeaveNines`), and three rounds leave
  one digit or a master number.
- **Ledger.** Until a record comes between the two queries, what either has
  answered is about the ledger as it is (`ListingOK`), so that the rows are those
  of the total beside them; and the rows of a page of n records are what its place
  among the `TotalPages(n)` says (`PagesFit`, from `DivAtLeast`). The summary is a
  fold over a list of any length. The fold's function on sets of places exists
  (`LoopExists`) and takes the places in order (`LoopGoesOn`); `SumsAddUp` goes
  through them. Both are inductions, made as the search for a first counterexample
  (`FirstOf`, from the well-foundedness of `<` on the naturals), because the induction
  theorems of the library take an operator and this one takes a set.
- **ReadingScreen.** `ScreenFollowsItsCalls` is inductive with the types: a call begins
  only when none is under way, and leaving a stage clears the table. The layout of
  each spread has a place for every card (`LayoutHasEveryCard`), those of
  the staff of the Celtic cross included.
- **Guidance.** One more word changes each count by at most one (`NumberGrows`). The
  rounded score is below a threshold exactly when a linear inequality over the
  two counts holds (`RatioBelow`, from `DivAtLeast`), and one more negative word
  keeps that inequality; the one positive keyword that is a word of distress is a
  crisis keyword, which decides before the score does.
- **Seeds.** Until a process is stopped, a table with a row has them all or is being
  filled, the rows before the place of whoever fills it are there, and whoever
  has had his turn has left a row (`WholeInv`). Until two meet, a script has one
  process at most and the rows to come are not there (`SingleInv`), so none comes
  twice. `RowsInList` bounds a place by its list. A step of a script does one of
  a few things to one table (`TableFilled`), whichever script it is. `DrawInv` is about the draw, whose cards are told apart by their order.
- **Types.** Most bounds of `RecordsAllTypeOK` are part of the invariants above. Three
  take an argument: a table of the seeds has at most as many copies of a row as there are
  processes, because each copy is of a process of its own (`CopiesCounted`); the rows
  of feedback are at most the attempts times the events (`AccountBounds`); and a score
  is within its hundred because of how it is rounded (`RatioInHundred`).
- **Compositions.** A step of `MCStreams`, `MCServices` or `MCRecords` is a step of
  one component and a stutter of the others, so that what is proved of each
  component holds of the composition the run checks.

Some things of the model are the way they are for the proofs: a router's routes are
taken by their place in the list, `Number` adds up the seven kinds by name, and the
loop of `GetSummary` passes over the records its query does not find, where a fold or
`SelectSeq` would be shorter; and names have no blanks.

## 7. What is only model-checked

- All liveness (`WritesAndShutdownFinish`, `StaleListsGoAway`, `EventsReachKafka`,
  `StreamsSettle`, `KeysExpire`, `PageSettles`): fairness and `ENABLED` are out of
  the prover's reach.
- Nothing about the order or the single trial of writes after an error of the flush
  function: `Refinement` is for the program's, which never returns one (`MaxErrs = 0`).
- The disagreements of section 4: TLC shows them, and nothing is proved about them.

Every invariant of the passing runs is stated by a theorem.

## 8. What is abstracted, and what is not modelled

- Data: records are versions, requests and events are names, filters are the
  records they select; cards are numbers; texts are numbers of keywords; a body is
  what the schemas tell apart. No property speaks of wording or layout.
- Timeouts are steps that may be taken whenever the wait is under way.
- One entity, one stream, one customer, one client of a limiter, one page: the
  code keeps no state that links two of them.
- Databases execute one statement atomically; nothing in the modelled code opens a transaction.
- The crash of a process between two steps loses what it holds in memory; for the
  buffer this is what `BufferBounded` bounds, and the stores outside are as the
  last step left them. The seeds, the bus and the servers stop explicitly.
- `ReadingFlow` leaves out the other pages and tabs of the same user;
  `Accounts` has the token another tab stores or clears.

Not modelled:

- *Configuration, middleware, libraries for databases and observability*: read
  once or wrap a call; no state that another call reads.
- *Storage router, connection pool, query builder, the backends of MongoDB,
  InfluxDB, Qdrant and Neo4j*: pure functions of one request into one call of a
  driver; the modules take what they answer as an outcome.
- *Parts of modelled components*: single queries that change nothing (the lists
  of contacts, charts, tags, consents; the search), a note (one INSERT nothing
  reads), the daily-active counter, the conversation context, options of limiters
  that no limiter sets, `getFallback`, which nothing calls.
- *CaringService, ShoppingCart, TarotistScheduler, the service template*:
  scaffolding with health routes only. *The home page and the shared types*: no state.
- *Generated code and deployment*: not written by hand, or configuration of other programs.
