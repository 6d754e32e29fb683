# TLA+ models of timelynotify-server

timelynotify-server pushes notifications to iOS (APNs) and HarmonyOS (Huawei
Push Kit) devices, keeps a history of what it pushed, streams that history live
over WebSocket, and lets clients mirror it over HTTP. This directory holds TLA+
modules for the parts of the server whose correctness lies in the order of
things, TLC configurations that check them on small instances, and proofs, which
`tlapm` checks, of the safety properties of the history store, the live stream, the
start of the server, the pushes and their registry, the rate limiter and the calls
of the HarmonyOS push service, for all values of their parameters.

    tlc -workers 2 -config store_safety.cfg MCGotifyStore.tla
    tlapm GotifyStoreSafetyProofs.tla

`PROJECT.json` says for every definition which lines of the source it models, for
every run what it shows, for every property one mutation of a definition that
breaks it, and at which line of the code each hazard bites.

## 1. The system

| Part | Source | State it keeps | Operations |
| --- | --- | --- | --- |
| Message history | `internal/gotifycompat/store.go`, `deletions.go`, `model.go` | the bbolt buckets `messages`, `dev_msgs`, `ttl`, `meta`, `deletions`, `del_dev`, `del_dev_msg` | add, overwrite by `extras.id`, five kinds of removal, pruning of the log, paging reads |
| History service | `internal/gotifycompat/service.go` | the store, the hub, one maintenance goroutine | publish, ttl sweep (1 min), retention sweep (24 h), close |
| Incremental sync | `route_gotify.go` | none; two read transactions for each answer | `GET /:device_key/message` with `after`, `since`, `deletedSince` |
| Live stream | `hub.go`, `route_gotify.go` | subscribers, their channels of 32, the gauge `active_streams` | subscribe, publish, unsubscribe |
| Push pipeline | `route_push.go`, `gotify_publish.go`, `internal/pushpolicy` | none; a request's targets and results | push, push with `delete=1`, batch |
| Device registry | `database/*.go`, `route_register.go` | (key, platform) to token, in three record formats | register, clear a dead token, look up |
| Huawei token source | `harmony/token.go`, `client.go` | the cached JWT | sign, invalidate, retry once |
| Rate limiter | `internal/ratelimit` | a token bucket for each key | allow, evict idle keys |
| Memory history | `store.go` (`memoryStore`) | the same as maps and slices, for one process | the same; an export that locks anew for each message |
| Start and end | `main.go`, `service.go` (`Init`), `token.go`, `instance.go`, `bbolt.go` (`bboltSetup`) | two file locks, client token, instance id | start, fallback to memory, token bootstrap, shutdown |
| The rest | router, auth, MCP, logging, metrics, markdown | none that others read | dispatch and formatting |

How they interact. A push looks its device key up in the **registry**, stores one
copy of the message in the **history** through the **service** (which hands it on
to the **hub**, after the transaction), calls the **push services** of all targets
at once, and clears the tokens they call dead. A delete request calls them one by
one and then removes the history's copy by `extras.id`. The **sync** handler reads
the history and its deletion log for a client that keeps two cursors. The
**maintenance** goroutine removes messages whose ttl has passed and prunes the log
behind everybody's back. Requests pass the **rate limiter** of their address first; a
batch becomes a push for each key, and all HarmonyOS pushes of the process share the
**token source**'s JWT. A process that **starts** waits for the registry's file, gets
the history's file or falls back to the **memory history**, and settles which client
token it accepts.

What is hard, and what makes each part correct:

* **History.** Six ways of removing a message each keep four buckets and a count
  in step by hand; a client that was away must still learn of every removal, also
  when the log was pruned in the meantime, the clock was set back or the process
  restarted; ids must never be used again, because they are the clients' cursors.
* **Sync.** The page of messages and the page of deletions come from two
  transactions; requests get lost and are repeated with old cursors; the log is
  pruned in between. The client must neither keep a deleted message for good nor
  miss one, and converge once things calm down.
* **Stream.** Publishers run in parallel under a read lock; streams come and go
  under the write lock, and close the channels that publishers send to; a peer
  may vanish without a word. No send on a closed channel, nothing lost but at a
  full buffer, order kept, dead subscriptions removed.
* **Push and registry.** The token a push has read may be replaced while the push
  service answers; one platform may fail while another succeeds; records of older
  releases are still read. The answer must tell the truth, a valid token must not
  be cleared, and each operation must touch the record it names and no other.
* **Token source and batch.** Calls refresh and empty one cached JWT under each other's
  feet; an answer may get lost after the message was accepted, and a call is tried
  again after one answer only. No message may go out twice, no call may meet an
  expired JWT, and the answer to a batch must account for every item.
* **Rate limiter.** Idle addresses are forgotten and begin again with a full bucket;
  that must not give anybody more than the budget.
* **Start and end.** A process may be killed between the two transactions and the log
  line of a new token, and the next may start while the last still holds the files.
  The token in use must be known and last, clients must be able to tell histories
  apart, and a start must come to serve.

## 2. The modules

| Module | What it is |
| --- | --- |
| `GotifyStore` | the bbolt history store as the service drives it, its restarts and its clock |
| `SyncClient` | extends `GotifyStore`: the sync handler and one client of the protocol |
| `StreamHub` | the hub, its publishers, the stream handlers |
| `DeviceRegistry` | abstract: what the interface `Database` promises |
| `BboltRegistry` | the bbolt device database and the refinement mapping to `DeviceRegistry` |
| `PushDelivery` | extends `BboltRegistry`: requests, push services, renewals and registrations |
| `MySQLRegistry` | the device table on MySQL |
| `MemoryStore` | the history in memory, and the refinement mapping to `GotifyStore` |
| `ServiceStart` | start and end of server processes on one data directory |
| `Clock` | the monotonic clock |
| `RateLimiter` | extends `Clock`: the token buckets |
| `HarmonyToken` | extends `Clock`: the cached JWT and the calls that present it |
| `PushTraffic` | composes `RateLimiter` and `HarmonyToken`: middlewares, batches, answers |
| `MCGotifyStore`, `MCMemoryStore`, `MCServiceStart`, `MCSyncClient`, `MCStreamHub`, `MCPushDelivery`, `MCPushTraffic` | declare the model values and constants of the `.cfg` files |
| `GotifyStoreProofs`, `GotifyStoreSafetyProofs` | theorems about `GotifyStore` |
| `SyncClientProofs` | theorems about `SyncClient`, on top of the store's |
| `StreamHubProofs`, `ServiceStartProofs` | theorems about `StreamHub` and `ServiceStart` |
| `PushDeliveryProofs` | theorems about `PushDelivery` and `BboltRegistry`, with the refinement of `DeviceRegistry` |
| `MemoryStoreProofs` | theorems about `MemoryStore`, with its refinement of `GotifyStore` and its reads |
| `PushTrafficProofs` | theorems about `RateLimiter` and `PushTraffic` |

### GotifyStore

Each write operation of `bboltStore` is one bbolt read-write transaction; these
run one at a time and commit as a whole. So each is one action that writes all
the buckets the transaction writes.

| Model | Code |
| --- | --- |
| `messages`, `msgSeq` | bucket `messages` and its sequence |
| `count` | the key `count` of `meta`, stepped up and down |
| `devMsgs`, `ttl` | the (device, id) index; the ttl index |
| `log.rows`, `log.seq` | bucket `deletions` and its sequence: the cursors |
| `log.byDev`, `log.byMsg` | `del_dev` and `del_dev_msg` |
| `max` | `bboltStore.max`, chosen anew at every `Open` |
| `opened`, `now` | whether a process runs; the wall clock in seconds |
| `removed`, `forgotten` | history variables: where each removed id stood in the log; how far the sweep has dropped each device's events |
| `Open`, `Crash` | `openBboltStore` with `migrateIndexes`; the end of the process, in order or not |
| `Add`, `UpsertByExtraID` | `PublishWithID` with and without `extras.id`, eviction at the cap included |
| `DeleteByDevice`, `DeleteAllByDevice`, `DeleteByExtraID` | the operations of the same names (`Delete` and `DeleteAll` are those with device 0) |
| `ExpireMessages`, `CleanupDeletions` | the two sweeps |
| `RecentPageByDevice`, `AfterByDevice`, `DeletionsByDevice`, `RecentByDevice`, `SearchByDevice`, `ForEachByDevice` | the reads, as operators |
| `Tick`, `StepClockBack` | external: time |

Keys, contents and `extras.id` values are small numbers or model values; device 0
is the empty key with which the store means "every device". `Init` is an empty
database or one that an older release left: rows and a count, but no indexes.

### MemoryStore

`msgs`, `order`, `seq`, `expires`, `dels` are the fields of `memoryStore`; `dels` joins
the slice of rows, the last cursor and `delMsg`. A call is one action, since the mutex
is held throughout; `ForEachByDevice` is not: `ExportBegin` takes the snapshot of ids,
with its `since` bound, each `ExportNext` looks at one message. `MirrorsBbolt` is `GotifyStore!Spec` under a
mapping that builds the indexes the memory store does not need from its maps. That
the operators of the reads agree is `AnswersAgree`; that an export writes what is
stored throughout once, and nothing that was never there, is `ExportSound`.
A behaviour is the life of one process.

### ServiceStart

A process goes through the steps of `runServer`: `OpenDevices` (bark.db, opened with
nil options: it waits for the lock without limit), `OpenFile` or `FallBack` (gotify.db,
a timeout of one second; whoever falls back stays on memory for its whole life), the
token (`OperatorToken`, `GeneratedToken` or `PersistedToken`, then `SetAutoToken`, two
transactions of which either may fail, and `Announce`, the log line), and is then up.
`Shutdown` closes bark.db only, since nobody calls `Service.Close`; `End` is the end of
the process at any point. Random ids and tokens are numbers that are never made
twice. `Read` is a client that keeps its place by instance id and message id.

### SyncClient

`Ask`, `ReadMessages` and `Answer` are the handler's three moments: the request,
the transaction of the message page, the transaction of the deletion page with
the answer. Between them the store takes any step (`StoreStep`). `Lose` drops a
request or its answer. The client is external: it follows the protocol of
docs/API.md:651-657 (messages, then deletions, then the cursors; on `reset` it
empties its cache and seeds it anew). `BaselineFirst` and `ColdStart` select how a
client starts, since the documentation and the code disagree about it (section 5).

### StreamHub

`Store` is the store's transaction, `StartSending`, `Send`, `StopSending` the walk
of `Hub.Publish` over the subscribers under the read lock. A stream goes through
the stages of `routeGotifyStream`: `Upgrade` (the 101 answer is sent before the
handler runs), `Subscribe`, `SetGauge`, `DeferGauge` (the `defer` statement, which
evaluates its argument), the loop (`WriteFrame`, `LeaveLoop`, `PingFails`) beside
the reader goroutine (`ReaderEnds`), then the deferred calls in reverse order
(`ResetGauge`, `Unsubscribe`). `HangUp` and `CatchUp` are the peer. The sections
under the write lock are single steps that wait until no publisher is sending.

### DeviceRegistry, BboltRegistry, PushDelivery

`info`, `legacy` and `bare` are the three formats of bucket records:
`info:<key>:<platform>`, `info:<key>` and the bare `<key>`. `Records` is the
refinement mapping: what `DevicesByKey` returns for a key, as a function from
platforms to tokens; `ImplementsInterface` is `DeviceRegistry!RegSpec` under it.

A request goes through `Push` or `PushDelete` (checks and lookup), `Record` (the
history's copy, which may fail), `DeliverPassive` or `Call` and `Return` for each
target (a push in any order, a delete HarmonyOS first), `Finish`, and for a delete
`CleanUp`. `Return` includes the clearing of a dead token. `Renew` gives a device a
new token, which the push service accepts from then on instead of the old one;
`Register` is `doRegister` with the device's newest token. `Refusals` says what is
answered when the lookup finds nobody: 400, and 404 to a request that may be a probe
of the key. A message is one of four
kinds: `plain`, or not archived and `fleeting`, `passive` or `secret`; that is what
`ShouldPublishHistory` tells apart.

`MySQLRegistry` is the same interface over one table: `DevicesByKey` reads all rows of
a key, `DeviceTokenByKey` the first.

### RateLimiter, HarmonyToken, PushTraffic

`buckets` and `lastRefill` are the maps of `Limiter`; a token is whole and a tick is
the second in which `Rate` of them come back. `watch` is an observer that starts to
count at any moment. `cached` is the JWT of the `TokenSource`: when it expires, and how
often the service had rotated its key when it was signed. A call of `Send` or `Revoke`
goes through `Post` (takes the JWT, hands the request over; the time between the two
is taken as none), `Answer` or `TimesOut`, and `Invalidate` when it is to be tried
again. The service, external, judges a request at any time, also after the caller
gave up, and its answer may get lost on the way or carry no code, which the client
takes for success (`blank`, client.go:513-537). `Arrive` is the middleware with
`routeDoPushV2` up to the goroutines, `Reply` what follows `wg.Wait`. An item is one
HarmonyOS call, answered 200 or 500: the APNs call that a key may have besides, and the
codes 400, 404 and 410 of `push`, are `PushDelivery`'s subject. `TimePasses` is one
step of the clock for all parts.

The history in `StreamHub` and `PushDelivery` is a plain set or sequence of
messages: what the store does with them is `GotifyStore`'s subject.

## 3. The runs

| Run | Bounds | Shows |
| --- | --- | --- |
| `store_safety` | 2 devices, 3 ids, 2 old rows, caps 1 and 2, log positions to 1 | the indexes, the count and the ids stay consistent over every operation, restarts with another cap and the migration; events hit nothing that is stored; overwriting makes no twins; an overdue message goes in the end |
| `store_retention` | 2 devices, 2 ids, log to 3, pages of 1, retention 0, a clock that steps back | the log tells of every removal, pruning never hides one: an outrun cursor gets `reset`; the log's indexes and the paging are exact |
| `memory_mirror` | 2 devices, 2 ids, log to 2, caps 1 and 2, pages of 1, one export | every step of the memory store is a step of the bbolt store; every read, at every limit and cursor, answers as bbolt's; exports are sound |
| `service_start` | 2 processes, 3 starts, 4 random ids, 2 messages, 1 operator token, an old file | read once by instance id and message id; the token is known and lasts; every start comes to serve |
| `sync_follow` | 1 device, 2 ids, log to 3, pages of 1 | a client that takes its baseline first, and starts after the device's first event, is never stale, misses nothing and converges |
| `stream_hub` | 2 devices, 2 publishers, 1 stream that is opened again and again, buffer of 2, 3 messages | no send on a closed channel; nothing falls between the history and the stream; order; dead streams leave |
| `push_delivery` | 1 key without a record or with an old bare one, 2 requests, 1 renewal, 2 tokens, messages plain and passive | answers are true; only reported tokens are cleared, and not served again; a withdrawn message stays gone; both lookups agree; the bucket implements the registry; every request ends |
| `push_traffic` | 1 address, 1 push request of up to 3 keys with a limit of 2 beside any number of other requests, a burst of 1, a rate of 1, 2 rotations, 3 ticks, JWTs of 4 ticks with a lead of 2, timeout of 1 | nobody gets more than the budget; no call meets an expired JWT; nothing is delivered twice; the answer accounts for every item; every push is answered |
| `sync_seed_race`, `sync_cold_start`, `stale_token_clear`, `mysql_check` | as small as the case allows | a statement of the repository that the code does not keep (section 5) |

Why the bounds are enough. Every property of the store speaks of one or two
messages, one or two events and one cursor. Two devices show that scopes do not
leak into each other; three ids are a row of an older release, one that replaces
or evicts it and one after it; a log of three events with pages of one has a
first, a middle and a last page. Caps of 1 and 2 make eviction, and a cap that
shrinks or grows over a restart, ordinary. `MaxSeq`, `MaxCursor`, `MaxTime` bound
only how often writers and the clock act. With a buffer of two, three messages are
one more than fit, and two publishers overlap in every way. Two requests are a
push and a push, a push and a delete, or two deletes, on the same `id`; the one
renewal can be either device's and at any moment. In `memory_mirror` the second
message evicts the first or not, and both can be deleted, expire or be overwritten
during an export; that the mapping is one of steps is why two ids are enough. Three
starts of two processes are a restart that overlaps with the last server and one
after it; four random ids are an instance id and a token for a file and for a
memory store. In `push_traffic` one request suffices because two items share the JWT,
two rotations make the second attempt fail as well, and a request of three keys is
one more than the limit. Its clock stops at `MaxTime`; a call that waits then times
out. The address is refused, admitted again after a tick, forgotten after two. What it
may bring about over several push requests (`FanOutInBudget`) is beyond this run, in
which it would say no more than the limit does: it is proved, and TLC was asked before
with three requests of up to two keys, a limit of 1, a burst of 2 and JWTs of 2 ticks.
In `memory_mirror` an export starts at each `since`. In `push_delivery` a key without a
record has its requests refused until a device registers.
The runs do not use symmetry. Deadlock checking is off in `push_delivery` and
`stale_token_clear`, where nothing need happen once every request has ended and
every device has renewed, in `stream_hub`, whose publishers and peers may stop,
and in `service_start`, whose starts are used up.

Fairness.

* `FairSpec` (store): WF of `Open`, the process is started again; SF of
  `ExpireMessages`, since the sweep is a ticker of one minute in a process that
  may be stopped before it fires, but not every time.
* `SyncFairSpec`: WF of the server's start; SF of `Ask`, `ReadMessages` and
  `Answer`: the client polls for ever, and neither the network nor a restart takes
  every request.
* `HubFairSpec`: WF of the steps of goroutines that can run; SF of `Subscribe` and
  `Unsubscribe`, because a waiting writer of `sync.RWMutex` holds back new readers.
  Publishers need not publish and peers need not hang up.
* `PushFairSpec`: WF of a request's steps: the calls of both push services have
  client timeouts (`apns.go:117`, `client.go:169`). Registrations need not happen.
* `TrafficFairness`: WF of the steps of calls, of answers and of time. The push service
  owes nothing: it may never answer.
* `Fairness` (start): WF of the steps of a start; nobody has to end a process or to
  release a file. `ComesUp` says so: a start may wait for ever for bark.db while
  another process in service holds it, and for nothing else.

## 4. What is proved

The theorems hold for all values of the constants that satisfy the named assumptions
of the modules; TLC evaluates these in every run.

| Theorem | Statement |
| --- | --- |
| **`GotifyStoreProofs`**, **`GotifyStoreSafetyProofs`** | |
| `TypeCorrect` | `Spec => []TypeOK` |
| `NeverResurrected` | `Spec => []NoResurrection` |
| `LogIndexesAlwaysAgree` | `Spec => []LogIndexesAgree` |
| `EventsAlwaysSpareTheLiving` | `Spec => []EventsSpareTheLiving` |
| `NeverSilentlyRemoved` | `Spec => []NoSilentRemoval` |
| `GapAlwaysReported` | `Spec => []GapIsReported` |
| `PagesAlwaysExact` | `Spec => []PagesExact` |
| `IndexesAlwaysAgree` | `Spec => []IndexesAgree` |
| `CountAlwaysExact` | `Spec => []CountExact` |
| `NeverTwins` | `Spec => []NoTwins` |
| **`SyncClientProofs`** | |
| `SyncTypeCorrect` | `SyncSpec => []SyncTypeOK`: also that the cursor is one the log has reached and a page is no longer than asked for |
| `NeverMissed` | `SyncSpec => []NothingMissed`, however the client starts |
| `NeverStale` | `SyncSpec => []NothingStale`, if `BaselineFirst` and not `ColdStart` |
| **`StreamHubProofs`** | |
| `HubSafe` | `HubSpec => []HubInv`, the inductive invariant of the next four |
| `HubTyped` | `HubSpec => []HubTypeOK` |
| `OpenOnly` | `HubSpec => []SendsToOpenOnly` |
| `NoGap` | `HubSpec => []NothingBetween` |
| `FramesInOrder` | `HubSpec => []InOrder` |
| **`ServiceStartProofs`** | |
| `StartSafe` | `Spec => []StartInv`, the inductive invariant of the next three |
| `StartTyped` | `Spec => []StartTypeOK` |
| `StartReadsOnce` | `Spec => []ReadOnce` |
| `StartTokenLasts` | `Spec => TokenLasts`, an action property |
| **`MemoryStoreProofs`** | |
| `MemTyped` | `MemSpec => []MemTypeOK` |
| `MirrorsProved` | `MemSpec => MirrorsBbolt`, the refinement, if `ClockMayStepBack = FALSE` |
| `ReadsAlwaysSound` | `MemSpec => []ReadsSound`, however the clock is set |
| **`PushDeliveryProofs`** | |
| `PushTyped` | `PushSpec => []PushTypeOK`, if `NoneEmptied` |
| `RegistryReadsAgree` | `PushSpec => []CheckAgrees`, if `NoneEmptied` |
| `OnlyDeadCleared` | `PushSpec => []ClearedWasDead`, if `NoneEmptied` |
| `WithdrawnGone` | `PushSpec => []WithdrawnStaysGone`, if `NoneEmptied` |
| `AnswersAreTrue` | `PushSpec => AnswersTruly`, an action property, if `NoneEmptied` |
| `BucketImplements` | `PushSpec => ImplementsInterface`, the refinement, if `NoneEmptied` and `"harmony" \notin OldRecords` |
| **`PushTrafficProofs`** | |
| `EvictionIsNeutral` | forgetting an idle address changes no bucket's answer, if `IdleRefills` |
| `LimiterSafe` | `LimiterSpec => [](BudgetInv /\ LimiterTypeOK /\ AdmittedInBudget)`, if `IdleRefills` |
| `TrafficUsesLimiter` | `TrafficSpec => LimiterSpec` |
| `TrafficTyped` | `TrafficSpec => []TrafficTypeOK` |
| `TrafficAdmitted` | `TrafficSpec => []AdmittedInBudget`, if `IdleRefills` |
| `TokensServe` | `TrafficSpec => []ExpiredMeansRotated` |
| `RepliesAreTrue` | `TrafficSpec => []RepliesTruly` |
| `FanOutBounded` | `TrafficSpec => []FanOutInBudget`, if `IdleRefills`; no run checks it |

**Assumptions.** `ConstantsAssumption` (store) says that the constants are of the right
kind and that devices and older rows are finite sets, `MemAssumption` the same of the
history in memory; `HubAssumption` that the streams
are finitely many (the gauge counts them) and that there is a device; `StartAssumption`
that the values for "no process" and "no token" are no process and no token and that
the bound on messages is positive; `RegistryAssumption` and `PushAssumption` that tokens
are not the empty one and that there is a key. One clause of
`TokenAssumption` is a condition the code does not check itself: the lead time covers
the timeout and the drift of the service's clock (5 minutes against 15 seconds).

Some theorems have a hypothesis besides, on constants that select a case. `NeverStale`,
`MirrorsProved` (a clock that goes forward) and `BucketImplements` (the record `info:<key>`
is no HarmonyOS device's) are false of the code without it, as section 5 shows. So are
those about the budget without `IdleRefills`, that a burst is no more than what refills
within `IdleTTL` (with the defaults 900 times the rate). `NoneEmptied`, that no older
release left a bare record emptied, is needed by `RegistryReadsAgree` and
`BucketImplements`; the other theorems about pushes have it because they share one
inductive invariant with these. The passing runs satisfy them.

**Store: types.** `TypeOK` is not inductive. `TypeInv` adds that no id and no cursor
exceeds the sequence it was taken from: so the buckets are finite, and the least,
the greatest and the rank of a set of keys exist. Its parts are preserved by each
of the helpers (`AddDeletions`, `Insert`, `RemoveMessages`, ...), once, in
a lemma each, and the step theorem has one case for each action.

**Store: safety.** `NoSilentRemoval` needs company. That a removal stays covered when
the sweep drops rows rests on two facts: the rows' indexes agree with the rows (the
sweep finds a device's rows by them), and a removed id's place in the log is not
past its end (so a sentinel written later is past it). That a fresh event is
really written rests on `NoResurrection` and on events sparing the living: a
(device, id) that is being removed for the first time has no row yet, or
`addDeletionTx` would skip it. `SafeInv` joins these: `TypeInv`, `NoResurrection`,
the log's indexes, `TargetsBounded` (no event names an id that was never handed
out), `EventsSpareTheLiving`, `RemovedBefore`, `NoSilentRemoval`. The core of the
argument is the lemmas about `AddDeletions` and about the sweep.

**Store: gaps and pages.** `GapIsReported` follows from `GapInv`: every row of a device
lies above the place up to which its events were forgotten. A new row does, being
above every older one, and a sweep takes a device's rows from below until the first
fresh one; this is where the order of the sweep counts, which the memory store does
not keep (section 5). `PagesExact` is no matter of steps: in any state of `SafeInv` the
rows that a page takes by rank are those up to the cursor it returns (`RankGrows`,
`LeastHasRankOne`, `PageIsLowerPart`), and the rows of the index are the rows of the log.

**Store: indexes.** `IndexInv` is `IndexesAgree` with `CountExact`: they depend on
nothing but `TypeInv`, through lemmas on the cardinality of a bucket with a key
added or taken out. A database of an older release satisfies it before its first
opening because its index buckets are empty (`Unmigrated`). `NoTwins` needs `TypeInv`
alone: `Insert` is reached with an `extras.id` only when no message matches it, and an
overwrite keeps the id and the pair it is found by.

**Sync.** The store's invariants carry over (`StoreInv`), since a step of the composition
is a step of the store or leaves it alone; `ExtrasNamed` is added, that no `extra` event
names the empty `extras.id`, or it would hit every plain message. What the store
promises a client from one step to the next is three lemmas: `StepGrows` (rows of the
log are added at the end, or go from below while their device keeps a later one),
`StepLasts` (a message that stays keeps its `extras.id`, a new one has a new id) and
`StepNames`. `Held` says of the client's copies, and of those in an answer under way, that
each is a message as it was stored, which is stored still or was removed.

`NothingMissed` rests on the two ways of paging. Backwards (`Seeded`, `SeedReads`): what is
stored between `before` and the highest id held is held, and the page under way has
what is stored from its lowest id up to `before`. Forwards (`PollReads`): the page has all
between `high` and its highest id. What is pushed meanwhile lies above both. An event
takes no plain message along: by `EventsSpareTheLiving` it does not cover one that is
stored. `NothingStale` goes by `WillDrop`. A removal makes it true of what the client
holds, since by `NoSilentRemoval` it is told above the end that the log had, so above
the cursor (`HasCursor`). It stays true: a row that tells of it stays, or goes while its
device keeps later ones, and then the cursor is outrun (`LogGrows`, `HasEvents`). A poll
that moves the cursor applies all rows up to the new one (`DeletionPage`, by
`PagesExact`). The two readings of an answer need `ReadsNotStale`: what the first
transaction found and the second no longer does is told above the request's cursor.

**Memory.** The slices are written without recursion: `Sorted` by the number of elements
up to each one, `Only` by the sorted places of what is wanted. So what they return is
a matter of cardinalities (`CountingUp`, `SortedFacts`, `OnlyFacts`), not of induction,
and a sequence that ascends is determined by its elements (`AscendingCounts`).
`Typed` is the inductive invariant: `MemTypeOK`, types, and that no two "single" rows
are about the same message (`LogExact`), without which `delMsg` would lose a key that
another row still needs when the sweep drops one. The refinement goes call by call.
Its core is `AddIs`: the rows that a batch appends to the slice are those that
`GotifyStore` writes, whose cursors it takes from ranks. The sweep is the one call for
which `Typed` is not enough: `Aged` says that the rows are in the order of their ages,
which holds while the clock runs forward; then the rows too old are those up to the
first fresh one (`OldRowsAre`), and to drop them before the sentinels are written or
after comes to the same (`DropThenAdd`).

For the reads `Typed` suffices (`ReadsAgree`). The slice read from its end descends
(`ReverseTurns`), and what descends is determined by rank: the first n of it are the
elements that have at most n at or above them (`DescendingCounts`, `FrontIsPage`). So
a loop that stops at the limit returns the page that the bbolt store takes by rank, and
`hasMore`, the totals and the cursors follow. An export takes several steps:
`ExportInv` says where each message stored at its beginning is, still to come, written,
or passed over, and that a message passed over is gone or, with an `extras.id`, may have
been rewritten. No later call can make it one that stayed as it was (`ContentLasts`), so
at the end all that stayed are written.

**Stream.** `Roles` ties the parts together: a stream is registered exactly while its
handler is between subscribing and unsubscribing; a publisher has somebody left to
visit only while it sends, under the read lock; a message under way has one
publisher and is not finished. With it `SendsToOpenOnly` is a matter of the unsubscribing
step, which waits for the lock. `NothingBetween` is carried through each step of a
publication, for each stream. `Order` is `InOrder` without the concatenation of what
was shown and what waits in the channel: each is ordered, and the second follows the
first; a new frame fits at the end because it is not finished.

**Start.** `Staged` says what a process has at each step of a start; `Instances` that no
two histories that may be served share an id, `Separate` that they share no message;
`Fresh` that what is yet to be made or published is unread. So `Places` holds: in every
history that may still be served, the client has read exactly what stands before
its place. `ReadOnce` follows. `Whose` says who knows the tokens in use and the hash in
the file: somebody, or the process that is about to log it; the steps of `TokenLasts`
rest on it.

**Registry and push.** `Synced` relates the formats of a key: a current iOS record has
its bare copy, an emptied bare record has a current one beside it, and a key with an
`info:<key>` record has no other. `Behind` and `Newest` say that no record and no request
holds a newer token than its device, and that an answer "dead" is about an older one;
`Reports` ties the emptied records to what the push services said. `Booked` and `Sound`
keep the books of a request: each target is in one place, and a step has done what
the next relies on. `Withdrawn` says that what ended before a delete request began
has ended for good, so nothing of it is stored again. `AnswersTruly` is proved of the
last steps from `Sound`. The refinement `BucketImplements` goes operation by operation:
without an `info:<key>` record (`NoLegacy`, kept by every step) a registration writes the
record it names and no other, clearing empties that one or changes nothing, and
every other step leaves what `DevicesByKey` returns (`Shown`) as it was.

**Budget.** What makes `AdmittedInBudget` inductive is a potential: what an observer has
counted, plus the tokens that are there, is at most a full bucket plus the refill
since it started. An eviction keeps it, since by `IdleRefills` the forgotten
bucket would have been full (`EvictionIsNeutral`).

**Traffic.** `TrafficSpec` implements `LimiterSpec`, so the budget carries over. The rest
is by an invariant of its own: of each call, what the service has accepted, what is
on its way and what the caller has heard go together (only a call whose request was
refused is tried again, which is why nothing is delivered twice); a JWT in use expires
later than any answer about it; an item that was reported has ended. For
`FanOutInBudget` it counts: what an address has spent (`Spent`) is what its bucket lacks of
all that ever came back, and each request spent one token and has started at most
`PerRequest` calls. The proof showed that the limit is not always the factor: with
a limit of 0 no batch passes, yet a push to one key makes one call; hence
`PerRequest`.

**Only model-checked.** Liveness (`OverdueGoes`, `Converges`, `DeadStreamsLeave`,
`EveryRequestEnds`, `EveryPushEnds`, `ComesUp`) is out of the proof system's reach and
stays with TLC.

## 5. Where the code and its documents part

Four runs end in a counterexample, each of one property.

* `sync_seed_race`: docs/API.md has the client fetch its first page and its
  baseline cursor at once and says that the page is already the state after every
  deletion up to the baseline. The handler reads the two in separate transactions
  (`route_gotify.go:220`/`:236`, then `:248`): a deletion between them is in neither, and
  the client keeps the message for good.
* `sync_cold_start`: `deletedSince=0` means "first sync" (`store.go:646`) and is also
  the cursor of a device without events. A client that seeded before the first
  event is not told of the first deletions.
* `stale_token_clear`: `ClearDeviceTokenByKeyAndPlatform` does not say which token is
  to be cleared; the answer about an old token clears the one that the device has
  registered meanwhile (`route_push.go:783`).
* `mysql_check`: on MySQL `DeviceTokenByKey` takes the first row of a key, iOS first,
  and fails when its token is empty (`mysql.go:128`, `:137`), although it is to return
  any non-empty token. A key whose iOS token was cleared passes for unregistered.

The modules state more that the code does not keep; no run is kept for these. Each can
be seen by a change to the `.cfg` named:

* `NoNewMessageDropped` (`sync_follow`, `TTLs = {}`, `MaxSeq = 3`): an `extraIds` event names
  no message id. When a message is pushed again under the same `extras.id`, one
  answer holds the new message and the older event, which drops it; docs/API.md:657
  says that deletions and new messages do not conflict.
* `GaugeCounts` (`stream_hub`): `defer tnMetrics.SetActiveStreams(...)` (`route_gotify.go:357`)
  evaluates its argument at once, so that after the last stream the gauge says 1.
* `ImplementsInterface` (`push_delivery`, `OldRecords = {"harmony"}`): `SaveDeviceInfo`
  deletes the older `info:<key>` record, whatever its platform (`bbolt.go:272`);
  registering an iPhone may delete the only record of a HarmonyOS device, though the
  interface says that other platforms are untouched (`database.go:36-37`).
* `EveryRecordReturned` (`push_delivery`, as an invariant, `OldRecords = {"emptied"}`):
  `DevicesByKey` is to return every record of a key (`database.go:27`). With a bare record
  that was emptied and no other iOS record it fails (`bbolt.go:208-212`): the HarmonyOS
  device that is registered under the key gets no push, while the registration check
  finds it (`CheckAgrees`).
* `IdleIsFull` (`push_traffic`, as an invariant, `Burst = 3`): `evictIdle` forgets an
  address by its last request, and says that its tokens are full anyway
  (`ratelimit.go:90`). They are when a burst refills within 900 seconds, which nothing
  checks; with a larger one an address regains its burst by waiting.
* `MirrorsBbolt` and `MemoryStore`'s `GapIsReported` (`memory_mirror`,
  `ClockMayStepBack = TRUE`, `MaxCursor = 3`, `Devices = {1}`): the memory store's sweep
  drops stale rows wherever they are (`store.go:1443-1452`), bbolt's stops at the first
  fresh one (`store.go:1058-1075`), though the one "mirrors" the other (`store.go:1157`).
  Once the clock has been set back the sweep may take row 2 and leave row 1. A client at
  cursor 1 is then sent neither the event nor `reset`, against docs/API.md:635; bbolt
  keeps its promise (`GapIsReported` in `store_retention`, with such a clock).
* A crash between `SetTokenHash` and the log line leaves a token that is valid and that
  no log tells, though it is "logged exactly once, at generation time" (`token.go:19`);
  the plain text, if it got that far, is in the file, and `AutoToken` is read by nobody.
  `TokenKnown` therefore leaves out such tokens (`unsaid`).
* When the operator's token is no longer configured, its hash stays the accepted one
  (`service.go:140`); docs/GOTIFY_COMPAT.md:54 has a token generated when none is set.

Read off the source and not modelled: docs/API.md:394 has the codes 80200001 and
80300007 both clear a token, the code knows the first only; `gotifyPriority`
compares a lowered string with `timeSensitive`, so that level never gets its
priority.

## 6. Not modelled

* The search branch of the sync handler: a read, whose operator is `SearchByDevice`. The
  export over bbolt is one read transaction, `ForEachByDevice`.
* The contents of an overwritten message: an overwrite keeps the id, so a client
  that polls sees the old content; `Converges` asks for ids.
* The parsing and folding of push parameters (in the random order of a Go map, so that
  of two ids given at different depths either may win), the payloads, the MCP front,
  authentication, Basic Auth, markdown, logging: no state, or no order of steps.
* `membase.go`, which is `DeviceRegistry` for one key, and `envbase.go`, a constant. In
  `MySQLRegistry` the collation, under which keys that differ in case are one, and the
  set-up of TLS.
* The pooling inside fiber: a stream and a streamed export keep the device key of their
  request past the handler (`route_gotify.go:334`, `:148`). The models take it as copied;
  whether it is depends on the library's source, which is not in the repository.
* Rounding in the rate limiter's floats; clocks that are set back, except in the store
  (the limiter and the JWT use the monotonic clock).
* In `ServiceStart`: copies of `gotify.db`, which have the same instance id, as the
  documents say; listeners; the retention sweep's wait of 24 hours of uptime.
* In `StreamHub`: the second publication of an overwritten message, and a
  subscription without a device filter, which no route offers.
* Failing transactions of the store, other than that the history's copy of a push
  or its removal may fail: bbolt then changes nothing.
* In `ServiceStart` the two writes of a new token may fail, but a read of the hash does
  not: `Init` logs such an error, takes the hash for missing and overwrites it
  (`service.go:114-119`, `:131`), so `TokenLasts` holds as long as the file can be read.
  Nor does the random source fail (`service.go:73-76`, `:121-123`): `Init` then returns an
  error and the process does not start.
* The posts to APNs in `FanOutInBudget`, which counts calls and posts of HarmonyOS: APNs
  is called once for each iOS record of a key and never retried.
* A client that reads the history right after the 101 and before its stream is
  subscribed: it may miss what is published in between (`route_gotify.go:351`). No
  property covers it; `CatchUp` is the client that reads later.
* Sweeps without end: `Converges` is checked for finitely many of them.

## 7. Plan

Done, in this order: the store and its proofs; the sync client on top of it; the
stream; the registry and the push pipeline; the history in memory, as an
implementation of the store; the start and end of processes; the rate limiter, the
token source and the batch, with their proofs; the table on MySQL; the proofs of the
registry's refinement, of the sync client and of the history in memory. Next:

1. The sync client without the `extras.id` proviso of `NothingMissed`, should the events
   of the server come to name message ids.
2. `StreamHub` with the second publication of an overwritten message.

A new component gets one passing run, and a run of its own only for a statement
of the documents that the code does not keep.
