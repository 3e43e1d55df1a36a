# Verification of wintr

wintr is a collection of Go packages that other services are built from: push
notifications, a job queue client, a Kafka client, PostgreSQL and Redis storage,
an HTTP server, authentication and a number of small clients of web services.
There is no single program; a service picks packages and runs them in one
process. This directory holds TLA+ models of the packages in which several
goroutines or several machines meet, the TLC runs that check them on small
instances, and TLAPS proofs of what matters most for every size.

Line numbers below are those of the files in `src/`.

## The system

### What each part keeps, does and must get right

| Part | State | Operations | What is hard, and what makes it correct |
|---|---|---|---|
| Push sink (`notifications/push/sink.go`, `push.go`) | buffer, deadline, `closed`, bounded channel, wait group, all but the channel under one mutex | `Send`, the monitor's tick, a worker's turn, `Close` | Senders, monitor and Close write to a bounded channel while they hold the mutex. No notification may be lost or answered twice, no batch may break FCM's limits, nothing may be written to the closed channel, everybody must get an answer. |
| Push batch (`batch.go`) | the maps of invalid, notified and failed devices | one attempt, retry, give up, respond | FCM answers per message, may lose an answer, and is asked again until a deadline. Reports must be true, retries must not repeat what is done. |
| Job queue client (`riverqueue`) | active pool (atomic), its index (not atomic), river client (atomic), two mutexes | `Push`, `HealthCheck`, `trySwitchMaster`, `Start`, `Close` | Failover by whichever push failed, while others go on and Close may come in between. No pool may leak, the failover order must be right, a push must reach a master that is up. |
| Message consumer (`connectors/message_broker/consumer.go`) | consumers per partition with two flags each, a wait group, a mutex | poll loop, three callbacks, partition consumers, `Close` | Rebalances against processing. No unprocessed record may be committed, the order per key must hold, the shutdown must end. |
| Message producer, topics (`producer.go`, `message_broker.go`) | none of its own | `SendMessage`, topic creation at the start | One asynchronous call. |
| Storage v2 listener (`connectors/storage/v2/api.go` 284-603) | connection (atomic), error count, bounded channel | `Listen`, the goroutine, `Close`, `Err` | Reconnection, backpressure, a slow reader, and DB.Close waiting for the connection. |
| Storage v2 queries (`api.go` 42-282, `storage.go`) | two round robin counters | `Get`, `Select`, `Exec*`, `DoInTransaction`, `Ping` | Retries and fallback masters: an operation that was done must not be reported as failed, nor repeated; concurrent operations share the counters; a check asks servers that come and go. |
| Storage v2 locks (`lock.go`) | one connection per lock, a registry in the DB | `Lock`, `Unlock`, `EnsureLocked`, `DB.Close` | A session level lock on a pooled connection: at most one holder, no connection lost. |
| Storage v3 (`connectors/storage/v3`) | one round robin counter | `Set`, `Get`, `Bind`, `Ping`, `IsRW`, `Close`, forwarding of Redis commands | Pipelines that are partly refused, retries on new connections while old ones may still be executed, hashes from which fields are missing. A call that succeeds must have done all it was asked. |
| HTTP server (`server`) | one channel `quit` | `ListenAndServe`, signals, shutdown, request handlers | A listener that fails before anybody waits; the deadline of the shutdown against those of the requests; a request must run for the person whose token it has. |
| Authentication (`auth`) | none; accounts at Firebase | verification of tokens by two issuers, metadata that changes the user, operations on accounts | The order of checks. Claims are read, merged and written in two requests. |
| Translations (`translations`) | a map under a lock | refresh, reads | Refresh against reads, failed refreshes. |
| Email, SMS, in-app, telegram, tracking | none, or a load balancer | one retried request | What a failed request is reported as. |
| Pictures (`multimedia/picture`) | none | upload, then deletion of the old one | One of two steps failing. |
| Coin amounts (`coin`) | none | 256-bit numbers as four words and back | Widths and order of words. |
| totp, time, terror, config, log, privacy, fixtures | none to speak of | wrappers around libraries | Not worth a model. |

### How they interact

Packages hardly call each other: all use `log`, `config` and `time`; the SMS and
email clients hide behind interfaces. The interactions that matter are inside a
package, between its goroutines (channels, mutexes, wait groups, atomic
pointers), and at its edge, with FCM, Kafka through `kgo`, PostgreSQL through
`pgxpool`, Redis through `go-redis` and the providers of the small clients, whose
callbacks and failures the package must cope with. The one place where packages
meet is a request: the server authorizes it with `auth`, and its handler calls
one of the clients with the request's context. `HttpServer` composes these. The
outsiders are modelled by what the code may assume of them and appear as
`external` in the map.

## Modules

| Module | Models | MC module and cfg | Proofs |
|---|---|---|---|
| `PushSink` | the sink, `Send` and `Close` | `MCPushSink`, `PushSink.cfg`, `PushSinkReaders.cfg` | `PushProofs` |
| `PushBatch` | one batch at work | `MCPushBatch`, `PushBatch.cfg` | `PushProofs` |
| `ConnectOrder` | `calculateConnectOrder` and its specification `IsFailoverOrder` | with `RiverMaster` | in `RiverMasterProofs` |
| `RiverMaster` | the job queue client, extends `ConnectOrder` | `MCRiverMaster`, `RiverMaster.cfg`, `RiverSwitchTwice.cfg`, `RiverTorn.cfg` | `RiverMasterProofs` |
| `MessageConsumer` | the consumer | `MCMessageConsumer`, `MessageConsumer.cfg` | `MessageConsumerProofs` |
| `Listener` | the storage listener | `MCListener`, `Listener.cfg` | `ListenerProofs` |
| `StorageTx` | storage v2's operations | `MCStorageTx`, `StorageTx.cfg` | `StorageTxProofs` |
| `AdvisoryLock` | storage v2's locks and `DB.Close` | `MCAdvisoryLock`, `AdvisoryLock.cfg` | `AdvisoryLockProofs` |
| `Auth` | tokens and metadata, as operators | with `HttpServer` | in `HttpServerProofs` |
| `Outbound` | the clients that make one retried request, and accounts; extends `Auth` | with `HttpServer` | in `HttpServerProofs` |
| `HttpServer` | the server and its requests, extends `Outbound` | `MCHttpServer`, `HttpServer.cfg` | `HttpServerProofs` |
| `Health` | the health checks of storage v2 and v3 | with `RedisStore` | in `RedisStoreProofs` |
| `Records` | what storage v3 promises: abstract | with `RedisStore` | |
| `RedisStore` | storage v3, extends `Health`, implements `Records` | `MCRedisStore`, `RedisStore.cfg` | `RedisStoreProofs` |

`PROJECT.json` maps every definition to the lines it stands for.

### PushSink

`mx` is the mutex with its holder, `buffered`, `closed`, `chan` and `chanClosed`
are the fields of the sink. `resetAt` is kept as far as the code looks at it:
unset, less than the buffering deadline ago, or more. A critical section is one
action up to the point where it may block: `Accept`, `MonitorTick` and `Stop`
compute the batches to send (`out`), `SendBatch` writes them one by one to the
bounded channel while the mutex stays held, and `SendReturn`, `MonitorReturn` and
`CloseChannel` go on from there. `Stop` waits for the wait group under the mutex;
`Counted` is that group, which a worker joins only when it first runs
(`sink.go:14`), so that in the model as in the code `stop` may find it empty
while workers are still `"new"`. That this is harmless rests on the bootstrap
probe: `New` returns only after some worker has answered it (`MayCall`).
A worker's batch ends with one response for each notification, each delivered
when its reader allows (`CanReceive`): this is all the sink needs to know of
`PushBatch`. Both values of `BufferingEnabled` are initial states.

### PushBatch

The maps of the batch are sets or a function of the devices. `time` is how the
deadline looks to the code: far away, closer than a retry interval, or over. FCM
answers each message of a call with any outcome (`Answer`), or the call fails as
a whole after FCM has delivered any part of it (`CallFails`). `reached` and `lost`
are history variables for the property about duplicates.

### RiverMaster

Every pool ever opened is an entry of `pools`; `active`, `river.pool` and a push's
`loaded` point into it, so that a stale pointer is visible as such. `Loop`, `Insert`,
`Wait` and `Check` are the rounds of `Push`; `Lock` to `Restart` are
`trySwitchMaster`, cut wherever the code calls PostgreSQL. `Check` pings the
active pool while `Insert` uses the river client's: in the code these are two
pointers and two pools after a switch that failed half-way. A query succeeds when
its pool is open, its master is up and its context is not done. The swap of the
active pool and the closing of the old one are one action; only a query on the
old pool could tell, and it may fail at any time anyway.

### MessageConsumer

`kgo` is set up by `consumerOpts`: rebalances are blocked from a poll that
returned records to `AllowRebalance`, callbacks run one at a time, fetching
starts after `OnPartitionsAssigned`. Auto-commit covers the records of polls
before the current one, a revocation or shutdown commits all that was polled.
Consumers are kept in the order of their creation with the flags `closing` and
`done`, the channel and the groups of records being processed. A batch is the set
of its offsets; a group is processed from its smallest on. The waits with a
timeout (`RevokeReturn`, `ShutdownCommit`) may end at any time, with their
consumers done or not. One member of the group is modelled; the others appear as
assignments, revocations and losses. The path for a partition without a live
consumer (`processNotFoundPartitions`) is not modelled: `ConsumerReady` says it is
never taken.

### Listener

`pc` is where the goroutine of `receiveNotifications` is, `conn` what its atomic
pointer holds and what has become of that session: a session can be lost without
the client knowing, and after an error that `isConnectionError` does not know it
is closed but kept (`"closed"`), so that the next waits fail too. `held` is what
the pool believes. Channel `done` is left out: `Close` closes it after cancelling
the context, and every select that looks at it looks at the context too. The
listener's history before this call of `Listen` is left out as well: a connection
that went back to the pool healthy still has its LISTEN, and notifications of
that other channel would reach whoever listens on it next.

### StorageTx

Each call is a state machine over `at`: in `retry`, asleep before `DoInTransaction`
starts again, in the loop over the fallback masters, or done. `Attempt` is one turn
of `retry` on the pool that `ChoosePool` gives; the database answers with any of
`Outcomes`, and `applied` and `lost` count what it did and which of its answers did
not arrive. Errors are kept as far as `IsUnexpected` and `parseDBError` tell them
apart. `Ticket` is the atomic increment by which concurrent calls draw their
fallback masters. The loop over the fallback masters of `Exec`, `ExecOne` and
`ExecMany` is not there, because it is dead code (see below).

### AdvisoryLock

`place` and `session` are two views of a connection: what the pool believes, and
whether PostgreSQL's session, which owns the lock, still lives. `conn` is the
pointer a mutex object keeps, `dbOf` the runtime whose `DB` it was made with. The
pointer may be `Stale`, that is, released; a call
through it panics or runs on what has become somebody else's connection, and the
model lets the object stop there (`"panicked"`). `registry` is `db.acquiredLocks`:
one entry for the lock ID, shared by all mutex objects of a runtime that have it, so
that a later `Lock` overwrites the connection of an earlier one (`storage.go:188`).
That needs the earlier one's session to have ended, or else the later `Lock` would
be refused. A connection can thus be out for ever: overwritten in the registry or
in an object, or dropped by a refused `Lock`. The history `left` names those that
`DB.Close` finds out although no holder (`Holds`) has them, and `CloseReturns` does
not promise that it returns before they are back. `CloseReleasesLocks` is the loop
over the registry with the closing of the pool to new callers; a `Lock` that comes in
between is like one that has acquired its connection and waits for its answer.

### HttpServer, Auth and Outbound

`Auth` is pure: a token is a record of what the code looks at (algorithm, issuer, user,
validity, provider of the sign-in), and `VerifyToken`, `ModifyTokenWithMetadata` and the
like are the functions of the same name. `Outbound` has a slot for each goroutine that
calls a provider; an attempt comes back with any reply that its kind of client
distinguishes, or hangs until the context ends. `last` is history: what the last attempt
came back with. Operations on accounts return at once, with nothing done and no error,
where Firebase is not configured (`StartCall`, `auth.go:91`); `firebase` never changes
and the initial states have both its values. `HttpServer` gives each slot a request:
`Admit` is `RootHandler` up to the endpoint's handler, `Call` the steps of the client it
calls, `HandleCall` and `Handle` its answers. `main` and `serving` are the goroutines of
`ListenAndServe` and `startServer`; `Tick` is time, and `left` and `grace` what is left
of a request's and the shutdown's deadline. A signal is modelled only while `wait`
listens for it.

### Health, Records and RedisStore

In `Health` a check has one probe for each server it asks (two for the master of v2),
and servers change, and clients are closed, between the probes; a probe through a closed
client fails whatever its server does (`Served`). `sick` and `well` are history: the
probes that would have been served never, or always, since the check began. v2 and v3
share the module because the checks have one form: ask everybody at once, wait for all,
join the errors.

`RedisStore` has the call in the foreground, and `Close`, which closes the clients
one by one (`CloseClient`). `Call` draws the instance from the
counter, go-redis makes attempts (`Attempt`, `Retry`), Redis executes the commands of
one in order (`Execute`) and its replies are kept by position; at any time the
connection may be given up (`Break`), and what it had not executed may be executed
later (`late`), even after the call has returned. `Finish` is the code after the
pipeline: `Errors`, `Found`. A struct has fields with and without tags and
`omitempty`, and an embedded struct that may be nil; `SerializeValue` and
`DeserializeValue` say which fields reach the hash and come back.

`Records` knows only records and calls made of items, in any order. `RedisStore`
implements it (`KeepsPromise == R!Spec`) under the mapping: a hash is the record it
reads as, the commands with a good reply are the items done, an attempt that is
given up starts the call over. So a call that succeeded did everything since its
last attempt began, a read returns what was there while it ran, and what a
written struct leaves out is left as it was (`storage_test.go:82-85`).

## What the runs check

All runs explore their whole state space.

| Run | Instance | Result |
|---|---|---|
| `PushSink` | three senders (one with an expired context), two workers, two closers, batches of two, room for one batch | six properties hold |
| `PushSinkReaders` | two senders that read after Send, one worker, one closer | `EverySenderIsAnswered` is violated |
| `PushBatch` | three devices | four properties hold |
| `RiverMaster` | two pushes, one with a deadline, three masters, two changes | four properties hold |
| `RiverSwitchTwice` | two pushes, two masters, one change | `SwitchesOnce` is violated |
| `RiverTorn` | the same, one push with a deadline | `PushSucceeds` is violated |
| `MessageConsumer` | two partitions of three records, polls of up to two, one loss or revocation before the shutdown's, any assignments | five properties hold |
| `Listener` | three notifications, a channel of two, three faults, a limit of three errors, two closers | five properties hold |
| `StorageTx` | two calls of any kind, three fallback masters, two replicas, three attempts, two lost answers | four properties hold |
| `AdvisoryLock` | two runtimes, two mutex objects of one ID, the second in either runtime, two and one connections, one fault | three properties hold |
| `HttpServer` | one request at a time out of about a hundred, every client, a deadline of two ticks, two attempts, two lost answers, with and without Firebase | six properties hold |
| `RedisStore` | two callers, two calls, two servers, two keys, two attempts, two faults | three properties hold |

Why these bounds are enough. `PushSink`: three notifications with the probe make one
full batch with a remainder, and a channel of one batch is full as soon as two are sent.
`PushBatch`: three devices can have the three verdicts at once. `RiverMaster`: three
masters are the first number for which the connect order is cut and joined; `MaxPools`
is a bound only in name, since runs with 7 and with 8 reach the same states.
`MessageConsumer`: the first and third record of a partition share a key and come in
different polls; one loss is enough for a partition to come back, and assignments are
not bounded. `Listener`: a limit of three errors is reached both by an outage and by
repeated errors on one connection, and the channel overflows. `StorageTx`: two calls and
three fallback masters are the least where one call's draws can skip a master.
`AdvisoryLock`: a lock that is contended across runtimes and, with two connections, by
two sessions of one runtime; two objects of one runtime are the least that share an
entry of the registry, and one fault, the end of a session, is what it takes to have
that entry overwritten. `HttpServer`: requests do not touch each other, so one at a time
against the shutdown is enough, and a new one may come when it was answered; two ticks
put the end of a request before, at and after that of the shutdown. `RedisStore`: a
write that was given up and one that comes after it on the other server, or a read and a
write of several keys; two faults make a server refuse the middle of a pipeline, or both
attempts of a call fail. A third call multiplies the states by more than five and brings
no new pair.

### Deviations found

* `PushSinkReaders`. After `Close`, `accept` sends the notification itself and
  `respond` writes to the caller's channel before `accept` returns. A caller
  that makes an unbuffered channel, calls `Send` and then reads, as the tests do
  (`push_test.go:171-173`, which at line 190 expects every such `Send` to be
  answered), never gets to read, and since the mutex is held nor does anybody else.
* `RiverSwitchTwice`. `switchMaster` has a test for "Already switched to a new
  master, no need to switch again" (`database.go:209`), but the pool it compares
  with is read under a mutex that `trySwitchMaster` already holds, so the test
  never sees another push's switch, and the second push that failed on the old
  master switches away from the new one.
* `RiverTorn`. A push that replaces the pool and then fails to migrate or to make
  a new river client leaves the river client on the pool it has closed. Health
  checks go to the new pool and pass, inserts go to the old one and fail: all
  pushes try until their contexts end.

### Observations

Met while reading and modelling; they are facts the models contain or leave out,
not results of runs.

* The branch of `Exec`, `ExecOne` and `ExecMany` for fallback masters (`api.go:120-124`,
  `150-154`, `180-184`) is dead: a `*DB` never gets there.
* `DoInTransaction` reports the failure of one fallback master although a later one
  committed (`api.go:64-74`); `Truthful` has this exception by name.
* A transaction one of whose statements always fails starts again until its context
  ends (`api.go:51`).
* A refused `Lock` drops its connection (`lock.go:30`), a second `Lock` of the same ID
  overwrites that of the first in the registry (`storage.go:188`), and `DB.Close` then
  waits for ever. An `EnsureLocked` whose ping fails keeps a released one (`lock.go:69`).
* A `Lock` whose query fails keeps its connection, and `EnsureLocked` then says that the
  lock is held (`lock.go:26`); `ToldSoHasIt` has this exception by name (`doubt`).
* A server that cannot listen before `wait` has made its channel never ends
  (`server.go:115`). "shutting down" is answered with 503 also for other failures whose
  error is nil, and never after a signal.
* `contract.go:43` and `auth.go:130-137` name the results of `GenerateTokens` access and
  refresh token; `tokens_generate.go:14-28` returns them the other way round.
* `UpdateCustomClaims` merges with `WithOverride` (`firebase/auth.go:100`), so that the old
  value of a claim wins against the caller's, and of two concurrent updates the
  later write drops the other.
* `UploadPicture`: the deferred `Close` of the file overwrites the error of an upload that
  failed, so that the old picture is deleted and the call returns nil
  (`picture.go:89-102`); `AnswersTruthfully` says nothing of the new picture. If the old
  and the new picture have one name the new one is deleted (`picture.go:91`).
* telegram's `post` wraps an error that is nil for unknown statuses (`telegram.go:182`), so
  that a message that was not sent is reported as sent; `AnswersTruthfully` has this
  exception by name.
* The listener compares PostgreSQL's settings after replacing "0000" by "0s"
  (`storage.go:176-181`): timeouts such as 5 s or 100 s fail the check.
* `typeCache` of storage v3 is keyed by the zero value of the struct: one with a slice
  or a map makes `Get` panic (`v3/storage.go:244`).
* A Redis write whose connection was given up may come after a newer one: `Records`
  allows it (`DoLate`), because the code does nothing against it.
* `coin`: `toICEFlake` drops the integer part of some amounts (`coin.go:474-496`), and the
  words of an amount are not refreshed by JSON decoding.

## Fairness

Weak fairness for a goroutine that can run, which Go's scheduler gives. Strong
fairness for taking a mutex: `sync.Mutex` hands the lock to a waiter that has
been passed over for a millisecond. Time passes (`Tick`) and a call to FCM or
PostgreSQL ends, since their contexts have deadlines or their connections
timeouts. What the program or the outside world may never do is not fair: calls
of `Send`, `Push`, `Close`, ends of contexts, rebalances, auto-commits, masters
and sessions that go away or come back. Only `New`'s own probe, which it always
sends, is. In `HttpServer` handlers go on as long as their context allows, which is
an assumption about the application; in `StorageTx` every attempt ends; in `RedisStore`
an attempt is answered or given up, but a server need never execute what it was
late with. `DB.Close` in `AdvisoryLock` has no deadline: `CloseReturns` has the premise
that the connections that were out for another reason than a held lock when it began
(`left`) have been given back. `PushFindsMaster` and `AllProcessed` state in
their premise what must hold for good.

## Proofs

The theorems hold for every value of the constants that the modules' assumptions
allow: any number of notifications, workers, pushes, masters, devices, servers,
keys or fields.

* `PushProofs`, the sink. `TypeOK`, `BatchesFit`, `ChannelOpenInUse`, `CloseDrains` and
  `Conserved`. None is inductive: that a batch fits needs the bound on the buffer
  between critical sections; that the channel is open when written to needs to know
  who can be past `close` (one closer, holding the mutex, until `closed` is set); and
  that nothing is left after Close needs the workers to have started, which needs the
  probe. The invariant `IInv` has these parts by name. `Conserved` counts: lemmas say what
  an element more or less at an end of a buffer, or of the list of batches, does to
  the number of times that a notification is in it (`Count`, `CountIn`), and that a cut
  moves all that it takes away into the batch it sends (`CutHolds`); that a buffer
  never holds more than one batch, from `IInv`, keeps a cut that simple.
* `PushProofs`, a batch. The safety properties, and that nothing is sent in vain, to a
  device whose verdict is known. The invariant `BInv` says which device
  can be in which of the three maps: the settled ones never fail again because
  they are never sent again.
* `RiverMasterProofs`. `TypeOK`, `OnlyActiveOpen`, `IndexOfActive` and
  `TriesCurrentLast`. The invariant adds that at most one push is between `Lock`
  and `Unlock`, and that `trying` belongs to it. The last property rests on
  `ConnectOrderCorrect`: what `calculateConnectOrder` computes is a failover order, for
  any number of masters, by the three cases of its code and the elements of two
  subsequences.
* `ListenerProofs`. `TypeOK`, `NoConnLeak`, `EndsForAReason` and `NothingMissed`. That a failed
  reconnection gives back what it took needs to know that the goroutine has no
  connection while it connects (`NoConnThere`); that it reports an error when it
  gives up needs that any counted error was kept (`ErrorKept`), and that it gave up
  at the limit and not beyond it needs the count to be below it until then
  (`BelowLimit`). What enters the channel is a notification because it was just
  received (`HandFull`). For `NothingMissed` the invariant (`PendingInv`) says that before
  its first LISTEN a listener has nothing, and that one without a session has an error
  to tell, so that a gap between two sessions never goes unnoticed; that what is
  pending stays the same while it moves through three queues is a matter of lemmas
  about heads, tails and concatenations.
* `StorageTxProofs`. `TypeOK`, `RepeatedOnlyIfLost`, `Truthful` and `NoFallbackSpared`, for any
  number of calls and fallback masters. The first two follow one call through its
  states: what it has applied and lost decides where it can be and what it may
  still return. The last one is about all calls: the counter is the number of
  transactions begun on fallback masters modulo their number, and a window of as
  many draws as there are masters covers them all.
* `AdvisoryLockProofs`. `TypeOK`, `ToldSoHasIt` and `HeldIsUsable`, for any runtimes,
  mutex objects, connections and faults. The invariant follows a connection from the
  pool to the lock: what a mutex object points to is acquired, and by no other
  (`OwnConn`); a query that is under way has one (`HasConn`); while its session lasts it
  has the lock (`ConnHasLock`); and whoever was told so has such a connection, or is
  acquiring one, until the DB is closed (`ToldHasConn`).
* `MessageConsumerProofs`. `TypeOK`, `CommittedProcessed`, `ConsumerReady` and `InOrder`,
  for any partitions, keys and rebalances. Everything hangs on the wait group: its
  count is the number of records in the consumers' channels and groups (`Counted`), so
  that nothing is in flight when a rebalance is allowed again (`Phases`) and a
  consumer never has more than one batch (`OneBatch`, `Polled`). Hence what was polled
  waits, is in flight, or was processed (`NoneLost`), and what precedes a record of a
  group, and has to, was processed or is in the group (`InTurn`).
* `HttpServerProofs`. `TypeOK`, `RunsForTheRightPerson`, `SentTwiceOnlyIfLost`,
  `ClosesAfterDeadlines` and `AnswersTruthfully`, for any number of requests at once, any
  people and tokens, timeouts and attempts. `InputsAssumption` says what a signature
  proves: both issuers make tokens for a user, and the service gives out metadata
  only with IDs of one person. Who that person is, is a parameter (`PersonOf`), so that
  the theorem is about all ways to have several IDs. From it `authorize` is followed
  check by check. A call that is being tried has lost the answer to all that was done,
  one that has returned tells what was done (`CallInv`), with these exceptions: success
  for telegram's unknown statuses, a user or picture that was not there to delete or
  needed no deletion, and an account without Firebase; failure for a picture whose file
  cannot be closed and claims that were read but not merged. Of the new picture of an
  upload it says nothing. And a request never has more
  time left than a shutdown that began after it (`Deadlines`).
* `RedisStoreProofs`. `RedisStore` implements `Records` (`KeepsPromise`), each step being a step
  of `Records` or none. What callers may ask is assumed (`InputsAssumption`: known
  operations on known keys); servers, connections and faults are any. Two lemmas carry
  it: the commands of a call are its items position by position
  (`CommandsAreItems`), and writing a struct's hash over another is merging their
  records, but for what the struct omits (`WrittenIsMerged`); the latter needs
  a struct to have a field. The invariant says that replies are to commands of the
  attempt that runs (`CallInv`) and that what is late was asked for (`Shapes`).
  `TellsHealth`, among all calls and `Close`: a probe that failed met an unfit server or a
  closed client since the check began, one that passed a fit server through an open
  client, so that the verdict is true of some time of
  the check. Its invariant (`HInv`) relates what the probes found to two histories.

The type invariants, `IndexOfActive`, `EndsForAReason` and `NothingSentInVain` are proved
and not run again.

Only model-checked: liveness (`SendAnswered`, `BatchEnds`, `PushFindsMaster`, `Settles` and
the like), which is out of the prover's reach, and the three violations. Every
invariant and action property of a run that passes is proved.

## What is left

1. `SinkPromise`, the abstract push client (each notification is pending, then
   answered once, and a client that is closed owes nothing), implemented by `PushSink`
   under a refinement mapping; `Conserved` and `CloseDrains` are what its proof needs.
2. `Coin`: the words of an amount and back, as functions, for small widths.
3. Translations: the refresh against the reads.

## Not modelled

* Broadcasts of push notifications, the Kafka producer: one asynchronous call of a
  library each. Creation of topics, migrations, the options of pools: they run once,
  before anything else, and panic when they fail.
* The other ~540 methods of storage v3's load balancer (`v3/proxy.go`, 2386 lines, a
  fifth of the repository's) hand a command to the next client and have no state;
  `Forward` stands for them.
* totp, time, terror, config, log, privacy: wrappers around libraries, with nothing
  concurrent. Test fixtures.
* Bodies, templates, headers, JSON: data that no property tells apart.
* Hazards that the models reach and that a property has as an exception, since no line
  of the repository promises otherwise: those of `api.go:62`, `lock.go:26`, `lock.go:30`,
  `storage.go:188`, `server.go:115`, `telegram.go:182` and `picture.go:99`,
  each among the observations above.
* Hazards that are known and that no property covers: a `Send` with an expired
  context writes to the caller's channel from the caller's goroutine (`push.go:122`); a
  push that fails while the client is closed opens a new pool (`database.go:236`); a
  record whose processing fails is committed all the same (`consumer.go:341`); the
  river client runs with the context of the push that switched (`client.go:254`).
