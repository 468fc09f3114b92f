# vox-server: a TLA+ model of the message server

This directory holds TLA+ specifications of vox-server, the TLC models that check
them on small instances, and TLAPS proofs of the main results for every value of
the constants. Everything is translated from the code under `src/`; `PROJECT.json`
gives, for each definition, the lines it stands for.

## 1. The system

vox-server relays end-to-end encrypted messages. It is one process:

| part | source | what it does |
|---|---|---|
| network | `lib/vox_net` | Boost.Beast listener, HTTP sessions, WebSocket sessions, push registry, rate limiters; 4 threads on one `io_context` |
| dispatch | `lib/vox_net/http_dispatch.cpp` | routes; runs as tasks on `storage_pool` |
| pools | `lib/vox_common/thread_pool`, `bounded_queue.hpp` | `storage_pool` and `cpu_pool` (password hashing), 2 threads each by default |
| relay | `lib/vox_relay/relay_service.cpp` | `SendEnvelope`: store an envelope and fan it out |
| conversations | `lib/vox_relay/conversation_service.cpp` | DMs, groups, channels, membership |
| delivery | `lib/vox_relay/delivery_manager.cpp` | one bounded in-memory queue per device; hook to WebSocket push |
| accounts | `lib/vox_auth` | registration, login, tokens, refresh, logout, password change |
| attachments | `lib/vox_attachments` | quota, chunked upload to blob files, expiry |
| admin | `lib/vox_admin` | account deletion, statistics |
| store | `lib/vox_store` | SQLite repositories |
| life cycle | `bin/main.cpp` | start, maintenance thread, signal, shutdown |

Three facts about the code shape every module.

* **A repository call is atomic, a handler is not.** All repositories share one
  SQLite connection behind one recursive mutex, taken per call. A handler makes
  several calls, and other threads run between any two of them. So an action is one
  repository call (with the local computation up to the next one), and each thread
  has a `pc` and the locals it carries from call to call.
* **The database survives a crash, nothing else does.** Device queues, the push
  registry, running handlers and the pool are lost. The code has no recovery step.
* **Foreign keys and primary keys are enforced.** `PRAGMA foreign_keys` is on; a
  constraint is a guard of the action and its failure is an action or branch of its
  own.

## 2. Modules

### Message relay

`Accounts`, `VoxTypes` (ids and enumerations) → `ConversationRepository`,
`DeviceRepository`, `EnvelopeRepository` (tables) → `DeliveryManager` (queues, push)
→ `Dispatch` (requests and threads) → `RelayService`, `ConversationService`
(handlers) → **`Relay`** (the composition, with ghosts and properties) → `MCRelay`.

| TLA+ | code |
|---|---|
| `conversation_members`, `channel_subscriptions`, `membership_version` | the tables of these names and the column of `conversations` |
| `users`, `devices` | rows of `users` and `devices`; a device is absent, active or revoked |
| `encrypted_envelopes`, `server_timestamp`, `delivery_state`, `acked` | rows of the two envelope tables; `acked` are rows with `acked_at` |
| `pending`, `connected`, `pushed` | `DeviceQueue::pending`, keys of `WsPushRegistry::senders_`, what has been handed to a sender |
| `pc`, `req`, `ts`, `targets`, `devs`, `offline` | where a thread is in its handler, and its locals |

`SendEnvelope` is `SendBegin` (device row, membership), `SendPolicy` (channels),
`SendDuplicate` (`CheckDuplicate`, then the timestamp), `SendStore`, `SendTargets`
(`GetMembers` or `GetSubscribers`), and per target user `FanOutUser`
(`GetDevicesForUser`, revoked and sending devices skipped), `FanOutEnqueue` (queue,
or note as offline when full), `FanOutOffline` (`AddDeliveryState`), and
`SendDone`. Membership changes are `AddMember…`, `RemoveMember…`,
`SubscribeChannel…`, `UnsubscribeChannel…` and the purge they share (`PurgeRows`,
`PurgeDevices`, `PurgeQueue`, `PurgeDone`). Single-call handlers (acknowledgement,
device registration and revocation, account deletion, the maintenance purge) are
one action each and need an idle thread.

The order in which the code visits users and devices comes from SQL without an
`ORDER BY`, so the loops pick any element of a set.

The ghosts record history and are read by no action: who was a participant since
an envelope was stored (`reached`), which devices were revoked before they had it or
a fan-out had listed them (`barred`), which receivers stayed (`steady`), whose queue or
fan-out a crash or a purge took (`excused`), who left during a fan-out (`overtaken`),
which removals a crash cut off before their purge (`cut`), what was answered and in
which order.

### Thread pool

`BoundedQueue` (mutex, two condition variables as wait sets, `notify_one` wakes
one sleeper) → `ThreadPool` (`Submit`, `WorkerLoop`, `WaitForIdle`, `Shutdown`) →
`MCThreadPool`. `TaskPool` is the abstract promise: tasks start in the order of
acceptance, once each, none is accepted after closing, and a stopped pool has
finished all of them. `ThreadPool!ImplementsTaskPool` is the refinement, with the
mapping accepted ← `log`, started ← `taken`, finished ← `ran`. `active_tasks_` and
`idle_cv_.notify_all()` are used without the mutex of `WaitForIdle`; the two reads
of its predicate, its going to sleep and each step of a worker are separate
actions.

### Process and network

* **`Server`** composes `ThreadPool` with its callers. Network threads run the
  handlers of listener and HTTP sessions (`DoAccept`, `OnRead…`, `WriteResponse`,
  `OnWrite`, `OnSignal`) and block in `Submit`; `RunTask` is the task that calls
  `DispatchHttp` and posts the response; `Maintenance…` is the maintenance thread;
  `Main…` is what `main` does after `ioc.run()`: join, `WaitForIdle`, and the
  destructors in reverse order of declaration.
* **`WsPushRegistry`** → **`WebSocketSession`**: accept, authentication by header or
  first frame against the timer, `Notify` and `PostSend`, `PumpOutbound`, the write
  and its completion, the read loop and `Shutdown`. The io_context has several
  threads and the session has no strand, so its handlers overlap; each is split where
  it reads or writes a member another handler uses. Using a member that two threads
  touch without a lock is a data race; the model takes the interleavings of whole
  reads and writes as the outcomes, and for the dead buffer of `async_write` any frame.
* **`RateLimiter`**: `Allow` with the clock read before the mutex. `admitted` is history:
  how many requests of a key were let through in each stretch one window long.
* **`Schema`**: the constructor of `Database`: tables, the composite-key migration in
  its transaction, the added columns, retries after `SQLITE_BUSY`, several processes
  and kills. SQLite's locking is external and modelled from its use.

### Sessions and accounts

* `SessionRepository`, `UserRepository` → **`Sessions`**: registration, login,
  refresh, logout, device revocation and account deletion, each split at its store
  calls. `root` is history: the login a session stems from. User and session ids are
  random and never repeat; `used_ids` and the state `deleted` say so.
* **`Prekeys`**: one-time prekeys (upload in one transaction, consumption by the two
  bundle routes, removal with revocation or deletion).
* **`KeyBundle`**: `ChangePassword` (row, two password hashes, two writes) and `PUT
  /v1/sync/key-bundle`, which both number the bundle from a row read earlier. A
  password, a verifier and the key that wraps a bundle are the same model value. The
  history says which requests were overtaken by another write of the row.

### Content and feeds

* **`Creation`** extends `ConversationService`: `CreateDm`, `CreateGroup` and
  `CreateChannel` as the list of store calls each makes, executed one call at a time
  next to the membership handlers; then `NotifyConversationMembershipChanged`
  (version, members, subscribers, devices, each its own read).
* **`Attachments`**: metadata rows and blob files. Each file operation is a step: the
  open with `in|out`, the fallback open with `out` (creates or truncates), the write,
  `exists`, `remove`. Nothing guards the files. A failed open or insert and a crash are
  steps too. `SUM(file_size)` of an account is the
  number of bytes its finalized rows declare.
* **`SyncRecords`**: the versioned records of one account and collection, the change
  feed with page limits and cursors. A write carries the version and the content its
  client had when it was made; it arrives late, again or never, and its answer may be
  lost. The content of a record is the set of changes that went into it, so that a
  write that drops somebody's change shows. A cursor that does not parse is answered by
  an empty page and an empty cursor, which is how a client may come to start over.
* **`History`**: the three paged reads of envelopes, followed by one client page after
  page. The cursor is the pair it is made of, `limit + 1` wraps as `size_t` does, and
  the cast to `int64` that SQLite takes for "no limit" is there (`SizeMod` = 8 in TLC).

### Models for TLC

`MCRelay`, `MCThreadPool`, `MCSync`, `MCServer` and `MCWebSocket` give one specification
its constants. `MCAccounts` (sessions, prekeys, key bundle), `MCContent` (creation,
attachments), `MCFeeds` (records, history) and `MCNetwork` (server, WebSocket, limiter,
database) put independent components side by side: `part`, chosen in `Init`, says which
one runs in a behaviour, the variables of the others stay as they are. This checks
exactly the union of their behaviours, not an interaction; where components do interact
they are composed (`Relay`, `Server`, `WebSocketSession`, `Creation`).

## 3. What TLC checks

Twelve runs; eight pass and four show a disagreement with a comment or document.

| run | instance | what it shows |
|---|---|---|
| `RelayGroup` | group of 2 users, 3 devices (1 WebSocket), 2 envelopes, queues of 1, 2 threads, 1 crash | nothing is delivered twice, receivers that stay hold what was answered, removals purge |
| `RelayChannel` | channel, 2 devices of which one joins and is revoked, queues of 2 | only participants get an envelope, a device gets nothing new from its revocation on, order of sequential sends |
| `RelayCrash` | 4 users, limit 2, expiry, deletion, 1 crash, no queue, fairness | rows keep their references, handlers return, stored envelopes reach their receivers |
| `PoolShutdown` | 2 workers, 2 producers with 2 tasks, capacity 2, fairness | refinement of `TaskPool`, every accepted task runs, every blocked call returns |
| `Feeds` | 2 clients, 2 records, 3 writes, limits 0 to 2, fairness; 3 envelopes in 4 seconds, limits 0, 1, 2, 6, 7 of 8 | no update is lost or applied twice, every record is seen; pages leave out and repeat nothing |
| `Accounts` | 2 accounts asking for one name, 3 devices, 6 session ids, 1 crash; 2 prekey ids in colliding batches; 4 requests on one password | one live session per login, tables consistent, a prekey handed out once and never for a revoked device, the key bundle fits the password or will after the next undisturbed write |
| `Content` | a DM, a group at limit 2 and a channel created next to additions, removals, deletion, 1 crash; 4 uploads of 2 chunks, one too large and one empty, 1 crash | an answered creation is whole, its overshoot is bounded, the newest version is announced; a completed attachment has its blob, how far the quota can be exceeded, which chunks are kept |
| `Network` | 2 connections, 2 network threads, a queue of 1; 2 WebSocket sessions of a device, 2 pushes; 7 requests on a window of 2; 2 processes on one file, 2 attempts, 2 kills | order of the shutdown, the process stops, requests are answered; the registry and the outbound queue; the limiter's bound; the migration |
| `PendingQueue` | as `RelayGroup`, no WebSocket | **violated**, finding 1 |
| `SyncMissed` | as `Feeds`, records only, fairness | **violated**, finding 2 |
| `ShutdownEarly` | as `Network`, server only | **violated**, finding 3 |
| `FrameGarbled` | as `Network`, WebSocket only | **violated**, finding 4 |

Each property of a passing run has a mutant in `PROJECT.json`: a plausible slip in
one mapped definition that makes TLC report that property.

### Why these bounds

Two threads are the default of `storage_pool`, and every race named in the hazards is
between two handlers. Two envelopes are needed for order and for "the second one finds
the queue full". Queue bounds of 0, 1 and 2 give the always-offline path, the
boundary, and order. In `RelayCrash` a limit of 2 with three candidates lets both
threads pass the size check together. Three session ids of one device let a
refreshed session be refreshed again. In `Content` the creations include one whose
member does not exist and one whose admin can be deleted half-way; two uploads fit the
quota one by one but not together, one is larger than an upload may be and one is empty.
Three writes let one be overtaken and repeated after the other two. In `History` three
envelopes share a second in every way, and the limits include the two largest values
of `size_t`. In the server the queue of one makes a network thread and the maintenance
thread block. Two sessions of one device, one authenticating late, are what a
reconnect looks like. Seven requests fill two windows of two and the overtaken calls.
One device in the old file is enough: the migration treats rows alike, and `NetworkProofs`
is for any number.

`MaxVersion`, `MaxClock`, `MaxCrashes`, `MaxTasks`, `MaxPushes`, `MaxCalls`, `MaxRequests`,
`MaxCreations`, `MaxStops`, `MaxKills` and the set `Writes` bound counters; `IdLeft` in `Sessions` keeps a handler from
starting when no session id is left for it, so that a failure of `CreateSession` is never
an artefact. `MaxVersion` stops membership changes: no property depends on there being
more.

Symmetry is used in `Accounts` and `Content` only, whose properties are invariants and
one action property. Deadlock checking is off where the modelled system really stops:
the pool after its tasks, the process after `main` returns, and components whose ids or
requests are used up.

### Fairness

* `Relay!FairSpec`: weak fairness of `WorkerStep` per thread. The pool's threads
  are scheduled by the operating system and a handler only waits for mutexes held
  for one call. Requests, crashes, the clock and the maintenance task get none.
* `ThreadPool!FairSpec`: weak fairness of each thread's step and of the rest of a
  `Shutdown` that has begun; nobody has to call it.
* `Server!ServerFair` (repeated in `MCNetwork`): weak fairness of the pool threads, of
  `main`, of the maintenance thread's submission and exit, of a network thread that is
  in a handler or may leave `run()`, and of the handler posted for each response. None
  for accepting, reading, writing to a client or the signal: those depend on others.
* `SyncRecords!FairSpec`: weak fairness of each client's poll with a positive limit
  (`PollSome`); a property about what a polling client sees is only about clients that
  poll.

## 4. Findings

1. **Queued envelopes are not listed** (`PendingQueue`). `GET /v1/sync/pending`
   reads `delivery_state`, while `DeliveryManager::Enqueue` accepts an envelope for
   a device without a WebSocket and then no row is written. `src/API.md:1641`.
2. **Updates behind the cursor are not reported** (`SyncMissed`). The cursor is the
   row id, which an update keeps. `src/API.md:1059`. What holds is `RecordSeen` and
   `FeedSkipsNothing`: every record is reported once.
3. **A request can outlive the context** (`ShutdownEarly`). A worker pops a task and
   increments `active_tasks_` afterwards; in between `WaitForIdle` finds the pool idle
   and `main` destroys `ioc` and `ctx`. `src/bin/main.cpp:280`. What holds is
   `QueueAtDestruction`: no request is still in the queue then, and `Submit` is never
   called on a closed queue.
4. **A pushed frame can be garbled** (`FrameGarbled`). `PumpOutbound` hands `async_write`
   a buffer over a local string, and two threads can both find `write_in_progress_`
   false. `src/API.md:1916`.

Other behaviours the models show and a property allows for:

* A removal that overtakes a fan-out leaves the removed member the envelopes of
  that fan-out (`overtaken` in `RemovalPurges`).
* A device that a fan-out has listed is still given the envelope when it is revoked
  before its turn comes (`RevokedGetsNothingNew`).
* A member who is added again while the old purge is still running loses what was
  sent since (`excused` in `StillHeld`).
* After a crash during a fan-out the retry is refused as a duplicate and the
  remaining devices never get the envelope, and queues are not rebuilt after a restart.
  `StillHeld` and `StoredReaches` excuse exactly the envelopes that were in a fan-out or
  in a queue then; delivery rows survive.
* A crash between a removal and its purge leaves the delivery rows of the former member
  (`cut` in `RemovalPurges`). Asking for the removal again purges them: `RemoveMember`
  succeeds where there is no active row.
* Concurrent additions can exceed `max_group_size`, by at most one per other thread
  (`GroupOvershoot`, proved), and additions during a creation by nearly a whole second
  group (`CreationOvershoot`). `src/README.md:329` calls the parameter "Maximum members
  in a group conversation".
* Deleting an account changes participants without a new `membership_version`;
  `src/API.md:1195` says "Bumps on membership changes".
* A creation that fails half-way leaves a conversation with some of its members,
  possibly without its owner (`CreationWhole` is about answered ones). Nothing stops a
  handler from removing the creator, or from adding the creator again with another role
  (`regraded` in `CreationWhole`).
* An envelope sent again after it has expired is delivered again; `GivenOnce` and
  `SequentialOrder` are checked without expiry, and proved as long as the maintenance
  task purges no envelope.
* A wake-up of `WaitForIdle` can be lost, and then the process does not end after the
  signal: `StopsOrSleeps` states this as the only way. `src/README.md:61` speaks of a
  clean termination.
* Uploads of one account begun together can exceed the quota, by what was under way when
  another was let through (`beside` in `QuotaOvershoot`). Two first chunks sent together
  can lose one, when it is written while the other thread has found no file and has not
  created it yet (`exposed` in `ChunksKept`).
* `FindByUserAndDevice` does not look at `revoked_at`, so a login from a device whose
  row is revoked opens a session; the row stays revoked.
* Two password changes, one against an upload, or a crash between the two writes can
  leave a bundle that the password does not unwrap, until the next bundle is stored
  undisturbed (`clashed` in `KeyRecoverable`); and two bundles can have one version
  (`miscounted`).
* A refresh that fails or crashes after it has revoked the old session leaves the client
  without one.
* The older parameter `since` is exclusive, as `envelope_repository.hpp:60` has it, where
  `src/API.md:1711` calls it the minimum: the rest of a second at which a page is cut is
  missed. A row that is stored behind the cursor is not listed any more. `limit=0` is answered by an
  empty page with `has_more` and an empty cursor, and the largest limit by an empty
  page; a cursor that arrives percent-encoded by an empty last page.
* A closing WebSocket session unregisters the device also when a newer session of it has
  registered (`displaced` in `RegistryExact`).
* A start that was refused the lock by another process's migration serves with foreign
  keys off; a file older than both migrations cannot be started on, because the copy of
  `devices` reads `device_label` before it is added (`ServingReady`). A second process
  may migrate again, which changes nothing (`MigrationWhole`).

## 5. What is proved

Every safety property of a passing run that is not a mere type is a theorem, for
arbitrary sets of users, devices, conversations, envelopes, threads, sessions, records,
uploads, clients and processes, and any bounds. What stays with TLC is at the end of
this section.

The named `ASSUME`s state types of constants, finiteness where a cardinality is used,
and that the initial data fits together; TLC evaluates each of them in the runs. A few
theorems have a hypothesis of their own:

* `OvershootBounded`: the pool is finite and not empty, and groups start within the limit.
* `GroupSizeBounded`: `max_group_size` is at least 2; below, `CreateGroup` refuses everything.
* `StartReady`: `kSchemaInitMaxAttempts` is at least 1.
* `QueueEmptyOfRequests`: there is a network thread.
* `GivenAtMostOnce` and `OrderKept` (and `OnceInvariant` under them): no step is a
  `MaintenancePurge`. A purge forgets that an envelope was stored, and a retry of it is
  then a new message. With `message_retention_seconds` at 0 or below there is no purge of an
  envelope stored under that setting.

Each theorem rests on an inductive invariant, and the proof that a step keeps it has one
step per action. TLC finds no violation of these invariants on the instances of the runs
either (they are not in the configurations, whose modules do not load the proofs). A
proof module begins with `USE Zenon`: a leaf that names no prover is Zenon's, one about
numbers, records or sequences cites `SMT`.

* **`RelayProofs`**: `TypeCorrect`, `OvershootBounded`, `VersionTracks`. `TypeInv` adds to
  `TypeOK` that the request a thread carries is of the kind its `pc` belongs to, without
  which `req[w].env` has no type. A thread that has passed the count of `AddMember` has
  reserved nothing, so the size of a group is not inductive; members and threads about to
  insert are bounded together (`GroupRoom`). The count makes the sum at most the limit
  minus one plus the number of threads, the insert trades a thread for a member, every
  other step only shrinks the two sets (`StepKinds`).
* **`DeliveryProofs`**: who gets an envelope (`ParticipantsOnly`, `RevocationHolds`,
  `SenderSkipped`), what a device keeps (`NothingIsLost`, `RemovalLeavesNothing`,
  `ReferencesHold`), how often and in which order (`GivenAtMostOnce`, `OrderKept`).
  - `DeliveryInv`. The properties speak of what devices have been given; what a thread is
    about to give sits in `targets`, `devs` and `offline`, read at different moments. The
    invariant says of these locals what the properties say of the queues and rows.
  - `HoldingInv`. `StillHeld` is about the state at rest. In between, an envelope that a
    steady receiver does not hold is on its way: some thread has still to visit the user
    or the device (`OnItsWay`), and no purge that would take it is under way
    (`SteadyInv`). `LeftInv` is the converse for who has left: what such a user holds
    is still being purged, or a fan-out had read the participants before, or it is a row
    whose purge a crash cut off.
  - `OnceInv`, `OrderInv`. One thread at a time fans an envelope out, a device on whose
    way it is does not hold it, and an envelope answered before another was stored is
    not fanned out any more.
* **`CreationProofs`**: `CreationsWhole`, `NewestStaysAnnounced`, `GroupSizeBounded`. What
  a creation has not added yet it still has a call for (`PlanInv`); a device that lacks
  the current version is still owed it by a thread on its way to announce one
  (`AnnounceInv`); members, additions under way and calls left are bounded together
  (`RoomInv`).
* **`ThreadPoolProofs`**: `ActiveExact`, `ShutdownGraceful`, `IdleSeesQueue`, and
  `PoolRefines`, the refinement of `TaskPool`. `PoolInv`: the queue is the part of
  the log not yet taken, tasks are accepted once, every taken task has run or is in
  the hands of one worker, and workers leave only a closed, empty queue. The
  refinement maps each action to an abstract step or a stutter. `ServerUsesPool` shows
  that `Server` is an environment `ThreadPool` allows, so all of this holds of
  `storage_pool` in the process. `QueueEmptyOfRequests` adds `StopInv`, where each thread
  is at each point of the shutdown, and `IdleQueueInv`: after `WaitForIdle` the queue
  holds at most the one purge the maintenance thread was about to submit.
* **`AccountProofs`**: `RotationHolds`, `TablesStayConsistent`, `RevocationFinalForDevice`.
  The rotation argument needs the window between revoking the old session and creating
  the new one: while a thread is in it its login has no live session and no other thread
  is in it (`RotatingInv`). Finality of revocation and unique names need that an id
  drawn by a registration is in no row yet and belongs to one registration (`FreshInv`).
  `PrekeysHandedOnce` and the action property `RevokedStaysSilent`: what was handed out
  had been accepted, and a device that may register again has no accepted keys
  (`OtpInv`). `KeyStaysRecoverable`: a thread whose row was not overtaken knows the
  current one, and a bundle that does not fit the password, without a clash since the
  last undisturbed one, is about to be mended (`KeyInv`).
* **`FeedProofs`**: `UpdatesStay`: a copy that has the current version has the current
  content (`CopyInv`), the same is true of what a request was made from however long it
  has been under way, and the version has passed every committed request (`SentInv`).
  `FeedSkipsNothing`: ids grow and are not repeated, and no cursor is ahead of the last
  id (`IdInv`). `PagesMissNothing`: what leaves a list does not come back (`ListedInv`), and
  nothing handed out lies ahead of the cursor (`CursorInv`). The lemmas say what SQL
  does: the order of cursors is total (`CursorOrder`), `LIMIT m` keeps the first rows and
  all of them when fewer than m come (`RowsShape`), a page with one row more asked for is
  a cut of the rows ahead, also where `limit + 1` becomes "no limit" or wraps
  (`PageShape`).
* **`UploadProofs`**: `BlobsStay`, `AnsweredChunksStay`, `QuotaHolds`. A file seen by
  `FinalizeUpload` goes only after its time (`BlobInv`); who may still write to a
  finalized upload had passed the test before (`LateInv`); while a thread is about to
  create the file, all that has been written is exposed (`FirstChunkInv`); what an account
  has finalized and under way together is within the quota and the most that was beside an
  upload let through (`QuotaInv`). `SUM(file_size)` is the number of declared bytes of the rows,
  which makes it a cardinality the provers can reason about.
* **`NetworkProofs`**: `MigrationKeepsRows`, `StartReady`. `SchemaInv` relates the copy in
  the writer's transaction to the file: same rows, and old tables except what has been
  copied; with one writer, the commit replaces all five tables at once. `ReadyInv` says
  what each point of the constructor has established, also when other processes migrate
  in between, and which connection may have foreign keys off. `RegistryStaysExact`,
  `QueueOvershootBounded`, `SessionsStayAttended`: a handler that has tested the length
  of the queue takes a place in it (`QueueInv`), and the handler of the first frame is
  the only one that decides the authentication (`FirstFrameInv`). `WindowsBounded`: how
  many requests fell into a stretch is bounded by where the current window of the key
  stands relative to it, and once the window has moved on only calls that read the clock
  earlier can still add to it (`Stretch`).

Model-checked only:

* the liveness properties (`HandlersReturn`, `StoredReaches`, `AcceptedRuns`,
  `CallsReturn`, `RecordSeen`, `RequestsAnswered`, `StopsOrSleeps`), which need fairness
  and `ENABLED`;
* `AccountsTypeOK`, `ContentTypeOK`, `FeedsTypeOK` and `NetworkTypeOK`, which only put the
  type invariants of the components together for TLC; those are conjuncts of the
  inductive invariants above, except the ones of `Server` and `Schema`, of which the
  parts that are needed are in `StopInv`, `SchemaInv` and `ReadyInv`.

## 6. What is not modelled

* Data: ciphertext, keys, labels, JSON and wording. An envelope, a record version, a
  chunk or a prekey is an opaque value.
* Read-only routes (profiles, search, lists, statistics), except the paged reads,
  bundles and the change feed, which properties are about.
* The branch of `SendEnvelope` for a channel whose policy is not `admins_only`: only
  `CreateChannel` writes `policy_blob`, always with that policy
  (`conversation_service.cpp:165`).
* Password verification and token hashing: a login that gets past them is what
  `LoginBegin` stands for. Requests refused before the first write leave no trace.
* Configuration, logging, TLS and HTTP framing; the events `user_devices_changed` and
  `sync_record_changed`, which carry no state.
* Functions without a caller in the program: `Dequeue`, `SwitchToOffline`,
  `TryPush`, `TryPop`, `MarkDelivered`, `ConsumeOneTimePrekey`, `ForceLogout`,
  `RevokeAllForUser`, `CleanExpired`, `SyncOffline`, `DisableUser`, `DeleteAttachment`.
* Inside a repository call: a member row and the bump of its version are two statements
  without a transaction, and a crash between them is left out.
* In `Schema`, writes of a process that serves already while another one starts.
* In `WebSocketSession`, torn reads of shared members, and the time `close()` blocks a
  network thread while the peer does not answer.
* I/O errors of SQLite other than constraints and `SQLITE_BUSY` at the start.

## 7. What would come next

* `WebSocketSession` composed with `Relay` in place of its set `connected`, on bounds
  small enough for the product of the two state spaces.
* The liveness arguments on paper: which step each waiting thread depends on, and why the
  inductive invariants keep it enabled.
