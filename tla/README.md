# AFAOS: specification, model checking and proofs

AFAOS is a set of small Python programs that share one Redis server and one
SQLite file: producers append events to a stream, orchestrator instances read
them as consumers of one group and write audit rows, a recovery daemon clears
what others left pending, a compactor trims the stream, and a lock, a rate
limiter and a circuit breaker live in Redis keys that everybody reads and
writes.  Each program is simple; what is hard is that nothing but Redis orders
their steps.  This directory specifies those programs in TLA+, checks the
specifications with TLC on small instances and proves the central results with
TLAPS.  File names below are relative to the repository.

## 1. The system

### Components

| Component | State | Operations | Correct when |
|---|---|---|---|
| Orchestrator (`orchestrator.py`) | lock key in Redis, rows of `execution_audit_logs`, open SQLite transaction, event in hand | acquire lock, create group, read, admit, insert, commit, acknowledge, close | an event is handled by one instance, its row is written once, it is not acknowledged into oblivion |
| Event stream (Redis, as used by `event_broker.py`, `orchestrator.py`, `fault_recovery.py`, `telemetry_compactor.py`) | entries, group, cursor, pending list, idle times | XADD, XGROUP CREATE, XREADGROUP, XACK, XCLAIM, XPENDING, XTRIM | nothing is skipped or delivered twice as new |
| Fault recovery (`fault_recovery.py`) | list of stale entries, claimed entry | list, claim, acknowledge | stale entries are cleared, and processed (they are not, see section 3) |
| Compactor (`telemetry_compactor.py`) | decision to trim | inspect, trim | a trim reaches unread entries only when they exceed the limit |
| Rate limiter (`rate_limiter.py`) | sorted set of clock readings | `is_allowed` | a window holds a bounded number of admissions; refusals have a reason |
| Distributed lock (`dist_lock.py`) | key with a lease, `acquired` flag | acquire, release | sessions exclude each other, and only the owner frees, as long as leases last; a taken key is free again |
| Circuit breaker (`circuit_breaker.py`) | state, failure count, stamp | initialize, can_execute, record_success, record_failure | trips when due and stamps the trip, cools down, recovers |
| Event broker (`event_broker.py`), trigger (`trigger.py`) | Pub/Sub connection, one flag for all listeners, dead-letter list | publish, subscribe, quarantine, close | broadcasts follow their entries; each message is dealt with once; listeners stop |
| State memory (`state_memory.py`) | the breaker's state key, local counters | check and report a node's circuit | the breaker still trips and recovers |
| Database archiver (`db_archiver.py`) | backup files | snapshot, rotate | a whole copy is always there, and not too many |
| Pipeline queue (`src/ingestion/pipeline_queue.py`) | bounded deque | push, pop a batch | an accepted transaction is lost to an overrun only, order is kept |
| Database manager (`src/ingestion/database_manager.py`) | the tables of the cache database | create the schema | one row for each id |
| Data processors (`data_processor.py`, `src/ingestion/data_processor.py`) | bounded buffer of rows read; a window query | account statistics | the buffer ends with the rows read last; a reported running total is changed by a late row only |
| Observers (`metrics.py`, `metrics_exporter.py`, `telemetry_dashboard.py`, `metric_aggregator.py`, `system_health_monitor.py`) | none of their own | read stream and table | what they report is what is there |
| Configuration, JSON logger, deployment files, integration test | none that changes | | |

### Interactions

* The stream, its group and its pending list are shared by the broker (adds),
  the orchestrators (read, acknowledge), the recovery daemon (lists, claims,
  acknowledges) and the compactor (trims).
* The audit table is written by the orchestrators and read by the compactor and
  the observers.
* `run_event_listener_loop` asks the rate limiter before each event; a refused
  event stays pending, and only the recovery daemon will ever look at it again.
* The breaker's state key is also written by `state_memory.py` and, through
  `initialize`, by the health monitor, which takes part in the limiter as well.
* The archiver copies the database file while the orchestrators write it; any number
  of archivers share the vault directory.
* Transactions go from the pipeline queue to `transaction_logs` and from there to the
  data processors.  The repository holds the ends of that path and no loader between
  them; no program imports the queue, the archiver or the state memory yet.
* `main` of the orchestrator uses its own copy of the lock (`SET NX EX 60`,
  `GET`, `DEL`); `dist_lock.py` packages the same protocol.

### What is hard

Every `await` on Redis is a point where other processes act.  Locks expire under
their holders; processes die between two commands; replies are lost; a list that
was read is acted on later; counters and states are kept in several keys that
are written one after the other; exceptions are swallowed and the next statement
runs.  `PROJECT.json` lists the hazards at their lines.

## 2. Modules

| Module | Models | Uses |
|---|---|---|
| `EventStream` | the stream and its group: one operator per Redis command | |
| `Orchestrator` | the orchestrator processes | `EventStream` |
| `FaultRecovery` | the recovery daemons | `EventStream` |
| `Compactor` | the compactor | `EventStream` |
| `AuditTrail` | abstract: what is promised about one entry | |
| `EventLedger` | the pipeline: producers, instances, daemons, compactor interleaved; all its properties | the above |
| `EventLedger_proofs`, `EventLedger_refinement` | its proofs | `EventLedger` |
| `LeaseLock`, `LeaseLock_proofs` | the lock | |
| `CircuitBreaker`, `CircuitBreaker_proofs` | the breaker, one Redis command at a time | |
| `RateLimiter`, `RateLimiter_proofs` | the sliding window | |
| `SharedCircuit` | the breaker's key, used by the breaker's processes and by nodes of the state memory; proofs in `CircuitBreaker_proofs` | `CircuitBreaker` |
| `DatabaseArchiver`, `DatabaseArchiver_proofs` | archivers, the vault directory, a writer of the database | |
| `Ingestion`, `Ingestion_proofs` | queue, schema and both data processors; the caller of `pop_batch` and the loader of rows are assumed | |
| `EventBroker`, `EventBroker_proofs` | publishing calls and the listeners of one connection | |
| `MC...` | constants and symmetry sets for TLC | |

An operator whose comment begins with "Variant" is not part of a specification.
It is a plausible slip (a dropped guard, an off-by-one, a swapped order) in the
definition that follows it; replacing that definition by it violates the property
the comment names.  The list `mutants` of `PROJECT.json` pairs them.

### How state and actions correspond to the code

*Grain.*  An action is one Redis or SQLite call together with the Python code up
to the next call.  asyncio and several processes interleave exactly there, so no
behaviour is lost, and the code between two calls touches local state only.

*Event pipeline.*  An entry id is the position of the entry.  `pel[e]` says for
entry `e` that nobody has read it (`Unread`), for whom it is pending, or that it
has left the pending list (`Gone`).  `stale` holds the entries idle for more than
`idle_timeout_ms`: time enters only there, since it is only compared.
`pc`/`hand` are an instance's place in `run_event_listener_loop` and `main`, and
its `msg_id`; `txn[i]` is the open SQLite transaction of its connection, which
survives a failed commit because the code never rolls back.  `StoreError` covers
an INSERT that meets its primary key, a database locked by another connection for
longer than the busy timeout, and (`StoreFaults`) any failure of SQLite's own;
whether such a failure leaves the transaction open is left to SQLite.  The answer
of `is_allowed` is free: `Admit` or `Throttle`.  `Interrupt` is a cancellation or a
Redis error at an await, `Crash` a death at any point; `LockExpires` may happen at any
time.  `errorLog` and `recoveryLog` hold the entries a log message speaks of:
logging is modelled only because the code's one trace of a lost event is a log line.

*Broker.*  A message is a pair of a publishing call and the listener whose pattern it
matched.  The order of messages on the connection is left out: no property depends on
it.  A callback may return, raise or be cancelled; a read may time out or raise at any
time; `PUBLISH` reaches any part of the subscribed patterns.  Listeners share `running`
and `subscribed`, as they share the broker object.  A second broker object publishes.

*Lock, limiter, breaker.*  Time is counted in ticks.  In `LeaseLock`, `ttl` is what
is left of the key's lease, and a tick may come at any point of any session, between
the GET and the DEL of `release` too; `lapsed` records the clients whose lease has
ended since their SET.  In `CircuitBreaker`, `since` is the age of the stamp under
`last_state_change_key` and `opened` the time since a process of the breaker last set
OPEN; both stop counting when the cooldown is over.  `reliable` says whether Redis commands
may fail at present; an operation that fails half-way keeps what it wrote.  In
`RateLimiter`, `seen` and `granted` are histories; a request's clock reading
(`stamp`) may be arbitrarily older than its transaction.

*Shared circuit.*  A node asks `check_circuit_status` before its call and reports the
result after it; how a node uses the two methods is not in the repository.  It keeps no
count, writes no stamp and waits for no cooldown.  `ReportIsLost` is the swallowed
exception.  A node that reports success over a trip clears `clean`, as a starting
process does.

*Archiver.*  A snapshot is named by its second (`now`), so two in one second share a
file.  The file's content is its two halves, of the last transaction each; `copy2` reads
them one after the other, and a copy is whole when they agree.  `vault` is the directory
in the order of `getctime`: any change of a file, the end of its copy included, moves it
to the end.  `linked` tells whether the file an archiver writes is still the one with
that name.  `ListBackups` is `os.listdir` only; `getctime` is then called file by file
while others work.  A step per call would only multiply the states: what matters of a
call is whether it comes before or after a change of its file, so `Touch`, which changes
a file, decides for each sort that has it: either the sort is late, and finds the file
last, or it was early, and the file is in `seen`.  `SortBackups` is the end of the sort,
`ListIsStale` a `getctime` on a file removed before it was seen, `EndRotation` also
`os.remove` of one; both are swallowed.  `Fail` is any other failure or a death: the
partial copy stays and is counted.

*Ingestion.*  A transaction is its place in the history `accepted`; its id is its rank
in the order of text, which is how `ORDER BY txn_id` compares.  Python's deque operations
are atomic, so `pop_batch` is one action per `popleft`.  The loader inserts row by row,
and a second row with the same `txn_id` is refused by the primary key.  The window
query is modelled by the running total it computes (`account_running_total`), in
integers and without its rounding; its spike flag is left out, see below.

## 3. Runs

### Event pipeline

| Run | Instance | Shows |
|---|---|---|
| `ledger_safety` | 2 instances, 2 daemons, 2 events, failing SQLite, limit 1 | `SoleHandler`, `NoKeyConflict`, `NoSilentLoss`, `HandIsPendingOrHijacked`, `CursorSkipsOnlyEvicted` and `TrailSpec` |
| `ledger_live` | 2 instances, 1 daemon, 2 events, limit 1 | `BacklogDrains`, whoever dies, and `EvictsUnreadOnlyOnBacklog` |

`NoSilentLoss` is about acknowledged entries: each has a row or a log message.  An
unread entry that a trim evicts is not acknowledged, has neither, and nobody is told;
`EvictsUnreadOnlyOnBacklog` says when that can happen.

Two instances suffice for a handover and a conflict, two daemons for a double
claim, two events for a transaction that carries a foreign row, for a reader that is
ahead of another, and for a stream longer than its limit.  Nodes hold one entry
here; theorem `UnreadEvictionNeedsBacklog` covers every node size.  Symmetry is
used in `ledger_safety` only, over instances and daemons, which nothing orders or
names.

Bounds: `MaxEvents` (entries ever added), `Instances` (runs of the orchestrator; a
restart is another instance, since every run draws a fresh uuid), `Daemons`
(concurrent runs of the recovery program).  A pipeline that has used up its
instances and events stops, so deadlock is not checked in these runs.

Fairness: none in the specification.  `BacklogDrains` states its own assumption, that
some instance serves for ever and its loop goes on (`InstancesRun`).  Lock expiry,
crashes, throttling and failures are never assumed to happen or not to happen, and
neither are audits and trims: the recovery program audits once and ends
(`fault_recovery.py:94`), nothing in the repository starts it again, and nothing starts
the compactor at all, so no passing run counts on them.

Two constants say what the client library does, `IdleKeyKnown` (does a reply of XPENDING
carry the idle time where the audit reads it?) and `TrimAccepted` (does `xtrim` take the
keyword it is called with?).  With redis-py, which the requirements name, both are FALSE:
nothing is ever claimed and nothing is ever trimmed.  `ledger_safety` and `ledger_live`
give TRUE, what the code means to do, because that adds steps and takes none away: every
behaviour of the code as it is remains one of the model (an audit that lists nothing, a
compactor that does not decide to trim), and the safety properties are checked, and
proved for both values, of the daemons one would have after repairing the two slips.
That stale entries are cleared and that the stream stays bounded are claimed nowhere.
`stale_is_cleared` refutes the first with `IdleKeyKnown = FALSE`, under a fairness that is
generous on purpose (`MaintenanceSpec`: audits for ever, nobody dies for good); no run
repeats the exercise for the trim, where there is nothing to interleave: line 54 raises.

### Lock

`lease_lock`: three clients, a lease of 3 ticks, sessions of any length, lost replies,
failing commands, deaths.  Nothing in `dist_lock.py` bounds a session, so nothing in the
model does.  What is left of mutual exclusion is `MutualExclusion`: of two sessions that
overlap, one has outlived its lease.  `FreedByOwnerOrLapsed` says the same of DEL: who
frees a key of another has lost its own lease, between GET and DEL or earlier.  The plain
statement of the docstring is refuted by `only_owner_frees`, below.  `KeyIsFreed`, a taken
key is free again some time, assumes that time passes and nothing else: it needs no
answer from Redis and no release, which is the point of the lease.  The clients
may all have died, so deadlock is not checked.

### Rate limiter

`rate_limiter`: two callers of one `client_id`, one request a window, a window of 3
ticks and 6 ticks in all (`MaxTime`), enough for the window to move past a request,
for the key to expire and for a transaction that is a whole window late.  Deadlock is
not checked: the clock stops at `MaxTime`.  `WindowBound` counts clock readings:
requests with equal readings share a member of the sorted set.

### Circuit breaker

`breaker_shared`: two processes, from a first start without a state key, and one node
of the state memory on the same key, with Redis failing for a time; a threshold of two
lets each process count one of the failures.  `ServiceResumes` and `OutageTrips` hold
although the node overwrites the key with every result: a trip without a stamp only
shortens the cooldown, and the next failure counted trips what the node closed too early.
Nodes alone could not do it: a node never leaves OPEN, because
`check_circuit_status` only reads the key.
`StampFollowsTrip` is about the other order of the two writes: as long as no operation
has failed half-way and no process is between its SET of OPEN and its SET of the stamp,
the stamp is not older than the last trip a process made, whoever else wrote in between.
The window it excepts is real: a second process that reads in it compares the clock with
an older stamp, and probes at once (see below).
Fairness: each process goes on calling the service, a call of a node is reported, and
time passes.  The liveness
properties assume that the service and Redis answer for good from some time on; what
happened before is arbitrary.

### Broker

`event_broker`: one `publish_event`, one run of `trigger.py`, two listeners, close at
any time; two listeners are enough to race for a message, and two publishers to have a
message with an entry and one without.  Fairness: callbacks end, sleeps end, LPUSH
answers or raises, and `get_message` does not fail for ever while a message waits
(strong fairness of `TakeMessage`; it is enabled again at each turn of the loop).
A broker that is closed or has no listener left stops, so deadlock is not checked.
`FlagEndsListeners` speaks of the flag and not of `close`: when `psubscribe` returns
after `close` began, `Subscribed` sets the flag again, and every listener that had not
looked at it in between goes on.

### Archiver

`database_archiver`: two archivers, two copies to keep, four seconds, one transaction,
any failure.  Four names are enough for two rotations to overlap over three copies, for
a sort to miss a change, and for a name to be taken twice; with five the run takes ten
times as long and shows the same.  `UsableBackup` holds only while snapshots stay `apart`;
each of its three parts (no two archivers at once, no second snapshot in a second, no
write during a copy) is needed, as TLC shows when one is left out.  Failing calls and
deaths need no such excuse: partial copies count and push older ones out, but a rotation
runs only after a copy that was finished, which is the newest and stays.  `RotationKeepsEnough` holds
with overlaps too, and its bound (one copy less for each other archiver) is tight: with
two archivers a vault of two goes down to one.  The opposite does not hold: overlapping rotations end each other
early, so `Trimmed` needs `apart`, and the surplus grows with each overlap.

### Ingestion

`ingestion`: a queue and a batch of two, four accepted transactions out of six, so that
a transaction can be pushed again, the buffer overruns in the middle of a batch, a batch
ends early and a third one follows; amounts of both signs, two accounts.  Ids arrive in
any order, so a row may be stored late, in front of rows already reported:
`OnlyLateRowsChangeTotals` says that nothing else changes a running total.  There is no
fairness, because there is nothing to schedule: no program of the repository calls
`pop_batch` or loads rows.

### Disagreements between code and comments

Each of these runs checks one statement of the repository and ends in a
counterexample; `PROJECT.json` quotes the statements.

| Run | Counterexample |
|---|---|
| `only_owner_frees` | the lease ends between GET and DEL, and DEL frees the lock of the next owner |
| `single_instance` | the 60 s lock expires under a running instance, a second one serves too (harmless for the rows: `SoleHandler`, `NoKeyConflict`) |
| `acked_is_committed` | a failed write is acknowledged |
| `stale_is_cleared` | the audit reads an idle time of 0 for every entry and claims nothing |

Other differences, visible in the definitions and not given runs of their own:

* `circuit_breaker.py:37` switches to HALF-OPEN "if the cooldown expires"; OPEN is set
  before its stamp, so a second process may compare the clock with an older stamp and
  probe at once (the window `StampFollowsTrip` excepts);
* `db_archiver.py:24` calls the copy "atomic"; a transaction written during the copy
  leaves one whose halves disagree (`StartCopy`, `Write`, `EndCopy`);
* `pipeline_queue.py:14` pushes "safely", and a full buffer drops its oldest transaction
  (`LostOnlyByOverrun`); an amount of zero is refused as corrupt (`push_transaction`);
* `src/ingestion/data_processor.py:13` flags an amount of "3x the account's historical
  average"; the average of the query includes the amount itself and what came after it,
  so that after payments of 1 and 1 a payment of 10 is no spike (`10 > 3 * 4` is false),
  and no three payments can have one (refunds aside); a flag also changes with later rows.  No property
  is stated of the flag;
* `metric_aggregator.py:12` counts rows with the status SUCCESS, FAILED or FALLBACK, and
  the orchestrator writes COMMITTED only (`orchestrator.py:96`): its rates are always 0;
* `metrics_exporter.py:35` reports the number of groups where its help text speaks of
  consumers;
* `system_health_monitor.py:90` does not count an OPEN circuit against its verdict, and
  its limiter check cannot fail, because `is_allowed` answers True when Redis raises;
* the recovery daemon acknowledges an entry it has only logged (`RecoverAck`), while
  `fault_recovery.py:74` speaks of processing it;
* `telemetry_compactor.py:40` says that it compacts only what SQLite mirrors; the count
  of rows is logged and decides nothing (`Inspect`);
* `telemetry_compactor.py:54` passes `xtrim` a keyword redis-py does not have, so the
  swallowed TypeError leaves the stream as it is (`TrimAccepted`), and the stream grows
  without bound;
* the limiter admits `max_requests + 1` requests a window, which is the bound
  `WindowBound` states: the count is taken before the request is added, and only a
  count above `max_requests` is refused (`rate_limiter.py:43`);
* every caller that finds HALF-OPEN is let through, where `circuit_breaker.py:47`
  speaks of one canary (`Allow`), and a call admitted before a trip closes the circuit
  when it succeeds after it (`FindSuccess`, `SetClosed`);
* a process between the GET and the SET of `initialize` overwrites a trip with CLOSED
  (`BootSet`); the history variable `clean` excuses that from `TripIsNotForgotten`.

## 4. Proofs

TLAPS proves, for every value of the constants that satisfies the named
assumptions:

* `EventLedger_proofs`: `LedgerInvariant`, and from it `TypeCorrect`, `OneHandler`,
  `KeysNeverConflict`, `NothingLostSilently`, `HandIsOwned`, `NothingSkipped`.
  The properties are not inductive by themselves.  That an INSERT never meets its own
  key needs that a fresh event is in no open transaction, which needs that an unread
  entry has left no trace anywhere (`UnreadIsUntouched`) and that the cursor is in
  front of everything delivered (`DeliveredIsBehindCursor`, with `NoGroupNoCursor` for
  the group's creation).  That nothing is lost silently needs, at each acknowledgement,
  to know what was done before: `AckIsAccounted` for the instance, `ClaimIsLogged` for
  the daemon, `InsertedIsOpen` for the commit in between.  `OpenRowsAreNew` keeps the
  transactions of two connections apart.  `LedgerInv` is their conjunction.
  `UnreadEvictionNeedsBacklog` counts: what is evicted is at most the excess over the
  limit, and unread entries are the newest ones.
* `EventLedger_refinement`: `Refinement`, the pipeline implements `AuditTrail`.  Each
  action maps to one abstract step or a stutter; a commit maps to `Record` of the whole
  transaction.
* `LeaseLock_proofs`: `LeaseTypes`, `ExclusionUnlessLapsed`, `OthersFreeOnlyWhenLapsed`, for
  any set of clients and any lease.  The invariant `LeaseInv` says that whoever may still
  act on its lock and has not outlived its lease is the owner of the key, and that a key
  always has time left: so a second SET cannot succeed without a lease having ended.
* `RateLimiter_proofs`: `LimiterTypes`, `NothingForgotten`, `Bounded`, `RefusedForAReason`.  The key
  is that every transaction forgets only what its own, older, reading has left behind,
  and that the key outlives each reading's window (`LimiterInv`).
* `EventBroker_proofs`: `BrokerInvariant`, `BrokerTypes`, `HeardIsStored`, `DealtWithOnce`,
  `AllAccountedFor`.  What makes them inductive is that nobody has heard of a call that
  still has to broadcast (`HeardIsPublished`), so its messages are new when they arrive.
* `CircuitBreaker_proofs`: `BreakerTypes`; `NoTripForgotten` from `TripInv` (a reached
  threshold has somebody on the way to trip or to clear), for any number of processes,
  as long as no operation failed half-way and no starting process overwrote a trip
  (`clean`).  `SharedTypes`, `SharedForgetsNoTrip` and `TripsAreStamped` are about a key
  shared with any number of nodes: a node's write sets OPEN, or closes what was CLOSED, or
  closes over a trip and is recorded in `clean`, which is then the end of what they say.
* `Ingestion_proofs`: `QueueInvariant`, `NothingLostButOverrun`, `StoredInOrder`, for any
  sizes and any number of transactions.  What makes them inductive is that the buffer is
  the tail of what was accepted (`BufferIsLatest`): a transaction that falls out of it
  has `MaxBufferSize` later ones, and what is popped precedes what stays.
  `LateRowsAlone` needs no fact about sums: the set a running total adds up stays the
  same unless a row joins it, and the only row that can is the new one, with an id before
  that of the row reported.  `IngestionTypes` and `TailIsKept` need recursion, and the
  library's induction theorems cannot be used here, because they take an operator.
  `LeastNatural` replaces them: a non-empty set of naturals has a least element (the
  well-foundedness of `<`, which takes a set), so the set of the numbers for which a claim
  fails is empty.  With it `FoldExists` shows that a recursion has a solution, and
  `LoopKeepsTail` that the loop of `synchronize_ledger_buffer`, a fold over the table,
  leaves the last rows at the buffer's end, whatever it held before.
* `DatabaseArchiver_proofs`, for any finite number of archivers and any `max_backups`
  above zero (`ArchiverAssumption`).
  `ArchiverInv` is about snapshots that stay apart: one archiver is at work
  (`OneAtATime`), its file is the newest (`CopyIsNewest`) and whole before anything is
  listed (`CopyIsConsistent`, `FinishedIsWhole`), and the list it removes from is the
  vault (`ListIsFresh`).  `BackupStays`, `VaultIsTrimmed` and `AloneAllAreLeft` follow.
  `EnoughIsLeft` (`RotationKeepsEnough`) is about every interleaving, and rests on
  another invariant, `OverlapInv`.  It numbers the changes of files: a change `t` makes
  one file, `own[t]`, the newest, the vault is in the order of each file's last change
  (`v`), and a list in the order of the last changes that its sort has found or will find
  (`l`).  Such numbers exist in every state (`HaveTimes`); the proof makes them grow with
  `Touch`, and the model needs no history of them.  A rotation removes the files of its
  list up to some change; `top` is the latest of these.  It may remove too much only by
  files that one list dates up to `top` and another, or the vault, after it: such a file
  crosses `top`.  `X[t]` holds the files that cross `t` or may still do so, because an
  archiver is about to change them.  Each has an archiver that answers for it, and the one
  that made the change `t` answers for none, so `X[t]` is smaller than the set of
  archivers (`FewCross`).  The `max_backups` files that a new rotation leaves are newer
  than all it removes; less those that cross, no rotation removes them
  (`EnoughAreSafe`).  The file of the present second may be changed by anybody;
  `NowHasAMaker` gives it an archiver too.

The inductive invariants (`LedgerInv`, `LeaseInv`, `LimiterInv`, `BrokerInv`, `TripInv`,
`QueueInv`, `ProcessorInv`, `ArchiverInv`) are no properties of the runs: they were checked
with TLC in the same configurations while the proofs were written, and their proofs cover
every instance.  `OverlapInv` quantifies over functions on the naturals, which TLC cannot
enumerate; what follows from it, `RotationKeepsEnough`, was checked with two and with three
archivers before it was proved.
The same goes for `WindowIsRemembered`, on which `WindowBound` rests.

Every safety property of the passing runs is proved.  Only model-checked: what holds
under fairness (`BacklogDrains`, `KeyIsFreed`, `ServiceResumes`, `OutageTrips`,
`InboxDrains`, `FlagEndsListeners`), which is beyond the prover; and of course the
counterexamples.

## 5. Not modelled, and the plan

Left out: payloads and their fields, the spike flag of the window query, log wording, connection set-up and pools, the
schema's other columns, the SQLite count of the compactor (it decides nothing),
configuration, deployment files.

* Metrics and dashboards: each figure they show is one read of the stream or of the
  table, kept nowhere and acted upon by nobody; figures of one page are read at different
  moments, and the code does not relate them.
* Health monitor: its breaker and limiter calls are `Boot`, `BootSet` and a caller of
  `RateLimiter`; the rest of its sweep is reading and printing.
* State memory: `_local_metrics_cache` is read by its own getter only, the trace ids are
  printed, and three methods return constants.
* Redis keeps its data.  `docker-compose.yml` gives it a volume, so a restart may come
  back with an older snapshot; nothing in the code looks for that.
* The order of broadcasts, which no reader compares with the order of entries.

Next: the safety part of the liveness arguments (what each step toward a goal keeps); a
Redis that restarts behind, as one more action of `EventStream`; the limiter composed
with the orchestrator in place of a free answer.
