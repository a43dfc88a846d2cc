# ApexBase in TLA+

ApexBase (`src/apexbase`) is an embedded columnar database: a SQL engine over
one file per table, with transactions, a write-ahead log, secondary indexes,
full-text and vector search, and Python, PostgreSQL and Arrow Flight front
ends. This directory holds TLA+ specifications of its concurrent and
crash-prone parts, TLC models that check them on small instances, and theorems
about them that TLAPS checks for every value of the constants.
`PROJECT.json` lists the components, the runs, the mutants, the lines each
definition models, the findings, the hazards and the theorems.

Paths below are relative to `src/apexbase/src`.

## 1. The system

| Part | State | Operations | Modelled in |
|---|---|---|---|
| Transaction manager `txn/manager.rs`, `txn/context.rs` | open transactions, their buffered writes and read sets | begin, buffer, prepare, finalize, rollback, idle-timeout sweep, savepoints | `TxnManager` (no savepoints) |
| Conflict detector `txn/conflict.rs` | log of committed writes, write intents | validate, take and release intents, record, trim, clear | `TxnManager` |
| MVCC `storage/mvcc/` | version chains per row, active snapshots, cached oldest timestamp, collector flag | insert, update, delete, read at a timestamp, register, release, collect | `VersionStore`, `TxnManager` |
| Transactional SQL `query/executor/dml/coordination.rs` | none of its own | DML and SELECT in a transaction, the phases of COMMIT | `TxnManager`, `CommitWal` |
| WAL and recovery `storage/incremental.rs`, `storage/on_demand/storage_core.rs`, `agg_wal.rs` | log file, applied-length sidecar, `.delta`, `.deltastore`, base file | log, marker, apply, watermark, scan, replay, checkpoint | `CommitWal` |
| Query scheduler `query/scheduler.rs` | task queue, workers, shutdown flag, active count | submit, take, execute, cancel, wait, drop | `Scheduler` |
| Memory admission `admission.rs` | bytes in use, waiting count | acquire, wait, time out, release | `Admission` |
| Table locks `storage/cross_process_lock.rs`, `table_save_lock.rs`, `query/executor/mod.rs` | mutex per table, cached lock descriptors and owners, file lock | lock, nest, wait, release, close, prune | `WriteLocks`, `TableLock` |
| Table catalog `storage/table_catalog.rs`, `query/executor/ddl.rs` | mapped slots and header, lock file, schema records, registry caches, queued deletions | create, create from a query, drop, look up, drain, close | `TableCatalog` |
| Engine, caches, epochs `storage/engine.rs`, `epoch.rs`, `query/executor/mod.rs`, `storage/on_demand/read_write.rs`, `python/bindings/` (single-row store) | table file, published epoch, row-id mark, backend caches, buffered rows, deferred deletes | append, delete (three ways), buffer a row, reserve ids, read (two paths), apply deferred deletes | `TableEngine` |
| Delta store, indexes, blobs, FTS | sidecar files and their in-memory images | save, load, compact, mark stale, vacuum, flush | not modelled |
| Parser, planner, operators, vectors, conversions, servers, bindings | none shared | pure functions, protocol adapters | not modelled |

How they interact. A COMMIT (`execute_commit_txn`) asks the transaction manager
to prepare: validate against the conflict log and take the write intents. It
then opens each table's log, which may run crash recovery, writes the
transaction and its marker, applies the writes to the files, and returns to the
manager to publish: record the commit in the conflict log, push row versions,
release the snapshot, trim the log and collect old versions. Statements reach
this code through the facade, which first asks admission for memory, or through
the scheduler's workers. Outside transactions, a write takes the locks its entry
point takes, reserves row ids in the table's shared sidecar, changes the file in
place or replaces it, and publishes a new epoch, by which the caches of every
process recognise that they are out of date. Tables come and go through the
catalog, a file that all processes of a directory map into memory.

What makes it hard: the manager drops its lock between the record of a commit
and the push of its versions; the snapshot manager keeps its minimum outside the
lock; transaction ids restart with the process while the log stays; recovery
runs inside opens that belong to transactions; two condition variables with
flags and signals outside their mutex; a file lock that belongs to a descriptor
which the threads of a process share; readers that take no lock while a writer
overwrites the footer they look for; deletes that are acknowledged in memory and
written by whoever opens the table next. The complete list, with the line where
each bites, is under `hazards` in `PROJECT.json`.

What should hold of each part, and what threatens it:

| Part | Hard behaviour | Correct means |
|---|---|---|
| Transactions, conflicts | steps of several threads between locks; trimming and clearing of the log; timeouts | writers of one row never both commit from one snapshot; no intent or snapshot outlives its transaction |
| MVCC | collection while snapshots are open; registration outside the lock | an open snapshot always reads the same version |
| Commit and WAL | crash after every file operation; partial failure; torn tail; reused ids | exactly the durable commits are visible after recovery; recovery may run twice |
| Scheduler | signal outside the mutex; cancel, panic, drop | no worker sleeps on work; an accepted query is answered; drop returns |
| Admission | a release racing waits and deadlines; bounded queue | within budget, exact count, no lost wake-up, every wait ends |
| Locks | nested and shared acquisition through one descriptor; close, pruning and death while others wait | one writer at a time over all processes; a nested call does not wait for itself; every call returns |
| Catalog | slot and header written apart; stale mappings; one descriptor for all threads of a process; deletion deferred past a new CREATE | what was created is listed, what was dropped is not; header, slots and caches agree; a new table keeps its file |
| Engine, epochs | lookup and use of a cache entry on two sides of a write; torn file; deferred deletes; tables older than the sidecar | a read serves every write that returned before it; ids never handed out twice; an append never overwrites what it does not know |
| Savepoints | write set cut back while base ids stay | the context after a rollback is the one at the savepoint |
| Delta store, rewrite | crash between rename, truncation and removal of sidecars | contents before and after a rewrite agree |
| Indexes | commit fails between stale mark and index write | a lookup never misses a committed row |
| Blobs, FTS | rewrite against concurrent readers | a reader sees one generation; no live blob is vacuumed |

## 2. Modules

**`VersionStore`** - pure operators: version chains and what `add_version`,
`get_visible`, `read_latest` and `gc` do to them. A chain is a set of versions
with sequence numbers, a row's data a function from columns to values.

**`TxnManager`** - extends `VersionStore`. Threads execute calls; a call that runs
under one lock acquisition is one action, otherwise there is one action per
lock acquisition or atomic access, and `thread[th].pc` says where a thread is.
With one thread calls do not overlap, but transactions still interleave. Table
contents are the variables `rows` and `next_id`; the storage commit applies the
writes or fails part way. `history` (all commits) and `seen` (what SELECTs
returned, in the columns the snapshot decides) are auxiliary. `Readers` and
`MaxWrites` say which transactions run SELECTs and how much each writes. Data is abstracted to a number per cell that identifies
its writer. Simplifications: the sweep's releases happen in one step under the
lock; the version-store reads of one SELECT are one step; the claim of the
collector flag and the read of the oldest timestamp are one step.

**`CommitWal`** - one table with a log: base file, `.delta` batches, `.deltastore`
cells and deletions, WAL records, applied-length sidecar. COMMIT is a sequence
of actions (open with recovery in four steps, log, spill of the buffer, marker,
apply write by write, finalize, watermark), each of which can be the last before
a crash, and most of which can fail. Reads recover too; autocommit INSERT and
the full rewrite (checkpoint) are the other writers. A crash keeps the files,
loses the threads and restarts transaction ids. Records have length one, so
byte offsets are record counts. Updates and deletes address rows of the base
file. The repair of a torn `.delta`, the steps inside a rewrite, the row-id
reservation mark and other processes are left out. `expect`, `dead`, `log_gen`,
`mark_gen`, `boot` and `sound` are history variables that only properties read.

**`Scheduler`** - the owner thread, the workers and the holders of handles. Worker
steps follow the code statement by statement where the mutex or an atomic is
touched, so that the flag, stored without the mutex, can change between a
worker's test and its wait.

**`Admission`** - statements of concurrent sessions. A thread holds the mutex from
its lock or wake-up to its return or next wait, which is one action; signals,
deadlines and spurious wake-ups are separate. Sizes are small numbers.

**`TableLock`** - abstract specification: over the threads of all processes, either
one writer or any number of readers. Its steps are acquire, release and the death
of a process, which drops what its threads hold.

**`WriteLocks`** - the layers of locks around a mutation of one table. `Layers` says
which of them an entry point takes (SQL statements, COPY, the Python bindings,
`Database::write`, direct calls of the embedded API, COMMIT, point reads); a
thread takes them in order, works and drops its guards in reverse. The
cross-process layer is modelled statement by statement: look up or insert the
cached descriptor, claim its owner field or wait on the condition variable, wait
for the file lock with a time limit, and in reverse. A client that closes
releases idle descriptors, the map of mutexes is pruned of entries nobody else
holds, and a process may die anywhere. A file lock belongs to a descriptor:
locking twice through one succeeds, which is what makes a nested acquisition
possible and a second descriptor for the same file dangerous. Opening or reading
errors of the lock file are left out. `ImplementsLock` states
that the detailed lock implements `TableLock` with the holders of the descriptor
that has the file lock as writers.

**`TableCatalog`** - `.apex_tables`, its lock file, `.apex_schemas` and the deferred
deletion of table files, as `CREATE TABLE`, `CREATE TABLE ... AS SELECT`,
`DROP TABLE` (SQL and embedded), first accesses and closes drive them. Slots and
header are written in separate steps, so that a death can fall between. A file
is a number, a new one for every creation, which is what the fingerprint of a
queued deletion tells apart. Writing through a mapping may or may not move the
modification time, so a write makes the other mappings stale or not, by choice.
`overlap` and `torn` record the two ways in which the lock fails to protect: two
threads of one process inside it through one descriptor, and a death between
slot and header. Left out: clearing a whole directory, names longer than a slot,
ALTER of a table that has only a schema record, a death while the catalog file is
being created.

**`TableEngine`** - one table file as threads of several processes append to it,
delete from it and read it. A row is its id; a file is its live rows, inode,
footer offset, largest id and stamp. `write_typed` goes through the insert
backend and appends in place in two writes, between which the file is torn;
`delete_one` goes through the write backend and rewrites into a new inode or
writes deletion vectors; SQL DELETE by range may defer, by `_id` writes in place.
Reads follow `get_read_backend` and `get_cached_backend`: epoch, cache look-up,
open, and the entry they leave. `buffer` is the single-row store of the Python
bindings: it opens a backend once, keeps the row in it, publishes an epoch, and
registers the backend in the executor's cache, where a read that finds it out of
date tags it with the new epoch and is served by it all the same. Writers hold the locks of `WriteLocks` for their
whole call (`writer`); appliers of deferred deletes hold only the rewrite lock of
their process, as in the code. Left out: flushing buffered rows (a process that
has buffered a row begins no other write), blocks of several row ids, replacing rows, delta files and their
compaction, schema changes, eviction, death inside a call, changes within one
clock tick of the file system.

**`MC...` modules** - definitions for TLC (symmetry, write-set shapes, which thread
belongs to which process and makes which calls). `Scheduler` and `Admission` are
checked directly.

**`VersionStoreProofs`, `TxnManagerProofs`, `TxnSnapshotProofs`, `TxnSerialProofs`,
`AdmissionProofs`, `WriteLocksInv`, `WriteLocksCross`, `WriteLocksProofs`** - the
theorems. The last three are one development: the invariant with the steps that
barely touch it, the steps of the cross-process lock, and the theorems.

Definitions whose comment starts with "Mutant" are faulty variants of the
definition that follows. They are not part of the specifications: they show that
each property can fail.

## 3. Runs

| Run | Checks | Instance | Distinct states |
|---|---|---|---|
| `txn_threads` | `TypeOK`, `IntentsExclusive`, `NoOrphanIntent`, `OldestBoundsSnapshots`, `NoSnapshotLeak`, `CallsReturn` | 2 threads, 2 transactions, 1 row, storage faults, read-only transactions | 184 k |
| `txn_serial` | `FirstCommitterWins`, `ChainsOrdered`, `VisibleVersionStable` | non-overlapping calls, 3 transactions, 2 rows, storage faults, autocommit | 789 k |
| `txn_reads` | `RepeatableRead`, `InsertKeepsItsId` | non-overlapping calls, 3 transactions that insert and update (the first up to 2 writes), one that selects; 3 rows of 2 columns | 1.24 M |
| `wal_recovery` | `RecoveryExact`, `RecoveryIdempotent` | 1 thread, 3 write sets, 2 crashes, every fault | 1.14 M |
| `scheduler` | `OnePlace`, `NoSleepingOnWork`, `AcceptedIsAnswered`, `DropReturnsUnlessMissed` | 2 workers, queue of 2, 3 handles, cancel, panic, drop | 189 k |
| `admission` | `ReservationsFit`, `QueueCounted`, `NoLostSlot`, `QueuedIsNotRejected`, `WaitEnds` | 4 statements, budget 3, reservations 1 and 2, queue of 2 | 40 k |
| `locks` | `SerializedExceptUnlocked`, `NestedWaitsOnlyIfDropped`, `NoSleepOnFreeEntry`, `ImplementsLock`, `CallsReturn` | 3 threads of 2 processes, all entry points, 5 descriptors, close, prune, 1 death | 186 k |
| `catalog` | `CreatedIsListed`, `DroppedIsGone`, `HeaderExact`, `CacheCoherent`, `SomeoneGoesOn`, `ReapsOnlyOvertaken` | 3 threads of 2 processes, 3 statements, 2 names, 2 slots, 8 mappings, 1 death, with and without a catalog at the start | 1.18 M |
| `engine` | `AppendFindsFooter`, `CommittedRowsKept`, `ReadsAreCurrent`, `UniqueIds`, `IdsAboveTable`, `OwnWritesNotOverwritten`, `OwnDeferredDeletesApplied` | 3 threads of 2 processes, 3 calls, 3 rows, 1 restart | 315 k |

Every module has a `TypeOK` that documents the shape of its state; it holds in each
of these instances when it is added to the configuration, and `TypeCorrect` proves it for the
transactions. Only `txn_threads` keeps it as a standing check.

Why the bounds suffice for the questions asked. A lost conflict needs two
writers of one row and a third party that trims the log: two transactions with
overlapping calls or three without. Chains need two versions above a base
version to be collectable between snapshots: `txn_serial` has three
transactions. A SELECT that takes one column from a version and another from
storage needs a commit of one column, a snapshot and a commit of the other: three
transactions over two columns in `txn_reads`, whose first transaction may also
write a row twice or buffer two inserts, the second of which follows the first.
A misread log needs a record
written before a crash, one written after it and one recovery of both: two
crashes and three write sets also give a recovery interrupted by a crash. The
scheduler needs one worker that parks while another works, and more queries than
the queue holds; admission needs a heavy waiter that does not fit beside a light
one that does, and more statements than places. The lock needs two threads of
one process, which share a descriptor, against one of another, and enough
descriptors for each to be replaced after a close while its holder still has it.
The catalog needs a name that is created, dropped and created again while the
other process still has the first deletion queued: three statements, with every
slot in use. The engine needs a cached entry, a change by another process and
the call that would trust the entry; so does a backend with buffered rows. The
same properties held with four calls (9.6 million states, 4 minutes on 4 cores).

Deadlock checking is off where the bounds on transactions, timestamps, calls or
crashes end the workload, and in `scheduler`, whose pool may be dropped. It is on in
`admission`; `SomeoneGoesOn` states for the catalog what it would check.

Fairness. `txn_threads` assumes that a thread inside a call whose next step is
possible takes it. `scheduler` assumes the same of workers and of the owner
inside a call, and nothing about new queries, cancellation, or drop. `locks`
assumes that a thread inside a call takes its next possible step, which includes
giving up on the file lock after `MAX_WAIT`; nobody has to call, close, prune or
die.
`admission` assumes that time passes (deadlines expire), that signalled and
expired waits return, and that a running statement ends; spurious wake-ups are
never assumed. These are what an operating system's scheduler, and queries that
terminate, provide.

### Disagreements between the code and what it says

| Run | Property | What happens |
|---|---|---|
| `txn_v_first_committer` | `FirstCommitterWins` | with two threads, a transaction between its timestamp and its registration misses a conflict, because a commit clears the log |
| `wal_v_lost` | `MarkedIsVisible` | a durable commit is skipped by recovery when the recovering transaction reuses its id, and is then marked applied |
| `engine_v_mmap` | `WriterHoldsData` | a reader refills the engine cache between a writer's invalidation and its second look, and the writer's delete goes into a backend that only maps the file |

Other states in which the code differs from what one would expect of it are
reached by the models and are named in the properties of the passing runs, which
hold outside them:

- a version holds only the columns its UPDATE set (`manager.rs:388`), and a SELECT
  takes the others from storage (`coordination.rs:1040`), where the commits after
  its snapshot show: `RepeatableRead` is stated for the columns the visible
  version carries, and TLC finds it violated for whole rows;
- with two threads, a later commit of a row can push its version before an
  earlier one does, because `finalize_commit` drops its lock before it pushes
  (`manager.rs:349`): a chain is then not "ordered newest-first", as
  `version_store.rs:111` says, nor is a new version "newer than all existing
  versions" (`version_store.rs:129`), and a snapshot may be taken between a
  commit's record and its push. `ChainsOrdered`, `VisibleVersionStable` and
  `RepeatableRead` are therefore stated for calls that do not overlap, and
  `ChainsOrdered` fails with two threads;
- a transaction that deletes a row and then updates it pushes a tombstone and then
  the base version in place of the whole chain (`manager.rs:385`), which changes
  what older snapshots read: `txn_serial` has one write per transaction, because
  `VisibleVersionStable` fails with a DELETE and an UPDATE of one row in one;
- a row deleted after a snapshot vanishes from the next SELECT, and an
  autocommitted INSERT takes the id a transaction buffered: `txn_reads` leaves
  out deletes, read-only transactions and autocommitted statements because
  `RepeatableRead` and `InsertKeepsItsId` fail with them;
- a worker that parks after the only shutdown notification is never woken, and
  the drop of the pool does not return (`DropReturnsUnlessMissed`);
- COMMIT takes no table lock, and the direct calls of the embedded API take one
  that other processes and SQL statements do not look at
  (`SerializedExceptUnlocked`); a close drops the descriptor of an outer guard,
  and the nested acquisition then waits for its own thread until `MAX_WAIT`
  (`NestedWaitsOnlyIfDropped`);
- threads of one process enter the catalog's critical section together, because
  the lock belongs to their shared descriptor (`overlap`), although
  `table_catalog.rs:5` says that all mutations run under an exclusive lock;
- a death between slot and header leaves them apart (`torn`), a directory that
  came without a catalog can list a dropped table again (`bare`), and a
  `CREATE ... AS` can wait for the lock it holds itself (`WaitsForItself`);
- a process that drains its queue removes the new file of a table which another
  process created between the check and the unlink (`ReapsOnlyOvertaken`);
- a backend with buffered rows is registered in the executor's cache under the
  epoch of that moment (`query/executor/mod.rs:1035`), and every read that finds
  it under an older epoch tags it with the new one and is served by it
  (`mod.rs:1091`), although `storage/backend.rs:910` says that a cache "must tag it
  with *this* epoch", the one its rows were loaded at. SQL reads of a process that
  buffers rows therefore miss what other processes append after it opened the
  backend, until it flushes; `ReadsAreCurrent` owes them what had returned by then.
  Conversely, a read that finds the file changed and the epoch not yet published
  reopens the file, and its entry replaces the backend: the buffered rows are then
  missing from SQL reads, which registering the backend was to prevent
  (`mod.rs:1019`);
- a read that finds the file torn falls back on whatever backend is cached
  (`mod.rs:1182`, exempt from `ReadsAreCurrent`);
- a deferred delete is written over another process's change (`overwrote`), or
  thrown away because of it or at the end of the process (`forfeited`).

`RecoveryExact` and `RecoveryIdempotent` hold of logs without five anomalies that
`CommitWal` names: `GhostRecord`, `ReusedRowId`, `HiddenRecords` (records behind a
torn one), `StaleSidecar` (an applied length that outlived its log) and
`AliasedTxnId`. TLC reaches each of them; the hazards say where the code lets
them arise.

## 4. Proofs

All constants are arbitrary, under the named assumptions of the modules
(`TxnAssumption`, `ConfigAssumption`, and so on), which TLC evaluates in the runs.

- `TypeCorrect` (`TxnManagerProofs`): `Spec => []TypeOK`. The inductive invariant
  `Typed` adds to `TypeOK` which fields of a thread are meaningful at which
  program counter.
- `IntentsAreExclusive`, `IntentsHaveOwners`, `OldestIsALowerBound`
  (`TxnSnapshotProofs`), for any number of threads. The invariant `TxnInv` adds
  that an id is handed out once and never comes back, that a transaction's
  write keys are those of its buffered writes, that its snapshot is registered
  from before it is entered until after it has ended, and that the cached minimum is a lower bound of every registered
  snapshot whose `fetch_min` has been executed. The last is what the race
  between `register` and `release` threatens.
- `FirstCommitter` (`TxnSerialProofs`): `FirstCommitterWins`, when calls do not
  overlap (`OneThread`). `SerialInv` says that every commit newer than an open
  snapshot is still in the log, which needs the bound the trimming uses to be at
  most every open snapshot. With overlapping calls it is false
  (`txn_v_first_committer`).
- `GcKeepsReads`, `PushKeepsReads` (`VersionStoreProofs`): collecting a chain, or
  adding a newer version, does not change what an open snapshot reads.
- `QueueIsBounded`, `SlotsAreNotLost`, `QueuedIsKept` (`AdmissionProofs`). The
  invariant joins types, budget, the exact count and the wake-up property; one
  lemma (`AttemptCounts`) covers the loop body for new and woken statements.

- `Serialized`, `NestedAcquisition`, `Refinement` (`WriteLocksProofs`), for any
  number of processes, threads, descriptors, calls and deaths. The invariant says
  which guards a thread has at which place, that the owner of a descriptor is
  the one thread inside its critical section, that whoever holds a descriptor
  outside its release has the file lock through it, and that a thread's
  descriptor is the cached one unless a close took it out of the map. For the
  refinement, the initial states map to initial states of `TableLock` and every
  step to an acquisition, a release, a death or a stuttering step: granting the
  file lock is the acquisition, since a descriptor's owner is unique.

Only model-checked: liveness (`CallsReturn`, `AcceptedIsAnswered`, `WaitEnds`,
`DropReturnsUnlessMissed`), which is beyond the prover; the sum in `ReservationsFit`, which needs induction
over a fold; everything in `CommitWal`, `Scheduler`, `TableCatalog` and
`TableEngine`; `NoSleepOnFreeEntry`; `ChainsOrdered`,
`VisibleVersionStable`, `RepeatableRead`, `InsertKeepsItsId`, `NoSnapshotLeak`.

## 5. Not modelled

Within reach of these methods and not done, in order of what would cost most if
it were wrong:

1. Delta store and base rewrite: save, reload, compaction and readers; the steps
   inside `Checkpoint` of `CommitWal`; replacing rows, the compaction in
   `get_write_backend` and the flush of buffered rows (`wrapper.rs:1733`) of
   `TableEngine`.
2. Secondary indexes: stale marks around a commit and the rebuild on open.
3. Blob vacuum against readers of the sidecar; flush and reload of the full-text
   index.
4. Commits that span several tables: the markers are written table by table
   (`coordination.rs:195`), so a crash between two of them commits half.
5. Several processes that write one log (`incremental.rs:918`), a replay that
   measures the log while another process appends (`storage_core.rs:3820`), and a
   deferred delete that other processes do not see until it is applied
   (`read_write.rs:7002`).
6. A death in the middle of an append (`read_write.rs:7279`, `7310`), two changes
   within one tick of the file's modification time (`engine.rs:465`), the removal
   of lock files with their table (`table_catalog.rs:1167`), and the process-local
   reservation of row ids without a sidecar (`epoch.rs:148`), and the block of ids
   that a backend reserves ahead (`storage_core.rs:3123`): `UniqueIds` is about
   `reserve_row_ids` called for one id at a time.
7. Proofs of `Scheduler` (`NoSleepingOnWork` with cardinalities), of
   `ChainsOrdered` for one thread and of the catalog's header.

Out of reach: query evaluation, encodings, parsing, vector kernels and protocol
adapters are functions of large inputs with no shared state; they belong to
tests, and they are most of the repository. The scaling framework has no
callers.
