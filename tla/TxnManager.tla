----------------------------- MODULE TxnManager -----------------------------
(***************************************************************************)
(* The transaction manager (txn/manager.rs) with the parts it drives: the  *)
(* conflict detector (txn/conflict.rs), the snapshot manager, the version  *)
(* stores and their garbage collector (storage/mvcc), and the executor's   *)
(* statements inside a transaction (query/executor/dml/coordination.rs).   *)
(*                                                                         *)
(* Threads run API calls concurrently.  A call is one action when it runs  *)
(* under one acquisition of a lock, and one action per lock acquisition or *)
(* atomic access otherwise; `thread[th].pc` says where a thread stands.    *)
(* With a single thread the calls are atomic with respect to each other.   *)
(***************************************************************************)
EXTENDS VersionStore, Sequences

CONSTANTS Threads,       \* OS threads calling into the manager
          Tables,        \* tables (each has its own version store)
          MaxTxn,        \* bound on the number of transactions begun
          MaxWrites,     \* per transaction: bound on its buffered writes
          Ops,           \* operations the workload uses, out of AllOps
          Readers,       \* transactions that run SELECTs
          StorageFaults, \* whether the storage commit may fail
          InitRows       \* number of rows each table holds at the start

Key    == Tables \X Rows
TxnIds == 1..MaxTxn
Seeded == MaxTxn + 1     \* the value of every cell of an initial row
AutoVal == MaxTxn + 2     \* the value autocommitted statements write
DmlOps == {"insert", "update", "delete"}
AllOps == DmlOps \cup {"record_read", "read_only", "autocommit"}

ASSUME TxnAssumption ==
  /\ MaxTxn \in Nat /\ MaxWrites \in [TxnIds -> Nat]
  /\ MaxVal >= MaxTxn + 2
  /\ Ops \subseteq AllOps /\ Readers \subseteq TxnIds
  /\ StorageFaults \in BOOLEAN
  /\ InitRows \in 0..MaxRow

TxnWrite == [kind: DmlOps, key: Key, old: Data, new: Data]

NoTxn == [status |-> "none", snapshot_ts |-> 0, read_only |-> FALSE,
          write_set |-> <<>>, write_keys |-> {}, read_set |-> {},
          insert_base_ids |-> [tb \in Tables |-> 0]]

VARIABLES
  global_ts,         \* GLOBAL_TS: the next timestamp
  next_txn,          \* NEXT_TXN_ID
  active_txns,       \* per transaction id: its ActiveTxn entry, or NoTxn
  snapshots,         \* SnapshotManager.active
  oldest_active_ts,  \* SnapshotManager.oldest_active_ts
  committed_writes,  \* ConflictDetector.committed_writes
  active_writes,     \* ConflictDetector.active_writes: the intent on each key (0: none)
  stores,            \* every VersionStore ever allocated
  version_stores,    \* TxnManager.version_stores: index into stores (0: no entry)
  gc_running,        \* GarbageCollector.running
  rows,              \* table contents as the executor reads and writes them
  next_id,           \* the id storage gives the next row of a table
  thread,            \* per thread: program counter and local variables
  history,           \* history of commits, never trimmed (auxiliary)
  seen               \* what each transaction's SELECTs returned (auxiliary)

mvccVars == <<stores, version_stores, gc_running>>
snapVars == <<snapshots, oldest_active_ts>>
logVars  == <<committed_writes, active_writes>>
auxVars  == <<history, seen>>
rowVars  == <<rows, next_id>>
vars == <<global_ts, next_txn, active_txns, snapshots, oldest_active_ts,
          committed_writes, active_writes, stores, version_stores, gc_running,
          rows, next_id, thread, history, seen>>

Idle == [pc |-> "idle", txn |-> 0, ts |-> 0, read_only |-> FALSE, writes |-> <<>>,
         n |-> 0, store |-> 0, oldest |-> 0, todo |-> {}, row |-> NoData, key |-> <<>>]

Goto(th, l) == thread' = [thread EXCEPT ![th] = l]
At(th, pc)  == thread[th].pc = pc
Step(th, pc) == Goto(th, [thread[th] EXCEPT !.pc = pc])
Live(t)     == active_txns[t].status # "none"

Init ==
  /\ global_ts = 1 /\ next_txn = 1
  /\ active_txns = [t \in TxnIds |-> NoTxn]
  /\ snapshots = {} /\ oldest_active_ts = TS_MAX
  /\ committed_writes = {}
  /\ active_writes = [k \in Key |-> 0]
  /\ stores = <<>> /\ version_stores = [tb \in Tables |-> 0]
  /\ gc_running = FALSE
  /\ rows = [k \in Key |-> IF k[2] <= InitRows THEN [c \in Cols |-> Seeded] ELSE NoData]
  /\ next_id = [tb \in Tables |-> InitRows + 1]
  /\ thread = [th \in Threads |-> Idle]
  /\ history = {}
  /\ seen = [t \in TxnIds |-> [k \in Key |-> {}]]

-----------------------------------------------------------------------------
(* Snapshot manager. *)

MinTs(S) == IF S = {} THEN TS_MAX
            ELSE CHOOSE m \in S : \A n \in S : m <= n

\* SnapshotManager::release, under its write lock: recompute the minimum.
ReleaseSnapshots(T) ==
  /\ snapshots' = {s \in snapshots : s.txn \notin T}
  /\ oldest_active_ts' = MinTs({s.ts : s \in snapshots'})

(* Conflict detector. *)

\* Mutant: only the read set is validated.
ConflictsReadSetOnly(t) ==
  \E cw \in committed_writes :
    cw.key \in active_txns[t].read_set /\ cw.ts > active_txns[t].snapshot_ts /\ cw.txn # t

\* ConflictDetector::validate: a row read or written here was committed by
\* another transaction after our snapshot.
Conflicts(t) ==
  \E cw \in committed_writes :
    /\ cw.key \in active_txns[t].read_set \cup active_txns[t].write_keys
    /\ cw.ts > active_txns[t].snapshot_ts
    /\ cw.txn # t

\* Mutant: the intents of other transactions are not looked at.
IntentUnchecked(t) == FALSE

\* ConflictDetector::acquire_write_intent finds another holder.
IntentTaken(t) == \E k \in active_txns[t].write_keys : active_writes[k] \notin {0, t}

\* Mutant: an abort leaves its intents behind.
IntentsLeft(T) == UNCHANGED active_writes

\* ConflictDetector::record_abort for a set of transactions: each releases
\* the intents it holds on its own write keys.
ReleaseIntents(T) ==
  active_writes' =
    [k \in Key |-> IF active_writes[k] \in {t \in T : k \in active_txns[t].write_keys}
                   THEN 0 ELSE active_writes[k]]

\* The abort of transactions under the active_txns lock.
AbortTxns(T) ==
  /\ active_txns' = [t \in TxnIds |-> IF t \in T THEN NoTxn ELSE active_txns[t]]
  /\ ReleaseIntents(T)
  /\ UNCHANGED committed_writes

-----------------------------------------------------------------------------
(* BEGIN [READ ONLY]. *)

\* Mutant: the timestamp counter is advanced twice.
BeginTwice(th) ==
  /\ At(th, "idle") /\ next_txn <= MaxTxn /\ global_ts <= MaxTs
  /\ Goto(th, [Idle EXCEPT !.pc = "register", !.txn = next_txn, !.ts = global_ts])
  /\ next_txn' = next_txn + 1
  /\ global_ts' = global_ts + 2
  /\ UNCHANGED <<active_txns, snapVars, logVars, mvccVars, rowVars, auxVars>>

Begin(th) ==
  /\ At(th, "idle") /\ next_txn <= MaxTxn /\ global_ts <= MaxTs
  /\ Goto(th, [Idle EXCEPT !.pc = "register", !.txn = next_txn, !.ts = global_ts])
  /\ next_txn' = next_txn + 1
  /\ global_ts' = global_ts + 1
  /\ UNCHANGED <<active_txns, snapVars, logVars, mvccVars, rowVars, auxVars>>

\* A read-only snapshot takes the counter's current value without advancing it.
BeginReadOnly(th) ==
  /\ "read_only" \in Ops
  /\ At(th, "idle") /\ next_txn <= MaxTxn /\ global_ts <= MaxTs
  /\ Goto(th, [Idle EXCEPT !.pc = "register", !.txn = next_txn, !.ts = global_ts,
                           !.read_only = TRUE])
  /\ next_txn' = next_txn + 1
  /\ UNCHANGED <<global_ts, active_txns, snapVars, logVars, mvccVars, rowVars, auxVars>>

\* SnapshotManager::register: insert under the lock, fetch_min after it.
Register(th) ==
  /\ At(th, "register")
  /\ snapshots' = snapshots \cup {[txn |-> thread[th].txn, ts |-> thread[th].ts]}
  /\ Step(th, "fetch_min")
  /\ UNCHANGED <<global_ts, next_txn, active_txns, oldest_active_ts, logVars, mvccVars,
                 rowVars, auxVars>>

\* Mutant: a plain store instead of fetch_min.
StoreOldest(th) ==
  /\ At(th, "fetch_min")
  /\ oldest_active_ts' = thread[th].ts
  /\ Step(th, "enter")
  /\ UNCHANGED <<global_ts, next_txn, active_txns, snapshots, logVars, mvccVars, rowVars, auxVars>>

FetchMin(th) ==
  /\ At(th, "fetch_min")
  /\ oldest_active_ts' = MinTs({oldest_active_ts, thread[th].ts})
  /\ Step(th, "enter")
  /\ UNCHANGED <<global_ts, next_txn, active_txns, snapshots, logVars, mvccVars, rowVars, auxVars>>

Enter(th) ==
  /\ At(th, "enter")
  /\ active_txns' = [active_txns EXCEPT ![thread[th].txn] =
                       [NoTxn EXCEPT !.status = "active", !.snapshot_ts = thread[th].ts,
                                     !.read_only = thread[th].read_only]]
  /\ IF thread[th].read_only THEN Goto(th, Idle) ELSE Step(th, "sweep")
  /\ UNCHANGED <<global_ts, next_txn, snapVars, logVars, mvccVars, rowVars, auxVars>>

\* abort_timed_out_txns: any open transaction not yet in commit may have been
\* idle for longer than the timeout.
Sweep(th) ==
  /\ At(th, "sweep")
  /\ \E T \in SUBSET {t \in TxnIds : active_txns[t].status = "active"} :
       /\ AbortTxns(T)
       /\ IF T = {} THEN UNCHANGED snapVars ELSE ReleaseSnapshots(T)
  /\ Goto(th, Idle)
  /\ UNCHANGED <<global_ts, next_txn, mvccVars, rowVars, auxVars>>

-----------------------------------------------------------------------------
(* Statements inside a transaction: with_context runs under the lock. *)

WriteData(t, kind, cols) ==
  [c \in Cols |-> IF kind # "delete" /\ c \in cols THEN t ELSE 0]

\* The id a transactional INSERT gives its row: the storage allocator's next id
\* as first seen by this transaction, plus the inserts already buffered.
PendingInserts(t, tb) ==
  Cardinality({i \in 1..Len(active_txns[t].write_set) :
                 active_txns[t].write_set[i].kind = "insert"
                 /\ active_txns[t].write_set[i].key[1] = tb})
InsertBase(t, tb) ==
  IF active_txns[t].insert_base_ids[tb] # 0 THEN active_txns[t].insert_base_ids[tb]
  ELSE next_id[tb]

\* INSERT, UPDATE and DELETE first consult storage: the next row id, or the
\* stored row (its absence ends the statement) ...
Lookup(th, t, kind, k, cols) ==
  /\ At(th, "idle") /\ active_txns[t].status = "active"
  /\ Len(active_txns[t].write_set) < MaxWrites[t]
  /\ kind # "update" => cols = Cols
  /\ IF kind = "insert" THEN k[2] = InsertBase(t, k[1]) + PendingInserts(t, k[1])
                        ELSE rows[k] # NoData
  /\ Goto(th, [Idle EXCEPT !.pc = "buffer", !.txn = t, !.n = InsertBase(t, k[1]),
                 !.writes = <<[kind |-> kind, key |-> k, new |-> WriteData(t, kind, cols),
                               old |-> IF kind = "insert" THEN NoData ELSE rows[k]]>>])
  /\ UNCHANGED <<global_ts, next_txn, active_txns, snapVars, logVars, mvccVars, rowVars, auxVars>>

\* TxnContext::buffer_insert, buffer_update, buffer_delete: the write goes to the
\* end of the write set; the first insert into a table fixes its base id.
Buffered(a, w, base) ==
  LET first == w.kind = "insert" /\ a.insert_base_ids[w.key[1]] = 0
  IN  [a EXCEPT !.write_set = Append(@, w),
                !.write_keys = @ \cup {w.key},
                !.insert_base_ids = IF first THEN [@ EXCEPT ![w.key[1]] = base] ELSE @]

\* ... and then buffer the write.  A read-only transaction refuses it, and so
\* does an insert of a row id already written here.
BufferWrite(th) ==
  /\ At(th, "buffer")
  /\ Goto(th, Idle)
  /\ LET t == thread[th].txn
         w == Head(thread[th].writes)
     IN  IF \/ active_txns[t].status # "active" \/ active_txns[t].read_only
            \/ w.kind = "insert" /\ w.key \in active_txns[t].write_keys
         THEN UNCHANGED active_txns
         ELSE active_txns' = [active_txns EXCEPT ![t] = Buffered(@, w, thread[th].n)]
  /\ UNCHANGED <<global_ts, next_txn, snapVars, logVars, mvccVars, rowVars, auxVars>>

RecordRead(th, t, k) ==
  /\ "record_read" \in Ops
  /\ At(th, "idle") /\ active_txns[t].status = "active"
  /\ active_txns' = [active_txns EXCEPT ![t].read_set = @ \cup {k}]
  /\ UNCHANGED <<global_ts, next_txn, snapVars, logVars, mvccVars, rowVars, thread, auxVars>>

\* with_context, at the start of a statement or after its storage access, finds
\* the transaction idle for too long.
ContextTimeout(th, t) ==
  /\ \/ At(th, "idle")
     \/ thread[th].pc \in {"buffer", "overlay"} /\ thread[th].txn = t
  /\ active_txns[t].status = "active"
  /\ AbortTxns({t})
  /\ Goto(th, [Idle EXCEPT !.pc = "release", !.txn = t])
  /\ UNCHANGED <<global_ts, next_txn, snapVars, mvccVars, rowVars, auxVars>>

\* SELECT inside a transaction reads table storage first ...
SelectScan(th, t, k) ==
  /\ t \in Readers
  /\ At(th, "idle") /\ active_txns[t].status = "active"
  /\ Goto(th, [Idle EXCEPT !.pc = "overlay", !.txn = t, !.key = k, !.row = rows[k]])
  /\ UNCHANGED <<global_ts, next_txn, active_txns, snapVars, logVars, mvccVars, rowVars, auxVars>>

\* Mutant: the read guard stays alive until the call returns.
GuardKept == \E u \in Threads : thread[u].pc \in {"gc", "gc_run"}

\* The collection loop of a commit holds the read lock of the map.
StoresReadLocked == \E u \in Threads : thread[u].todo # {} \/ At(u, "gc_run")

\* TxnManager::get_version_store: the entry of the map, created when missing.
OpenStore(tb) ==
  IF version_stores[tb] # 0 THEN UNCHANGED <<stores, version_stores>>
  ELSE /\ ~StoresReadLocked
       /\ stores' = Append(stores, EmptyStore)
       /\ version_stores' = [version_stores EXCEPT ![tb] = Len(stores) + 1]

\* One row of the result: own deletes hide it, a row whose newest version is
\* live is replaced by the version visible at the snapshot (columns the version
\* does not carry keep the storage value), any other row is returned as stored.
Overlay(t, k, row, chain) ==
  LET version == ReadAt(chain, active_txns[t].snapshot_ts)
  IN  IF row = NoData THEN NoData
      ELSE IF ~LatestLive(chain) THEN row
      ELSE IF version = NoData THEN NoData
      ELSE [c \in Cols |-> IF version[c] \in 1..MaxVal THEN version[c] ELSE row[c]]

\* The columns of a result that the snapshot decides: those the visible version
\* carries, or all of them while the row has no version.  (An UPDATE pushes a
\* version of the columns it set; the others are read from storage.)
SnapshotCols(t, chain) ==
  {c \in Cols : LatestLive(chain) => ReadAt(chain, active_txns[t].snapshot_ts)[c] # 0}

\* ... and then overlays the version store at the snapshot's timestamp.  These
\* columns are recorded of rows the transaction has not written itself.
SelectOverlay(th) ==
  /\ At(th, "overlay")
  /\ Goto(th, Idle)
  /\ LET t == thread[th].txn
         k == thread[th].key
     IN  IF ~Live(t)
         THEN UNCHANGED <<stores, version_stores, seen>>
         ELSE /\ OpenStore(k[1])
              /\ seen' = IF active_txns[t].status # "active" \/ k \in active_txns[t].write_keys
                         THEN seen
                         ELSE LET chain == stores'[version_stores'[k[1]]].chains[k[2]]
                                  row == Overlay(t, k, thread[th].row, chain)
                              IN  [seen EXCEPT ![t][k] = @ \cup
                                     {[c \in Cols |-> IF c \in SnapshotCols(t, chain)
                                                      THEN row[c] ELSE 0]}]
  /\ UNCHANGED <<global_ts, next_txn, active_txns, snapVars, logVars, gc_running, rowVars, history>>

-----------------------------------------------------------------------------
(* ROLLBACK, of a transaction in any state. *)

\* Mutant: the snapshot is not released.
RollbackKeepsSnapshot(th, t) ==
  /\ At(th, "idle") /\ Live(t)
  /\ AbortTxns({t})
  /\ Goto(th, Idle)
  /\ UNCHANGED <<global_ts, next_txn, snapVars, mvccVars, rowVars, auxVars>>

Rollback(th, t) ==
  /\ At(th, "idle") /\ Live(t)
  /\ AbortTxns({t})
  /\ Goto(th, [Idle EXCEPT !.pc = "release", !.txn = t])
  /\ UNCHANGED <<global_ts, next_txn, snapVars, mvccVars, rowVars, auxVars>>

\* The snapshot is released after the active_txns lock has been dropped.
Release(th) ==
  /\ At(th, "release")
  /\ ReleaseSnapshots({thread[th].txn})
  /\ Goto(th, Idle)
  /\ UNCHANGED <<global_ts, next_txn, active_txns, logVars, mvccVars, rowVars, auxVars>>

-----------------------------------------------------------------------------
(* COMMIT: prepare_commit, the storage commit, finalize_commit. *)

Prepare(th, t) ==
  /\ At(th, "idle") /\ active_txns[t].status = "active"
  /\ IF active_txns[t].write_set # <<>> /\ (Conflicts(t) \/ IntentTaken(t))
     THEN /\ AbortTxns({t})
          /\ Goto(th, [Idle EXCEPT !.pc = "release", !.txn = t])
     ELSE /\ active_txns' = [active_txns EXCEPT ![t] =
                               [@ EXCEPT !.status = "validating", !.write_set = <<>>]]
          /\ active_writes' = [k \in Key |-> IF k \in active_txns[t].write_keys
                                             THEN t ELSE active_writes[k]]
          /\ Goto(th, [Idle EXCEPT !.pc = "storage", !.txn = t,
                                   !.writes = active_txns[t].write_set])
          /\ UNCHANGED committed_writes
  /\ UNCHANGED <<global_ts, next_txn, snapVars, mvccVars, rowVars, auxVars>>

\* What a buffered write makes of the stored row.
ApplyToRow(row, w) ==
  IF w.kind = "delete" THEN NoData
  ELSE IF w.kind = "update" /\ row = NoData THEN NoData
  ELSE [c \in Cols |-> IF w.new[c] # 0 THEN w.new[c] ELSE row[c]]

\* The storage commit between prepare and finalize, one write at a time.  An
\* insert is given a fresh row id here, whatever id it was buffered under.
ApplyStorage(th) ==
  /\ At(th, "storage")
  /\ LET n  == thread[th].n + 1
         w  == thread[th].writes[n]
         tb == w.key[1]
     IN  IF n > Len(thread[th].writes)
         THEN Step(th, "finalize") /\ UNCHANGED rowVars
         ELSE /\ Goto(th, [thread[th] EXCEPT !.n = n])
              /\ IF w.kind = "insert"
                 THEN /\ next_id[tb] <= MaxRow
                      /\ rows' = [rows EXCEPT ![<<tb, next_id[tb]>>] = w.new]
                      /\ next_id' = [next_id EXCEPT ![tb] = @ + 1]
                 ELSE rows' = [rows EXCEPT ![w.key] = ApplyToRow(@, w)] /\ UNCHANGED next_id
  /\ UNCHANGED <<global_ts, next_txn, active_txns, snapVars, logVars, mvccVars, auxVars>>

\* A statement outside any transaction goes straight to storage: it is neither
\* in the conflict log nor in a version store.
Autocommit(th, kind, k, cols) ==
  /\ "autocommit" \in Ops
  /\ At(th, "idle")
  /\ kind # "update" => cols = Cols
  /\ IF kind = "insert" THEN k[2] = next_id[k[1]] ELSE rows[k] # NoData
  /\ next_id' = IF kind = "insert" THEN [next_id EXCEPT ![k[1]] = @ + 1] ELSE next_id
  /\ rows' = [rows EXCEPT ![k] =
                ApplyToRow(@, [kind |-> kind, new |-> WriteData(AutoVal, kind, cols)])]
  /\ UNCHANGED <<global_ts, next_txn, active_txns, snapVars, logVars, mvccVars, thread, auxVars>>

\* The storage commit failed: the coordinator rolls the transaction back.
StorageFails(th) ==
  /\ StorageFaults
  /\ At(th, "storage")
  /\ LET t == thread[th].txn
     IN  IF Live(t)
         THEN AbortTxns({t}) /\ Goto(th, [Idle EXCEPT !.pc = "release", !.txn = t])
         ELSE UNCHANGED <<active_txns, logVars>> /\ Goto(th, Idle)
  /\ UNCHANGED <<global_ts, next_txn, snapVars, mvccVars, rowVars, auxVars>>

\* The commit point, under the active_txns lock; a transaction rolled back
\* meanwhile is an error.
Finalize(th) ==
  /\ At(th, "finalize")
  /\ LET t == thread[th].txn
         writes == thread[th].writes
         keys == {writes[i].key : i \in 1..Len(writes)}
     IN  IF active_txns[t].status # "validating"
         THEN /\ Goto(th, Idle)
              /\ UNCHANGED <<global_ts, active_txns, logVars, history>>
         ELSE /\ global_ts <= MaxTs
              /\ global_ts' = global_ts + 1
              /\ committed_writes' = committed_writes \cup
                   {[txn |-> t, ts |-> global_ts, key |-> k] : k \in keys}
              /\ ReleaseIntents({t})
              /\ active_txns' = [active_txns EXCEPT ![t] = NoTxn]
              /\ history' = history \cup
                   {[txn |-> t, snapshot |-> active_txns[t].snapshot_ts,
                     commit |-> global_ts, keys |-> keys]}
              /\ Goto(th, [thread[th] EXCEPT !.pc = "publish", !.ts = global_ts])
  /\ UNCHANGED <<next_txn, snapVars, mvccVars, rowVars, seen>>

\* After the lock: get the version store of the next write ...
PublishOpen(th) ==
  /\ At(th, "publish") /\ thread[th].writes # <<>>
  /\ LET w == Head(thread[th].writes)
     IN  /\ OpenStore(w.key[1])
         /\ Goto(th, [thread[th] EXCEPT !.pc = IF w.kind = "insert" THEN "push" ELSE "base",
                                        !.store = version_stores'[w.key[1]]])
  /\ UNCHANGED <<global_ts, next_txn, active_txns, snapVars, logVars, gc_running, rowVars, auxVars>>

\* Mutant: the old data of a row without history is not kept.
PublishNoBase(th) ==
  /\ At(th, "base")
  /\ Step(th, "push")
  /\ UNCHANGED <<global_ts, next_txn, active_txns, snapVars, logVars, mvccVars, rowVars, auxVars>>

\* ... a row first touched by an update or a delete gets its old data as a
\* version visible to every older snapshot (read_latest, then insert) ...
PublishBase(th) ==
  /\ At(th, "base")
  /\ LET w == Head(thread[th].writes)
     IN  IF ~LatestLive(stores[thread[th].store].chains[w.key[2]]) /\ w.old # NoData
         THEN Step(th, "insert_base") ELSE Step(th, "push")
  /\ UNCHANGED <<global_ts, next_txn, active_txns, snapVars, logVars, mvccVars, rowVars, auxVars>>

PublishOld(th) ==
  /\ At(th, "insert_base")
  /\ LET w == Head(thread[th].writes)
     IN  stores' = [stores EXCEPT ![thread[th].store] = StoreInsert(@, w.key[2], 1, w.old)]
  /\ Step(th, "push")
  /\ UNCHANGED <<global_ts, next_txn, active_txns, snapVars, logVars, version_stores,
                 gc_running, rowVars, auxVars>>

PushWrite(store, w, ts) ==
  IF w.kind = "insert" THEN StoreInsert(store, w.key[2], ts, w.new)
  ELSE StorePush(store, w.key[2], ts, w.new, w.kind = "delete")

\* ... and the write goes into the store, whether or not the map still has it.
PublishPush(th) ==
  /\ At(th, "push")
  /\ stores' = [stores EXCEPT ![thread[th].store] =
                  PushWrite(@, Head(thread[th].writes), thread[th].ts)]
  /\ Goto(th, [thread[th] EXCEPT !.pc = "publish", !.store = 0, !.writes = Tail(@)])
  /\ UNCHANGED <<global_ts, next_txn, active_txns, snapVars, logVars, version_stores,
                 gc_running, rowVars, auxVars>>

PublishDone(th) ==
  /\ At(th, "publish") /\ thread[th].writes = <<>>
  /\ ReleaseSnapshots({thread[th].txn})
  /\ Step(th, "watermark")
  /\ UNCHANGED <<global_ts, next_txn, active_txns, logVars, mvccVars, rowVars, auxVars>>

ReadOldest(th) ==
  /\ At(th, "watermark")
  /\ Goto(th, [thread[th] EXCEPT !.pc = "trim", !.oldest = oldest_active_ts])
  /\ UNCHANGED <<global_ts, next_txn, active_txns, snapVars, logVars, mvccVars, rowVars, auxVars>>

\* advance_watermark with the minimum just read; no snapshot active drops every
\* record, and clear_committed_writes drops whatever was added since.
Trim(th) ==
  /\ At(th, "trim")
  /\ committed_writes' = {cw \in committed_writes : cw.ts >= thread[th].oldest}
  /\ Step(th, IF thread[th].oldest = TS_MAX THEN "clear" ELSE "collect")
  /\ UNCHANGED <<global_ts, next_txn, active_txns, snapVars, active_writes, mvccVars, rowVars,
                 auxVars>>

Clear(th) ==
  /\ At(th, "clear")
  /\ committed_writes' = {}
  /\ Step(th, "collect")
  /\ UNCHANGED <<global_ts, next_txn, active_txns, snapVars, active_writes, mvccVars, rowVars,
                 auxVars>>

\* The collection loop runs under the read lock of the map.
Collect(th) ==
  /\ At(th, "collect")
  /\ Goto(th, [Idle EXCEPT !.pc = "gc", !.todo = {tb \in Tables : version_stores[tb] # 0}])
  /\ UNCHANGED <<global_ts, next_txn, active_txns, snapVars, logVars, mvccVars, rowVars, auxVars>>

\* GarbageCollector::maybe_run on one store of the map: skipped (interval or
\* version count not reached, or another collection is running) or run.
GcSkip(th, tb) ==
  /\ At(th, "gc") /\ tb \in thread[th].todo
  /\ Goto(th, [thread[th] EXCEPT !.todo = @ \ {tb}])
  /\ UNCHANGED <<global_ts, next_txn, active_txns, snapVars, logVars, mvccVars, rowVars, auxVars>>

GcStart(th, tb) ==
  /\ At(th, "gc") /\ tb \in thread[th].todo /\ ~gc_running
  /\ gc_running' = TRUE
  /\ Goto(th, [thread[th] EXCEPT !.pc = "gc_run", !.store = version_stores[tb],
                                 !.oldest = oldest_active_ts, !.todo = @ \ {tb}])
  /\ UNCHANGED <<global_ts, next_txn, active_txns, snapVars, logVars, stores, version_stores,
                 rowVars, auxVars>>

GcRun(th) ==
  /\ At(th, "gc_run")
  /\ stores' = [stores EXCEPT ![thread[th].store] = StoreGc(@, thread[th].oldest)]
  /\ gc_running' = FALSE
  /\ Goto(th, [thread[th] EXCEPT !.pc = "gc", !.store = 0, !.oldest = 0])
  /\ UNCHANGED <<global_ts, next_txn, active_txns, snapVars, logVars, version_stores, rowVars,
                 auxVars>>

\* prune_empty_version_stores: drop the map entries without rows or versions.
Prune(th) ==
  /\ At(th, "gc") /\ thread[th].todo = {} /\ ~StoresReadLocked
  /\ version_stores' = [tb \in Tables |->
       IF version_stores[tb] # 0 /\ RowCount(stores[version_stores[tb]]) = 0
                                 /\ stores[version_stores[tb]].total_versions <= 0
       THEN 0 ELSE version_stores[tb]]
  /\ Goto(th, Idle)
  /\ UNCHANGED <<global_ts, next_txn, active_txns, snapVars, logVars, stores, gc_running,
                 rowVars, auxVars>>

-----------------------------------------------------------------------------
Call(th) ==
  \/ Begin(th) \/ BeginReadOnly(th)
  \/ \E t \in TxnIds : Rollback(th, t) \/ Prepare(th, t) \/ ContextTimeout(th, t)
  \/ \E t \in TxnIds, k \in Key : RecordRead(th, t, k) \/ SelectScan(th, t, k)
  \/ \E kind \in Ops \cap DmlOps, k \in Key, cols \in (SUBSET Cols) \ {{}} :
       Autocommit(th, kind, k, cols) \/ \E t \in TxnIds : Lookup(th, t, kind, k, cols)

Continue(th) ==
  \/ Register(th) \/ FetchMin(th) \/ Enter(th) \/ Sweep(th)
  \/ BufferWrite(th) \/ SelectOverlay(th) \/ Release(th)
  \/ ApplyStorage(th) \/ StorageFails(th) \/ Finalize(th)
  \/ PublishOpen(th) \/ PublishBase(th) \/ PublishOld(th) \/ PublishPush(th)
  \/ PublishDone(th) \/ ReadOldest(th) \/ Trim(th) \/ Clear(th) \/ Collect(th)
  \/ \E tb \in Tables : GcSkip(th, tb) \/ GcStart(th, tb)
  \/ GcRun(th) \/ Prune(th)

Next == \E th \in Threads : Call(th) \/ Continue(th)

Spec == Init /\ [][Next]_vars

\* The operating system keeps scheduling a thread that is inside a call.
FairSpec == Spec /\ \A th \in Threads : WF_vars(Continue(th))

-----------------------------------------------------------------------------
(* Properties. *)

ThreadPc == {"idle", "register", "fetch_min", "enter", "sweep", "release", "overlay",
             "buffer", "storage", "finalize", "publish", "base", "insert_base", "push",
             "watermark", "trim", "clear", "collect", "gc", "gc_run"}

ThreadLocal == [pc: ThreadPc, txn: 0..MaxTxn, ts: Ts, read_only: BOOLEAN,
                writes: Seq(TxnWrite), n: Nat, store: Nat, oldest: Ts,
                todo: SUBSET Tables, row: Data, key: Key \cup {<<>>}]

ActiveTxn == [status: {"none", "active", "validating"}, snapshot_ts: Ts, read_only: BOOLEAN,
              write_set: Seq(TxnWrite), write_keys: SUBSET Key, read_set: SUBSET Key,
              insert_base_ids: [Tables -> Nat]]

TxnTypeOK ==
  /\ global_ts \in 1..MaxTs + 1
  /\ next_txn \in 1..MaxTxn + 1
  /\ active_txns \in [TxnIds -> ActiveTxn]
  /\ snapshots \subseteq [txn: TxnIds, ts: Ts]
  /\ oldest_active_ts \in Ts
  /\ committed_writes \subseteq [txn: TxnIds, ts: Ts, key: Key]
  /\ active_writes \in [Key -> 0..MaxTxn]
  /\ rows \in [Key -> Data]
  /\ next_id \in [Tables -> 1..MaxRow + 1]
  /\ thread \in [Threads -> ThreadLocal]
  /\ history \subseteq [txn: TxnIds, snapshot: Ts, commit: Ts, keys: SUBSET Key]
  /\ seen \in [TxnIds -> [Key -> SUBSET Data]]

StoreTypeOK ==
  /\ stores \in Seq(Store)
  /\ version_stores \in [Tables -> 0..Len(stores)]
  /\ gc_running \in BOOLEAN

\* Every variable stays in its domain: in particular timestamps, transaction
\* ids and row ids never run past the bounds the actions check.
TypeOK == TxnTypeOK /\ StoreTypeOK

\* A transaction between prepare and finalize owns the write intent of every
\* row it will write, so no two committing transactions share a row: the
\* check-then-insert of acquire_write_intent, the partial releases of
\* record_abort and a rollback from another thread never break this.
IntentsExclusive ==
  \A t \in TxnIds : active_txns[t].status = "validating" =>
    \A k \in active_txns[t].write_keys : active_writes[k] = t

\* No write intent outlives the transaction that took it.
NoOrphanIntent ==
  \A k \in Key : active_writes[k] # 0 =>
    /\ active_txns[active_writes[k]].status = "validating"
    /\ k \in active_txns[active_writes[k]].write_keys

\* The cached minimum never exceeds the timestamp of an open transaction's
\* snapshot, although register updates it outside the lock that release
\* recomputes it under: collection and the conflict log may rely on it.
OldestBoundsSnapshots ==
  \A t \in TxnIds : Live(t) => oldest_active_ts <= active_txns[t].snapshot_ts

\* A registered snapshot belongs to an open transaction or to a call that is
\* about to enter or release it: no path of begin, commit, rollback or timeout
\* leaks a snapshot, which would pin the watermark for the process lifetime.
NoSnapshotLeak ==
  \A s \in snapshots :
    \/ Live(s.txn)
    \/ \E th \in Threads :
         /\ thread[th].txn = s.txn
         /\ thread[th].pc \in {"fetch_min", "enter", "release", "publish", "base", "insert_base", "push"}

\* First committer wins: of two committed transactions that wrote a common
\* row, one took its snapshot after the other's commit.
FirstCommitterWins ==
  \A g, h \in history :
    g # h /\ g.keys \cap h.keys # {} => g.commit <= h.snapshot \/ h.commit <= g.snapshot

\* Repeatable reads, column by column: two SELECTs of one transaction agree on
\* whether a row that it has not written itself is there, and on each of its
\* columns except those that the version visible to the snapshot does not carry.
\* These the SELECT takes from storage (the overlay in coordination.rs), where a
\* later commit shows.  It is checked of calls that do not overlap and of
\* read-write transactions that insert and update: with deletes, read-only
\* transactions or autocommitted statements it fails.
RepeatableRead ==
  \A t \in TxnIds, k \in Key : \A r1, r2 \in seen[t][k] : r1 = r2

\* When calls do not overlap, a chain is ordered newest first, as version_store.rs
\* says of it: a version is newer than the ones below it and starts where the one
\* below it ends.  Two threads break this: finalize_commit drops the lock before
\* it pushes, so that a later commit of the row may push first.
ChainsOrdered ==
  \A i \in 1..Len(stores), r \in Rows :
    \A v, w \in stores[i].chains[r].versions :
      v.seq < w.seq => v.begin <= w.begin /\ v.end <= w.begin

\* Collection keeps what open transactions can see: when calls do not overlap and
\* a transaction writes a row once, the version visible to the snapshot of a
\* read-write transaction never changes once the row has a chain.
VisibleVersionStable ==
  [][\A t \in TxnIds, k \in Key :
       /\ Live(t) /\ Live(t)' /\ ~active_txns[t].read_only
       /\ version_stores[k[1]] # 0
       /\ stores[version_stores[k[1]]].chains[k[2]].versions # {}
       => /\ version_stores'[k[1]] = version_stores[k[1]]
          /\ ReadAt(stores'[version_stores[k[1]]].chains[k[2]], active_txns[t].snapshot_ts)
             = ReadAt(stores[version_stores[k[1]]].chains[k[2]], active_txns[t].snapshot_ts)]_vars

\* A transactional INSERT lands on the row id it was buffered under, which is
\* the id its version, its conflict record and its log record carry.  It is
\* checked of calls that do not overlap and without autocommitted statements,
\* whose inserts take the ids that a transaction has buffered.
InsertKeepsItsId ==
  \A th \in Threads :
    At(th, "storage") /\ thread[th].n < Len(thread[th].writes) =>
      LET w == thread[th].writes[thread[th].n + 1]
      IN  w.kind = "insert" => next_id[w.key[1]] = w.key[2]

\* Every call returns: no order of the locks of finalize_commit, of the
\* collection loop and of the pruning after it leaves a thread waiting forever.
CallsReturn == \A th \in Threads : ~At(th, "idle") ~> At(th, "idle")

=============================================================================
