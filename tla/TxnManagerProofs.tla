-------------------------- MODULE TxnManagerProofs --------------------------
(***************************************************************************)
(* Invariants of the transaction manager for any number of threads, tables *)
(* and transactions.                                                       *)
(***************************************************************************)
EXTENDS TxnManager, VersionStoreProofs, SequenceTheorems

-----------------------------------------------------------------------------
(* Type correctness. *)

LEMMA ConstFacts ==
  /\ MaxTxn \in Nat /\ MaxTs \in Nat /\ MaxRow \in Nat /\ MaxVal \in Nat
  /\ \A t \in 0..MaxTxn + 2 : t \in 0..MaxVal
  /\ InitRows \in 0..MaxRow
BY TxnAssumption, BoundsAssumption

LEMMA IdleType == Idle \in ThreadLocal /\ NoTxn \in ActiveTxn
<1>1. <<>> \in Seq(TxnWrite)
  OBVIOUS
<1>2. 0 \in Ts /\ 0 \in 0..MaxTxn
  BY ConstFacts DEF Ts, TS_MAX
<1> QED BY <1>1, <1>2, TsFacts DEF Idle, ThreadLocal, NoTxn, ActiveTxn, ThreadPc

\* What a DML statement writes is row data.
LEMMA WriteDataType ==
  ASSUME NEW t \in 0..MaxTxn + 2, NEW kind, NEW cols
  PROVE  WriteData(t, kind, cols) \in Data
BY ConstFacts DEF WriteData, Data

\* The minimum of a set of timestamps: u64::MAX when the set is empty.
LEMMA MinTsType ==
  ASSUME NEW S \in SUBSET Ts
  PROVE  MinTs(S) \in Ts /\ \A n \in S : MinTs(S) <= n
<1>1. CASE S = {}
  BY <1>1, TsFacts DEF MinTs
<1>2. CASE S # {}
  <2>1. S \in SUBSET Nat
    BY TsFacts
  <2>2. \E m \in S : \A n \in S : m <= n
    BY <2>1, <1>2, MinExists
  <2>3. MinTs(S) = CHOOSE m \in S : \A n \in S : m <= n
    BY <1>2 DEF MinTs
  <2> QED BY <2>2, <2>3
<1> QED BY <1>1, <1>2

LEMMA ReleaseType ==
  ASSUME TypeOK, NEW T, ReleaseSnapshots(T)
  PROVE  /\ snapshots' \subseteq [txn: TxnIds, ts: Ts]
         /\ oldest_active_ts' \in Ts
         /\ \A s \in snapshots' : oldest_active_ts' <= s.ts
<1>1. snapshots' \subseteq [txn: TxnIds, ts: Ts]
  BY DEF TypeOK, TxnTypeOK, ReleaseSnapshots
<1>2. {s.ts : s \in snapshots'} \in SUBSET Ts
  BY <1>1
<1>3. oldest_active_ts' = MinTs({s.ts : s \in snapshots'})
  BY DEF ReleaseSnapshots
<1>4. \A n \in {s.ts : s \in snapshots'} : oldest_active_ts' <= n
  BY <1>2, <1>3, MinTsType
<1> QED BY <1>1, <1>2, <1>3, <1>4, MinTsType

LEMMA AbortType ==
  ASSUME TypeOK, NEW T, AbortTxns(T)
  PROVE  /\ active_txns' \in [TxnIds -> ActiveTxn]
         /\ active_writes' \in [Key -> 0..MaxTxn]
         /\ committed_writes' = committed_writes
BY ConstFacts, IdleType DEF AbortTxns, ReleaseIntents, TypeOK, TxnTypeOK

LEMMA OpenStoreType ==
  ASSUME TypeOK, NEW tb \in Tables, OpenStore(tb)
  PROVE  /\ stores' \in Seq(Store)
         /\ version_stores' \in [Tables -> 0..Len(stores')]
         /\ version_stores'[tb] \in Nat
<1>1. CASE version_stores[tb] # 0
  BY <1>1 DEF OpenStore, TypeOK, StoreTypeOK
<1>2. CASE version_stores[tb] = 0
  <2>1. /\ stores' = Append(stores, EmptyStore)
        /\ version_stores' = [version_stores EXCEPT ![tb] = Len(stores) + 1]
    BY <1>2 DEF OpenStore
  <2>2. stores' \in Seq(Store) /\ Len(stores') = Len(stores) + 1 /\ Len(stores) \in Nat
    BY <2>1, EmptyStoreType, AppendProperties, LenProperties DEF TypeOK, StoreTypeOK
  <2>3. version_stores \in [Tables -> 0..Len(stores)]
    BY DEF TypeOK, StoreTypeOK
  <2> QED BY <2>1, <2>2, <2>3
<1> QED BY <1>1, <1>2

THEOREM TypeInit == Init => TypeOK
<1> SUFFICES ASSUME Init PROVE TypeOK
  OBVIOUS
<1>1. TxnTypeOK
  <2>1. rows \in [Key -> Data]
    BY ConstFacts, TxnAssumption, TsFacts DEF Init, Data, Seeded
  <2>2. TS_MAX \in Ts
    BY TsFacts
  <2>3. next_id \in [Tables -> 1..MaxRow + 1]
    BY ConstFacts DEF Init
  <2> QED BY <2>1, <2>2, <2>3, IdleType, ConstFacts DEF Init, TxnTypeOK
<1>2. StoreTypeOK
  <2>1. stores \in Seq(Store) /\ Len(stores) = 0
    BY EmptySeq DEF Init
  <2>2. gc_running \in BOOLEAN
    BY Zenon DEF Init
  <2>3. version_stores \in [Tables -> 0..Len(stores)]
    BY <2>1 DEF Init
  <2> QED BY <2>1, <2>2, <2>3 DEF StoreTypeOK
<1> QED BY <1>1, <1>2 DEF TypeOK

\* What the program counter of a thread says about its locals.
Local ==
  {l \in ThreadLocal :
     /\ l.pc \notin {"idle", "gc", "gc_run"} => l.txn \in TxnIds
     /\ l.pc \in {"buffer", "base", "insert_base", "push"} => l.writes # <<>>
     /\ l.pc = "overlay" => l.key \in Key}

ThreadsTyped == thread \in [Threads -> ThreadLocal] /\ thread \in [Threads -> Local]
Typed == TypeOK /\ ThreadsTyped

\* A step that moves one thread to well-typed locals.
LEMMA GotoType ==
  ASSUME Typed, NEW th \in Threads, NEW l \in Local, Goto(th, l)
  PROVE  ThreadsTyped'
BY DEF Typed, ThreadsTyped, Goto, Local

LEMMA ThreadType ==
  ASSUME Typed, NEW th \in Threads
  PROVE  thread[th] \in Local
BY DEF Typed, ThreadsTyped

LEMMA GotoIdleType ==
  ASSUME Typed, NEW th \in Threads, Goto(th, Idle)
  PROVE  ThreadsTyped'
<1>1. Idle \in Local
  BY IdleType DEF Local, Idle
<1> QED BY <1>1, GotoType

LEMMA ReleaseLocalType ==
  ASSUME NEW t \in TxnIds
  PROVE  [Idle EXCEPT !.pc = "release", !.txn = t] \in Local
<1>1. t \in 0..MaxTxn
  BY ConstFacts DEF TxnIds
<1> QED BY <1>1, IdleType DEF Local, ThreadLocal, ThreadPc

LEMMA GotoReleaseType ==
  ASSUME Typed, NEW th \in Threads, NEW t \in TxnIds,
         Goto(th, [Idle EXCEPT !.pc = "release", !.txn = t])
  PROVE  ThreadsTyped'
BY ReleaseLocalType, GotoType

LEMMA CallTypes ==
  ASSUME Typed, NEW th \in Threads, Call(th)
  PROVE  Typed'
<1>1. CASE Begin(th)
  <2>1. [Idle EXCEPT !.pc = "register", !.txn = next_txn, !.ts = global_ts] \in Local
    <3>1. next_txn \in TxnIds /\ next_txn \in 0..MaxTxn /\ global_ts \in Ts
      BY <1>1, ConstFacts DEF Begin, Typed, TypeOK, TxnTypeOK, Ts, TS_MAX, TxnIds
    <3> QED BY <3>1, IdleType DEF Local, ThreadLocal, ThreadPc
  <2>2. ThreadsTyped'
    BY <1>1, <2>1, GotoType DEF Begin
  <2>3. next_txn' \in 1..MaxTxn + 1 /\ global_ts' \in 1..MaxTs + 1
    BY <1>1, ConstFacts DEF Begin, Typed, TypeOK, TxnTypeOK
  <2>4. TxnTypeOK'
    BY <1>1, <2>2, <2>3
    DEF Begin, Typed, ThreadsTyped, TypeOK, TxnTypeOK, snapVars, logVars, auxVars, rowVars
  <2>5. StoreTypeOK'
    BY <1>1 DEF Begin, Typed, TypeOK, StoreTypeOK, mvccVars
  <2> QED BY <2>2, <2>4, <2>5 DEF Typed, TypeOK
<1>2. CASE BeginReadOnly(th)
  <2>1. [Idle EXCEPT !.pc = "register", !.txn = next_txn, !.ts = global_ts, !.read_only = TRUE]
          \in Local
    <3>1. next_txn \in TxnIds /\ next_txn \in 0..MaxTxn /\ global_ts \in Ts
      BY <1>2, ConstFacts DEF BeginReadOnly, Typed, TypeOK, TxnTypeOK, Ts, TS_MAX, TxnIds
    <3> QED BY <3>1, IdleType DEF Local, ThreadLocal, ThreadPc
  <2>2. ThreadsTyped'
    BY <1>2, <2>1, GotoType DEF BeginReadOnly
  <2>3. next_txn' \in 1..MaxTxn + 1 /\ global_ts' \in 1..MaxTs + 1
    BY <1>2, ConstFacts DEF BeginReadOnly, Typed, TypeOK, TxnTypeOK
  <2>4. TxnTypeOK'
    BY <1>2, <2>2, <2>3
    DEF BeginReadOnly, Typed, ThreadsTyped, TypeOK, TxnTypeOK, snapVars, logVars, auxVars, rowVars
  <2>5. StoreTypeOK'
    BY <1>2 DEF BeginReadOnly, Typed, TypeOK, StoreTypeOK, mvccVars
  <2> QED BY <2>2, <2>4, <2>5 DEF Typed, TypeOK
<1>3. ASSUME NEW t \in TxnIds, Rollback(th, t) \/ ContextTimeout(th, t) PROVE Typed'
  <2>1. ThreadsTyped'
    BY <1>3, GotoReleaseType DEF Rollback, ContextTimeout
  <2>2. /\ active_txns' \in [TxnIds -> ActiveTxn]
        /\ active_writes' \in [Key -> 0..MaxTxn]
        /\ committed_writes' = committed_writes
    BY <1>3, AbortType DEF Rollback, ContextTimeout, Typed
  <2> QED BY <1>3, <2>1, <2>2
          DEF Rollback, ContextTimeout, Typed, ThreadsTyped, TypeOK, TxnTypeOK, StoreTypeOK, mvccVars, snapVars,
              auxVars, rowVars
<1>4. ASSUME NEW t \in TxnIds, Prepare(th, t) PROVE Typed'
  <2>1. CASE AbortTxns({t}) /\ Goto(th, [Idle EXCEPT !.pc = "release", !.txn = t])
    <3>1. ThreadsTyped'
      BY <2>1, GotoReleaseType
    <3>2. /\ active_txns' \in [TxnIds -> ActiveTxn]
          /\ active_writes' \in [Key -> 0..MaxTxn]
          /\ committed_writes' = committed_writes
      BY <2>1, AbortType DEF Typed
    <3> QED BY <1>4, <3>1, <3>2
            DEF Prepare, Typed, ThreadsTyped, TypeOK, TxnTypeOK, StoreTypeOK, mvccVars, snapVars, auxVars, rowVars
  <2>2. CASE /\ active_txns' = [active_txns EXCEPT ![t] =
                  [active_txns[t] EXCEPT !.status = "validating", !.write_set = <<>>]]
             /\ active_writes' = [k \in Key |-> IF k \in active_txns[t].write_keys
                                                THEN t ELSE active_writes[k]]
             /\ Goto(th, [Idle EXCEPT !.pc = "storage", !.txn = t,
                                      !.writes = active_txns[t].write_set])
             /\ UNCHANGED committed_writes
    <3>1. active_txns[t] \in ActiveTxn
      BY DEF Typed, TypeOK, TxnTypeOK
    <3>2. [active_txns[t] EXCEPT !.status = "validating", !.write_set = <<>>] \in ActiveTxn
      BY <3>1, EmptySeq DEF ActiveTxn
    <3>4. active_txns' \in [TxnIds -> ActiveTxn]
      BY <2>2, <3>2 DEF Typed, TypeOK, TxnTypeOK
    <3>5. active_writes' \in [Key -> 0..MaxTxn]
      BY <2>2, ConstFacts DEF Typed, TypeOK, TxnTypeOK, TxnIds
    <3>6. [Idle EXCEPT !.pc = "storage", !.txn = t, !.writes = active_txns[t].write_set]
            \in Local
      <4>1. active_txns[t].write_set \in Seq(TxnWrite) /\ t \in 0..MaxTxn
        BY <3>1, ConstFacts DEF ActiveTxn, TxnIds
      <4> QED BY <4>1, IdleType DEF Local, ThreadLocal, ThreadPc
    <3>7. ThreadsTyped'
      BY <2>2, <3>6, GotoType
    <3> QED BY <1>4, <2>2, <3>4, <3>5, <3>7
            DEF Prepare, Typed, ThreadsTyped, TypeOK, TxnTypeOK, StoreTypeOK, mvccVars, snapVars, auxVars, rowVars
  <2> QED BY <1>4, <2>1, <2>2 DEF Prepare
<1>5. ASSUME NEW t \in TxnIds, NEW k \in Key, RecordRead(th, t, k) PROVE Typed'
  <2>1. active_txns[t] \in ActiveTxn
    BY DEF Typed, TypeOK, TxnTypeOK
  <2>2. [active_txns[t] EXCEPT !.read_set = @ \cup {k}] \in ActiveTxn
    BY <2>1 DEF ActiveTxn
  <2>3. active_txns' = [active_txns EXCEPT ![t] =
                          [active_txns[t] EXCEPT !.read_set = @ \cup {k}]]
    BY <1>5 DEF RecordRead, Typed, TypeOK, TxnTypeOK
  <2>4. active_txns' \in [TxnIds -> ActiveTxn]
    BY <2>2, <2>3 DEF Typed, TypeOK, TxnTypeOK
  <2> QED BY <1>5, <2>4
          DEF RecordRead, Typed, ThreadsTyped, TypeOK, TxnTypeOK, StoreTypeOK, mvccVars, snapVars, logVars, auxVars,
              rowVars
<1>6. ASSUME NEW t \in TxnIds, NEW k \in Key, SelectScan(th, t, k) PROVE Typed'
  <2>1. [Idle EXCEPT !.pc = "overlay", !.txn = t, !.key = k, !.row = rows[k]] \in Local
    <3>1. rows[k] \in Data /\ t \in 0..MaxTxn
      BY ConstFacts DEF Typed, TypeOK, TxnTypeOK, TxnIds
    <3> QED BY <3>1, IdleType DEF Local, ThreadLocal, ThreadPc
  <2>2. ThreadsTyped'
    BY <1>6, <2>1, GotoType DEF SelectScan
  <2> QED BY <1>6, <2>2
          DEF SelectScan, Typed, ThreadsTyped, TypeOK, TxnTypeOK, StoreTypeOK, mvccVars, snapVars, logVars, auxVars,
              rowVars
<1>7. ASSUME NEW kind \in Ops \cap DmlOps, NEW k \in Key, NEW cols \in (SUBSET Cols) \ {{}},
             Autocommit(th, kind, k, cols)
      PROVE Typed'
  <2>1. WriteData(AutoVal, kind, cols) \in Data
    <3>1. AutoVal \in 0..MaxTxn + 2
      BY ConstFacts DEF AutoVal
    <3> QED BY <3>1, WriteDataType
  <2>2. rows[k] \in Data /\ k[1] \in Tables /\ k[2] \in Rows
    BY DEF Key, Typed, TypeOK, TxnTypeOK
  <2>3. ApplyToRow(rows[k], [kind |-> kind, new |-> WriteData(AutoVal, kind, cols)]) \in Data
    BY <2>1, <2>2, TsFacts DEF ApplyToRow, Data
  <2>4. rows' \in [Key -> Data]
    BY <1>7, <2>3 DEF Autocommit, Typed, TypeOK, TxnTypeOK
  <2>5. next_id' \in [Tables -> 1..MaxRow + 1]
    BY <1>7, <2>2, ConstFacts DEF Autocommit, Rows, Typed, TypeOK, TxnTypeOK
  <2> QED BY <1>7, <2>4, <2>5
          DEF Autocommit, Typed, ThreadsTyped, TypeOK, TxnTypeOK, StoreTypeOK, mvccVars, snapVars, logVars, auxVars
<1>8. ASSUME NEW t \in TxnIds, NEW kind \in Ops \cap DmlOps, NEW k \in Key,
             NEW cols \in (SUBSET Cols) \ {{}}, Lookup(th, t, kind, k, cols)
      PROVE Typed'
  <2> DEFINE w == [kind |-> kind, key |-> k, new |-> WriteData(t, kind, cols),
                   old |-> IF kind = "insert" THEN NoData ELSE rows[k]]
             l == [Idle EXCEPT !.pc = "buffer", !.txn = t, !.n = InsertBase(t, k[1]),
                               !.writes = <<w>>]
  <2>1. w \in TxnWrite
    <3>1. t \in 0..MaxTxn + 2 /\ rows[k] \in Data
      BY ConstFacts DEF TxnIds, Typed, TypeOK, TxnTypeOK
    <3>2. WriteData(t, kind, cols) \in Data
      BY <3>1, WriteDataType
    <3> QED BY <3>1, <3>2, TsFacts DEF TxnWrite
  <2>2. InsertBase(t, k[1]) \in Nat
    <3>1. active_txns[t] \in ActiveTxn /\ k[1] \in Tables
      BY DEF Typed, TypeOK, TxnTypeOK, Key
    <3> QED BY <3>1, ConstFacts DEF InsertBase, ActiveTxn, Typed, TypeOK, TxnTypeOK
  <2> HIDE DEF w
  <2>3. <<w>> \in Seq(TxnWrite) /\ <<w>> # <<>>
    BY <2>1
  <2>4. l \in Local
    <3>1. t \in 0..MaxTxn /\ t \in TxnIds
      BY ConstFacts DEF TxnIds
    <3> QED BY <3>1, <2>2, <2>3, IdleType DEF Local, ThreadLocal, ThreadPc
  <2>5. Goto(th, l)
    BY <1>8 DEF Lookup, w
  <2> HIDE DEF l
  <2>6. ThreadsTyped'
    BY <2>4, <2>5, GotoType
  <2> QED BY <1>8, <2>6
          DEF Lookup, Typed, ThreadsTyped, TypeOK, TxnTypeOK, StoreTypeOK, mvccVars, snapVars, logVars, auxVars, rowVars
<1> QED BY <1>1, <1>2, <1>3, <1>4, <1>5, <1>6, <1>7, <1>8 DEF Call

\* A step of a call: the thread's locals l are already known to be well typed.
LEMMA LocalUpdates ==
  ASSUME Typed, NEW th \in Threads
  PROVE  /\ thread[th].txn \in 0..MaxTxn /\ thread[th].ts \in Ts
         /\ thread[th].read_only \in BOOLEAN /\ thread[th].writes \in Seq(TxnWrite)
         /\ thread[th].n \in Nat /\ thread[th].store \in Nat /\ thread[th].oldest \in Ts
         /\ thread[th].todo \in SUBSET Tables /\ thread[th].row \in Data
         /\ thread[th].pc \notin {"idle", "gc", "gc_run"} => thread[th].txn \in TxnIds
         /\ thread[th].pc \in {"buffer", "base", "insert_base", "push"} => thread[th].writes # <<>>
         /\ thread[th].pc = "overlay" => thread[th].key \in Key
<1>1. thread[th] \in ThreadLocal
  BY ThreadType DEF Local
<1> QED BY <1>1, ThreadType DEF Local, ThreadLocal

\* A step that only moves the program counter, within a transaction.
LEMMA StepType ==
  ASSUME Typed, NEW th \in Threads, NEW pc \in ThreadPc,
         thread[th].pc \notin {"idle", "gc", "gc_run"},
         pc \in {"buffer", "base", "insert_base", "push"} => thread[th].writes # <<>>,
         pc # "overlay", Step(th, pc)
  PROVE  ThreadsTyped'
<1>1. thread[th] \in ThreadLocal /\ thread[th].txn \in TxnIds
  BY ThreadType, LocalUpdates DEF Local
<1>2. [thread[th] EXCEPT !.pc = pc] \in Local
  BY <1>1 DEF Local, ThreadLocal
<1> QED BY <1>2, GotoType DEF Step

LEMMA BeginTypes ==
  ASSUME Typed, NEW th \in Threads,
         Register(th) \/ FetchMin(th) \/ Enter(th) \/ Sweep(th) \/ Release(th)
  PROVE  Typed'
<1> DEFINE t == thread[th].txn
<1>1. CASE Register(th)
  <2>1. t \in TxnIds /\ thread[th].ts \in Ts
    BY <1>1, LocalUpdates DEF Register, At
  <2>2. ThreadsTyped'
    BY <1>1, StepType DEF Register, At, ThreadPc
  <2>3. snapshots' \subseteq [txn: TxnIds, ts: Ts]
    BY <1>1, <2>1 DEF Register, Typed, TypeOK, TxnTypeOK
  <2> QED BY <1>1, <2>2, <2>3
          DEF Register, Typed, ThreadsTyped, TypeOK, TxnTypeOK, StoreTypeOK, mvccVars, snapVars, logVars, auxVars, rowVars
<1>2. CASE FetchMin(th)
  <2>1. {oldest_active_ts, thread[th].ts} \in SUBSET Ts
    BY LocalUpdates DEF Typed, TypeOK, TxnTypeOK
  <2>2. ThreadsTyped'
    BY <1>2, StepType DEF FetchMin, At, ThreadPc
  <2>3. oldest_active_ts' \in Ts
    BY <1>2, <2>1, MinTsType DEF FetchMin
  <2> QED BY <1>2, <2>2, <2>3
          DEF FetchMin, Typed, ThreadsTyped, TypeOK, TxnTypeOK, StoreTypeOK, mvccVars, snapVars, logVars, auxVars, rowVars
<1>3. CASE Enter(th)
  <2>1. ThreadsTyped'
    BY <1>3, StepType, GotoIdleType DEF Enter, At, ThreadPc
  <2>2. [NoTxn EXCEPT !.status = "active", !.snapshot_ts = thread[th].ts,
                      !.read_only = thread[th].read_only] \in ActiveTxn
    BY IdleType, LocalUpdates DEF ActiveTxn
  <2>3. active_txns' \in [TxnIds -> ActiveTxn]
    BY <1>3, <2>2 DEF Enter, Typed, TypeOK, TxnTypeOK
  <2> QED BY <1>3, <2>1, <2>3
          DEF Enter, Typed, ThreadsTyped, TypeOK, TxnTypeOK, StoreTypeOK, mvccVars, snapVars, logVars, auxVars, rowVars
<1>4. CASE Sweep(th)
  <2>1. ThreadsTyped'
    BY <1>4, GotoIdleType DEF Sweep
  <2>2. PICK T : AbortTxns(T) /\ IF T = {} THEN UNCHANGED snapVars ELSE ReleaseSnapshots(T)
    BY <1>4 DEF Sweep
  <2>3. /\ active_txns' \in [TxnIds -> ActiveTxn]
        /\ active_writes' \in [Key -> 0..MaxTxn]
        /\ committed_writes' = committed_writes
    BY <2>2, AbortType DEF Typed
  <2>4. snapshots' \subseteq [txn: TxnIds, ts: Ts] /\ oldest_active_ts' \in Ts
    BY <2>2, ReleaseType DEF snapVars, Typed, TypeOK, TxnTypeOK
  <2> QED BY <1>4, <2>1, <2>3, <2>4
          DEF Sweep, Typed, ThreadsTyped, TypeOK, TxnTypeOK, StoreTypeOK, mvccVars, snapVars, logVars, auxVars, rowVars
<1>5. CASE Release(th)
  <2>1. ThreadsTyped'
    BY <1>5, GotoIdleType DEF Release
  <2>2. snapshots' \subseteq [txn: TxnIds, ts: Ts] /\ oldest_active_ts' \in Ts
    BY <1>5, ReleaseType DEF Release, Typed
  <2> QED BY <1>5, <2>1, <2>2
          DEF Release, Typed, ThreadsTyped, TypeOK, TxnTypeOK, StoreTypeOK, mvccVars, snapVars, logVars, auxVars, rowVars
<1> QED BY <1>1, <1>2, <1>3, <1>4, <1>5

LEMMA BufferedType ==
  ASSUME NEW a \in ActiveTxn, NEW w \in TxnWrite, NEW base \in Nat
  PROVE  LET b == Buffered(a, w, base)
         IN  /\ b \in ActiveTxn
             /\ b.status = a.status /\ b.snapshot_ts = a.snapshot_ts
             /\ b.write_set = Append(a.write_set, w) /\ b.write_keys = a.write_keys \cup {w.key}
<1> DEFINE ids == IF w.kind = "insert" /\ a.insert_base_ids[w.key[1]] = 0
                  THEN [a.insert_base_ids EXCEPT ![w.key[1]] = base] ELSE a.insert_base_ids
           b == [a EXCEPT !.write_set = Append(a.write_set, w),
                          !.write_keys = a.write_keys \cup {w.key}, !.insert_base_ids = ids]
<1>1. w.key \in Key /\ a.write_set \in Seq(TxnWrite)
  BY DEF TxnWrite, ActiveTxn
<1>2. ids \in [Tables -> Nat]
  BY DEF ActiveTxn
<1>3. Buffered(a, w, base) = b
  BY DEF Buffered
<1>4. Append(a.write_set, w) \in Seq(TxnWrite)
  BY <1>1, AppendProperties
<1> HIDE DEF ids
<1>5. /\ b \in ActiveTxn
      /\ b.status = a.status /\ b.snapshot_ts = a.snapshot_ts
      /\ b.write_set = Append(a.write_set, w) /\ b.write_keys = a.write_keys \cup {w.key}
  BY <1>1, <1>2, <1>4 DEF ActiveTxn
<1> HIDE DEF b
<1> QED BY <1>3, <1>5

LEMMA StatementTypes ==
  ASSUME Typed, NEW th \in Threads,
         BufferWrite(th) \/ SelectOverlay(th) \/ ApplyStorage(th) \/ StorageFails(th)
  PROVE  Typed'
<1> DEFINE t == thread[th].txn
           k == thread[th].key
           w == Head(thread[th].writes)
<1>1. CASE BufferWrite(th)
  <2>1. ThreadsTyped'
    BY <1>1, GotoIdleType DEF BufferWrite
  <2>2. t \in TxnIds /\ w \in TxnWrite /\ thread[th].n \in Nat
    <3>1. thread[th].pc = "buffer"
      BY <1>1 DEF BufferWrite, At
    <3>2. thread[th].writes \in Seq(TxnWrite) /\ thread[th].writes # <<>>
      BY <3>1, LocalUpdates
    <3>3. w \in TxnWrite
      BY <3>2, HeadTailProperties
    <3> QED BY <3>1, <3>3, LocalUpdates
  <2>3. CASE UNCHANGED active_txns
    BY <1>1, <2>1, <2>3
       DEF BufferWrite, Typed, ThreadsTyped, TypeOK, TxnTypeOK, StoreTypeOK, mvccVars, snapVars, logVars, auxVars, rowVars
  <2>4. CASE active_txns' = [active_txns EXCEPT ![t] = Buffered(active_txns[t], w, thread[th].n)]
    <3>1. active_txns[t] \in ActiveTxn
      BY <2>2 DEF Typed, TypeOK, TxnTypeOK
    <3>2. Buffered(active_txns[t], w, thread[th].n) \in ActiveTxn
      BY <2>2, <3>1, BufferedType
    <3>5. active_txns' \in [TxnIds -> ActiveTxn]
      BY <2>2, <2>4, <3>2 DEF Typed, TypeOK, TxnTypeOK
    <3> QED BY <1>1, <2>1, <3>5
            DEF BufferWrite, Typed, ThreadsTyped, TypeOK, TxnTypeOK, StoreTypeOK, mvccVars, snapVars, logVars, auxVars, rowVars
  <2> QED BY <1>1, <2>3, <2>4 DEF BufferWrite
<1>2. CASE SelectOverlay(th)
  <2>1. ThreadsTyped'
    BY <1>2, GotoIdleType DEF SelectOverlay
  <2>2. t \in TxnIds /\ k \in Key /\ thread[th].row \in Data
    BY <1>2, LocalUpdates DEF SelectOverlay, At
  <2>3. CASE UNCHANGED <<stores, version_stores, seen>>
    BY <1>2, <2>1, <2>3
       DEF SelectOverlay, Typed, ThreadsTyped, TypeOK, TxnTypeOK, StoreTypeOK, mvccVars, snapVars, logVars, auxVars, rowVars
  <2>4. ASSUME OpenStore(k[1]), NEW chain,
               seen' = seen \/ seen' = [seen EXCEPT ![t][k] = @ \cup
                                          {[c \in Cols |-> IF c \in SnapshotCols(t, chain)
                                              THEN Overlay(t, k, thread[th].row, chain)[c]
                                              ELSE 0]}]
        PROVE  Typed'
    <3>1. k[1] \in Tables
      BY <2>2 DEF Key
    <3>2. stores' \in Seq(Store) /\ version_stores' \in [Tables -> 0..Len(stores')]
      BY <2>4, <3>1, OpenStoreType DEF Typed
    <3>3. Overlay(t, k, thread[th].row, chain) \in Data
      BY <2>2, TsFacts DEF Overlay, Data
    <3>4. seen' \in [TxnIds -> [Key -> SUBSET Data]]
      <4> DEFINE o == [c \in Cols |-> IF c \in SnapshotCols(t, chain)
                                       THEN Overlay(t, k, thread[th].row, chain)[c] ELSE 0]
                 s == [seen[t] EXCEPT ![k] = seen[t][k] \cup {o}]
      <4> HIDE DEF o
      <4>1. seen \in [TxnIds -> [Key -> SUBSET Data]] /\ o \in Data
        <5>1. 0 \in 0..MaxVal
          BY BoundsAssumption
        <5>2. o \in Data
          BY <3>3, <5>1 DEF Data, o
        <5> QED BY <5>2 DEF Typed, TypeOK, TxnTypeOK
      <4>2. s \in [Key -> SUBSET Data]
        BY <2>2, <4>1
      <4>3. seen' = seen \/ seen' = [seen EXCEPT ![t] = s]
        BY <2>2, <2>4, <4>1 DEF o
      <4> HIDE DEF s
      <4> QED BY <2>2, <4>1, <4>2, <4>3
    <3> QED BY <1>2, <2>1, <3>2, <3>4
            DEF SelectOverlay, Typed, ThreadsTyped, TypeOK, TxnTypeOK, StoreTypeOK, mvccVars, snapVars, logVars, auxVars, rowVars
  <2> QED BY <1>2, <2>3, <2>4 DEF SelectOverlay
<1>3. CASE ApplyStorage(th)
  <2> DEFINE n == thread[th].n + 1
             x == thread[th].writes[n]
  <2>1. /\ thread[th] \in ThreadLocal /\ t \in TxnIds /\ n \in Nat \ {0}
        /\ thread[th].writes \in Seq(TxnWrite)
    <3>1. thread[th].pc = "storage" /\ thread[th] \in ThreadLocal
      BY <1>3, ThreadType DEF ApplyStorage, At, Local
    <3>2. t \in TxnIds /\ thread[th].n \in Nat /\ thread[th].writes \in Seq(TxnWrite)
      BY <3>1, LocalUpdates
    <3> QED BY <3>1, <3>2
  <2>2. CASE n > Len(thread[th].writes)
    <3>1. Step(th, "finalize") /\ UNCHANGED rowVars
      BY <1>3, <2>2 DEF ApplyStorage
    <3>2. ThreadsTyped'
      BY <1>3, <3>1, StepType DEF ApplyStorage, At, ThreadPc
    <3> QED BY <1>3, <3>1, <3>2
            DEF ApplyStorage, Typed, ThreadsTyped, TypeOK, TxnTypeOK, StoreTypeOK, mvccVars, snapVars, logVars, auxVars, rowVars
  <2>3. CASE ~(n > Len(thread[th].writes))
    <3>1. x \in TxnWrite
      BY <2>1, <2>3, LenProperties
    <3>2. Goto(th, [thread[th] EXCEPT !.n = n])
      BY <1>3, <2>3 DEF ApplyStorage
    <3>3. [thread[th] EXCEPT !.n = n] \in Local
      <4>1. thread[th].pc = "storage"
        BY <1>3 DEF ApplyStorage, At
      <4> HIDE DEF n
      <4> QED BY <2>1, <4>1 DEF Local, ThreadLocal
    <3>4. ThreadsTyped'
      BY <3>2, <3>3, GotoType
    <3> HIDE DEF n, x
    <3>5. x.new \in Data /\ x.key \in Key /\ x.key[1] \in Tables
      BY <3>1 DEF TxnWrite, Key
    <3>6. ApplyToRow(rows[x.key], x) \in Data
      BY <3>5, TsFacts DEF ApplyToRow, Data, Typed, TypeOK, TxnTypeOK
    <3>7. \/ /\ next_id[x.key[1]] <= MaxRow
             /\ rows' = [rows EXCEPT ![<<x.key[1], next_id[x.key[1]]>>] = x.new]
             /\ next_id' = [next_id EXCEPT ![x.key[1]] = @ + 1]
          \/ rows' = [rows EXCEPT ![x.key] = ApplyToRow(@, x)] /\ UNCHANGED next_id
      BY <1>3, <2>3 DEF ApplyStorage, n, x
    <3>8. rows' \in [Key -> Data]
      BY <3>5, <3>6, <3>7 DEF Typed, TypeOK, TxnTypeOK
    <3>9. next_id' \in [Tables -> 1..MaxRow + 1]
      BY <3>5, <3>7, ConstFacts DEF Typed, TypeOK, TxnTypeOK
    <3> QED BY <1>3, <3>4, <3>8, <3>9
            DEF ApplyStorage, Typed, ThreadsTyped, TypeOK, TxnTypeOK, StoreTypeOK, mvccVars, snapVars, logVars, auxVars, rowVars
  <2> QED BY <2>2, <2>3
<1>4. CASE StorageFails(th)
  <2>1. t \in TxnIds
    BY <1>4, LocalUpdates DEF StorageFails, At
  <2>2. CASE AbortTxns({t}) /\ Goto(th, [Idle EXCEPT !.pc = "release", !.txn = t])
    <3>1. ThreadsTyped'
      BY <2>1, <2>2, GotoReleaseType
    <3>2. /\ active_txns' \in [TxnIds -> ActiveTxn]
          /\ active_writes' \in [Key -> 0..MaxTxn]
          /\ committed_writes' = committed_writes
      BY <2>2, AbortType DEF Typed
    <3> QED BY <1>4, <3>1, <3>2
            DEF StorageFails, Typed, ThreadsTyped, TypeOK, TxnTypeOK, StoreTypeOK, mvccVars, snapVars, logVars, auxVars, rowVars
  <2>3. CASE UNCHANGED <<active_txns, logVars>> /\ Goto(th, Idle)
    <3>1. ThreadsTyped'
      BY <2>3, GotoIdleType
    <3> QED BY <1>4, <2>3, <3>1
            DEF StorageFails, Typed, ThreadsTyped, TypeOK, TxnTypeOK, StoreTypeOK, mvccVars, snapVars, logVars, auxVars, rowVars
  <2> QED BY <1>4, <2>2, <2>3 DEF StorageFails
<1> QED BY <1>1, <1>2, <1>3, <1>4

LEMMA FinalizeTypes ==
  ASSUME Typed, NEW th \in Threads, Finalize(th)
  PROVE  Typed'
<1> DEFINE t == thread[th].txn
           writes == thread[th].writes
           keys == {writes[i].key : i \in 1..Len(writes)}
<1>1. CASE active_txns[t].status # "validating"
  <2>1. Goto(th, Idle) /\ UNCHANGED <<global_ts, active_txns, logVars, history>>
    BY <1>1 DEF Finalize
  <2>2. ThreadsTyped'
    BY <2>1, GotoIdleType
  <2> QED BY <2>1, <2>2
          DEF Finalize, Typed, ThreadsTyped, TypeOK, TxnTypeOK, StoreTypeOK, mvccVars, snapVars, logVars, auxVars, rowVars
<1>2. CASE active_txns[t].status = "validating"
  <2>1. thread[th].pc = "finalize" /\ thread[th] \in ThreadLocal
    BY ThreadType DEF Finalize, At, Local
  <2>2. t \in TxnIds /\ writes \in Seq(TxnWrite)
    BY <2>1, LocalUpdates
  <2>3. keys \in SUBSET Key
    <3>1. \A i \in 1..Len(writes) : writes[i] \in TxnWrite
      BY <2>2, LenProperties
    <3> QED BY <3>1 DEF TxnWrite
  <2>4. global_ts \in Ts /\ global_ts + 1 \in 1..MaxTs + 1
    BY <1>2, ConstFacts DEF Finalize, Ts, TS_MAX, Typed, TypeOK, TxnTypeOK
  <2>5. active_txns[t].snapshot_ts \in Ts
    BY <2>2 DEF Typed, TypeOK, TxnTypeOK, ActiveTxn
  <2> HIDE DEF keys
  <2>6. committed_writes' \subseteq [txn: TxnIds, ts: Ts, key: Key]
    <3>1. committed_writes' = committed_writes \cup
                                {[txn |-> t, ts |-> global_ts, key |-> k] : k \in keys}
      BY <1>2 DEF Finalize, keys
    <3> QED BY <2>2, <2>3, <2>4, <3>1 DEF Typed, TypeOK, TxnTypeOK
  <2>7. history' \subseteq [txn: TxnIds, snapshot: Ts, commit: Ts, keys: SUBSET Key]
    <3>1. history' = history \cup {[txn |-> t, snapshot |-> active_txns[t].snapshot_ts,
                                    commit |-> global_ts, keys |-> keys]}
      BY <1>2 DEF Finalize, keys
    <3> QED BY <2>2, <2>3, <2>4, <2>5, <3>1 DEF Typed, TypeOK, TxnTypeOK
  <2>8. active_writes' \in [Key -> 0..MaxTxn]
    BY <1>2, ConstFacts DEF Finalize, ReleaseIntents, Typed, TypeOK, TxnTypeOK
  <2>9. active_txns' \in [TxnIds -> ActiveTxn]
    BY <1>2, IdleType DEF Finalize, Typed, TypeOK, TxnTypeOK
  <2>10. global_ts' \in 1..MaxTs + 1
    BY <1>2, <2>4 DEF Finalize
  <2>11. ThreadsTyped'
    <3>1. [thread[th] EXCEPT !.pc = "publish", !.ts = global_ts] \in Local
      BY <2>1, <2>2, <2>4 DEF Local, ThreadLocal, ThreadPc
    <3>2. Goto(th, [thread[th] EXCEPT !.pc = "publish", !.ts = global_ts])
      BY <1>2 DEF Finalize
    <3> QED BY <3>1, <3>2, GotoType
  <2>12. UNCHANGED <<next_txn, snapVars, mvccVars, rowVars, seen>>
    BY DEF Finalize
  <2> QED BY <2>6, <2>7, <2>8, <2>9, <2>10, <2>11, <2>12
          DEF Typed, ThreadsTyped, TypeOK, TxnTypeOK, StoreTypeOK, mvccVars, snapVars, rowVars
<1> QED BY <1>1, <1>2

\* Replacing one store of the sequence by a well-typed one.
LEMMA StoreUpdateType ==
  ASSUME Typed, NEW i \in Nat, NEW e, i \in 1..Len(stores) => e \in Store,
         stores' = [stores EXCEPT ![i] = e]
  PROVE  stores' \in Seq(Store) /\ Len(stores') = Len(stores)
<1>1. stores \in Seq(Store)
  BY DEF Typed, TypeOK, StoreTypeOK
<1>2. CASE i \in 1..Len(stores)
  BY <1>1, <1>2, ExceptSeq, ElementOfSeq
<1>3. CASE i \notin 1..Len(stores)
  BY <1>1, <1>3, LenProperties
<1> QED BY <1>2, <1>3

LEMMA StoreAt ==
  ASSUME Typed, NEW i \in 1..Len(stores)
  PROVE  stores[i] \in Store
BY ElementOfSeq DEF Typed, TypeOK, StoreTypeOK

\* The write a publishing thread works on.
LEMMA HeadType ==
  ASSUME Typed, NEW th \in Threads, thread[th].writes # <<>>
  PROVE  LET w == Head(thread[th].writes)
         IN  /\ w \in TxnWrite /\ w.key \in Key /\ w.key[1] \in Tables /\ w.key[2] \in Rows
             /\ w.old \in Data /\ w.new \in Data /\ w.kind \in DmlOps
             /\ Tail(thread[th].writes) \in Seq(TxnWrite)
<1>1. Head(thread[th].writes) \in TxnWrite /\ Tail(thread[th].writes) \in Seq(TxnWrite)
  BY LocalUpdates, HeadTailProperties
<1>2. Head(thread[th].writes).key \in Key
  BY <1>1 DEF TxnWrite
<1> QED BY <1>1, <1>2 DEF TxnWrite, Key

LEMMA PublishTypes ==
  ASSUME Typed, NEW th \in Threads,
         PublishOpen(th) \/ PublishBase(th) \/ PublishOld(th) \/ PublishPush(th)
  PROVE  Typed'
<1> DEFINE w == Head(thread[th].writes)
           i == thread[th].store
<1>1. thread[th] \in ThreadLocal /\ thread[th].pc \in {"publish", "base", "insert_base", "push"}
  BY ThreadType DEF PublishOpen, PublishBase, PublishOld, PublishPush, At, Local
<1>2. thread[th].txn \in TxnIds /\ thread[th].writes # <<>> /\ i \in Nat /\ thread[th].ts \in Ts
  BY <1>1, LocalUpdates DEF PublishOpen, PublishBase, PublishOld, PublishPush, At
<1>3. /\ w \in TxnWrite /\ w.key \in Key /\ w.key[1] \in Tables /\ w.key[2] \in Rows
      /\ w.old \in Data /\ w.new \in Data /\ w.kind \in DmlOps
      /\ Tail(thread[th].writes) \in Seq(TxnWrite)
  BY <1>2, HeadType
<1>4. CASE PublishOpen(th)
  <2> DEFINE pc == IF w.kind = "insert" THEN "push" ELSE "base"
             l == [thread[th] EXCEPT !.pc = pc, !.store = version_stores'[w.key[1]]]
  <2>1. /\ stores' \in Seq(Store) /\ version_stores' \in [Tables -> 0..Len(stores')]
        /\ version_stores'[w.key[1]] \in Nat
    BY <1>3, <1>4, OpenStoreType DEF PublishOpen, Typed
  <2>2. Goto(th, l)
    BY <1>4 DEF PublishOpen
  <2>3. pc \in {"push", "base"}
    OBVIOUS
  <2> HIDE DEF pc, w
  <2>4. l \in Local
    BY <1>1, <1>2, <2>1, <2>3 DEF Local, ThreadLocal, ThreadPc
  <2> HIDE DEF l
  <2>5. ThreadsTyped'
    BY <2>2, <2>4, GotoType
  <2> QED BY <1>4, <2>1, <2>5
          DEF PublishOpen, Typed, ThreadsTyped, TypeOK, TxnTypeOK, StoreTypeOK, mvccVars, snapVars, logVars, auxVars, rowVars
<1>5. CASE PublishBase(th)
  <2>1. Step(th, "insert_base") \/ Step(th, "push")
    BY <1>5 DEF PublishBase
  <2>2. ThreadsTyped'
    BY <1>1, <1>2, <2>1, StepType DEF ThreadPc
  <2> QED BY <1>5, <2>2
          DEF PublishBase, Typed, ThreadsTyped, TypeOK, TxnTypeOK, StoreTypeOK, mvccVars, snapVars, logVars, auxVars, rowVars
<1>6. CASE PublishOld(th)
  <2>1. stores' \in Seq(Store) /\ Len(stores') = Len(stores)
    <3>1. stores' = [stores EXCEPT ![i] = StoreInsert(stores[i], w.key[2], 1, w.old)]
      BY <1>6 DEF PublishOld
    <3>2. 1 \in Ts
      BY ConstFacts DEF Ts, TS_MAX
    <3>3. i \in 1..Len(stores) => StoreInsert(stores[i], w.key[2], 1, w.old) \in Store
      BY <1>3, <3>2, StoreAt, StoreInsertType
    <3> HIDE DEF w
    <3> QED BY <1>2, <3>1, <3>3, StoreUpdateType
  <2>2. ThreadsTyped'
    BY <1>1, <1>2, <1>6, StepType DEF PublishOld, ThreadPc
  <2> QED BY <1>6, <2>1, <2>2
          DEF PublishOld, Typed, ThreadsTyped, TypeOK, TxnTypeOK, StoreTypeOK, mvccVars, snapVars, logVars, auxVars, rowVars
<1>7. CASE PublishPush(th)
  <2>1. stores' \in Seq(Store) /\ Len(stores') = Len(stores)
    <3>1. stores' = [stores EXCEPT ![i] = PushWrite(stores[i], w, thread[th].ts)]
      BY <1>7 DEF PublishPush
    <3>2. ASSUME i \in 1..Len(stores) PROVE PushWrite(stores[i], w, thread[th].ts) \in Store
      <4>1. stores[i] \in Store
        BY <3>2, StoreAt
      <4>2. StoreInsert(stores[i], w.key[2], thread[th].ts, w.new) \in Store
        BY <1>2, <1>3, <4>1, StoreInsertType
      <4>3. (w.kind = "delete") \in BOOLEAN
        OBVIOUS
      <4>4. StorePush(stores[i], w.key[2], thread[th].ts, w.new, w.kind = "delete") \in Store
        BY <1>2, <1>3, <4>1, <4>3, StorePushType
      <4> QED BY <4>2, <4>4 DEF PushWrite
    <3> HIDE DEF w
    <3> QED BY <1>2, <3>1, <3>2, StoreUpdateType
  <2>2. ThreadsTyped'
    <3> DEFINE l == [thread[th] EXCEPT !.pc = "publish", !.store = 0,
                                       !.writes = Tail(thread[th].writes)]
    <3>1. l \in Local
      BY <1>1, <1>2, <1>3 DEF Local, ThreadLocal, ThreadPc
    <3>2. Goto(th, l)
      BY <1>7 DEF PublishPush
    <3> HIDE DEF l
    <3> QED BY <3>1, <3>2, GotoType
  <2> QED BY <1>7, <2>1, <2>2
          DEF PublishPush, Typed, ThreadsTyped, TypeOK, TxnTypeOK, StoreTypeOK, mvccVars, snapVars, logVars, auxVars, rowVars
<1> QED BY <1>4, <1>5, <1>6, <1>7

LEMMA FinishTypes ==
  ASSUME Typed, NEW th \in Threads,
         PublishDone(th) \/ ReadOldest(th) \/ Trim(th) \/ Clear(th) \/ Collect(th)
  PROVE  Typed'
<1>1. CASE PublishDone(th)
  <2>1. ThreadsTyped'
    BY <1>1, StepType DEF PublishDone, At, ThreadPc
  <2>2. snapshots' \subseteq [txn: TxnIds, ts: Ts] /\ oldest_active_ts' \in Ts
    BY <1>1, ReleaseType DEF PublishDone, Typed
  <2> QED BY <1>1, <2>1, <2>2
          DEF PublishDone, Typed, ThreadsTyped, TypeOK, TxnTypeOK, StoreTypeOK, mvccVars, snapVars, logVars, auxVars, rowVars
<1>2. CASE ReadOldest(th)
  <2>1. thread[th] \in ThreadLocal /\ thread[th].pc = "watermark"
    BY <1>2, ThreadType DEF ReadOldest, At, Local
  <2>2. thread[th].txn \in TxnIds /\ oldest_active_ts \in Ts
    BY <2>1, LocalUpdates DEF Typed, TypeOK, TxnTypeOK
  <2>3. [thread[th] EXCEPT !.pc = "trim", !.oldest = oldest_active_ts] \in Local
    BY <2>1, <2>2 DEF Local, ThreadLocal, ThreadPc
  <2>4. ThreadsTyped'
    BY <1>2, <2>3, GotoType DEF ReadOldest
  <2> QED BY <1>2, <2>4
          DEF ReadOldest, Typed, ThreadsTyped, TypeOK, TxnTypeOK, StoreTypeOK, mvccVars, snapVars, logVars, auxVars, rowVars
<1>3. CASE Trim(th)
  <2>1. ThreadsTyped'
    BY <1>3, StepType DEF Trim, At, ThreadPc
  <2>2. committed_writes' \subseteq committed_writes
    BY <1>3 DEF Trim
  <2> QED BY <1>3, <2>1, <2>2
          DEF Trim, Typed, ThreadsTyped, TypeOK, TxnTypeOK, StoreTypeOK, mvccVars, snapVars, logVars, auxVars, rowVars
<1>4. CASE Clear(th)
  <2>1. ThreadsTyped'
    BY <1>4, StepType DEF Clear, At, ThreadPc
  <2> QED BY <1>4, <2>1
          DEF Clear, Typed, ThreadsTyped, TypeOK, TxnTypeOK, StoreTypeOK, mvccVars, snapVars, logVars, auxVars, rowVars
<1>5. CASE Collect(th)
  <2> DEFINE todo == {tb \in Tables : version_stores[tb] # 0}
  <2>1. [Idle EXCEPT !.pc = "gc", !.todo = todo] \in Local
    BY IdleType DEF Local, ThreadLocal, ThreadPc
  <2>2. Goto(th, [Idle EXCEPT !.pc = "gc", !.todo = todo])
    BY <1>5 DEF Collect
  <2> HIDE DEF todo
  <2>3. ThreadsTyped'
    BY <2>1, <2>2, GotoType
  <2> QED BY <1>5, <2>3
          DEF Collect, Typed, ThreadsTyped, TypeOK, TxnTypeOK, StoreTypeOK, mvccVars, snapVars, logVars, auxVars, rowVars
<1> QED BY <1>1, <1>2, <1>3, <1>4, <1>5

LEMMA CollectTypes ==
  ASSUME Typed, NEW th \in Threads,
         (\E tb \in Tables : GcSkip(th, tb) \/ GcStart(th, tb)) \/ GcRun(th) \/ Prune(th)
  PROVE  Typed'
<1> DEFINE i == thread[th].store
<1>1. /\ thread[th] \in ThreadLocal /\ thread[th].pc \in {"gc", "gc_run"}
      /\ i \in Nat /\ thread[th].oldest \in Ts /\ thread[th].todo \in SUBSET Tables
  <2>1. thread[th].pc \in {"gc", "gc_run"}
    BY DEF GcSkip, GcStart, GcRun, Prune, At
  <2> QED BY <2>1, ThreadType, LocalUpdates DEF Local
<1>2. ASSUME NEW tb \in Tables, GcSkip(th, tb) PROVE Typed'
  <2>1. [thread[th] EXCEPT !.todo = thread[th].todo \ {tb}] \in Local
    BY <1>1 DEF Local, ThreadLocal
  <2>2. ThreadsTyped'
    BY <1>2, <2>1, GotoType DEF GcSkip
  <2> QED BY <1>2, <2>2
          DEF GcSkip, Typed, ThreadsTyped, TypeOK, TxnTypeOK, StoreTypeOK, mvccVars, snapVars, logVars, auxVars, rowVars
<1>3. ASSUME NEW tb \in Tables, GcStart(th, tb) PROVE Typed'
  <2> DEFINE l == [thread[th] EXCEPT !.pc = "gc_run", !.store = version_stores[tb],
                     !.oldest = oldest_active_ts, !.todo = thread[th].todo \ {tb}]
  <2>1. version_stores[tb] \in Nat /\ oldest_active_ts \in Ts
    <3>1. version_stores[tb] \in 0..Len(stores) /\ Len(stores) \in Nat
      BY LenProperties DEF Typed, TypeOK, StoreTypeOK
    <3> QED BY <3>1 DEF Typed, TypeOK, TxnTypeOK
  <2>2. l \in Local
    BY <1>1, <2>1 DEF Local, ThreadLocal, ThreadPc
  <2>3. Goto(th, l)
    BY <1>3 DEF GcStart
  <2> HIDE DEF l
  <2>4. ThreadsTyped'
    BY <2>2, <2>3, GotoType
  <2>5. gc_running' \in BOOLEAN
    BY <1>3, Zenon DEF GcStart
  <2> QED BY <1>3, <2>4, <2>5
          DEF GcStart, Typed, ThreadsTyped, TypeOK, TxnTypeOK, StoreTypeOK, mvccVars, snapVars, logVars, auxVars, rowVars
<1>4. CASE GcRun(th)
  <2>1. stores' \in Seq(Store) /\ Len(stores') = Len(stores)
    <3>1. stores' = [stores EXCEPT ![i] = StoreGc(stores[i], thread[th].oldest)]
      BY <1>4 DEF GcRun
    <3>2. i \in 1..Len(stores) => StoreGc(stores[i], thread[th].oldest) \in Store
      BY <1>1, StoreAt, StoreGcType
    <3> QED BY <1>1, <3>1, <3>2, StoreUpdateType
  <2>2. [thread[th] EXCEPT !.pc = "gc", !.store = 0, !.oldest = 0] \in Local
    <3>1. 0 \in Ts
      BY ConstFacts DEF Ts, TS_MAX
    <3> QED BY <1>1, <3>1 DEF Local, ThreadLocal, ThreadPc
  <2>3. ThreadsTyped'
    BY <1>4, <2>2, GotoType DEF GcRun
  <2>4. gc_running' \in BOOLEAN
    BY <1>4, Zenon DEF GcRun
  <2> QED BY <1>4, <2>1, <2>3, <2>4
          DEF GcRun, Typed, ThreadsTyped, TypeOK, TxnTypeOK, StoreTypeOK, mvccVars, snapVars, logVars, auxVars, rowVars
<1>5. CASE Prune(th)
  <2>1. ThreadsTyped'
    BY <1>5, GotoIdleType DEF Prune
  <2>2. version_stores' \in [Tables -> 0..Len(stores)]
    <3>1. Len(stores) \in Nat /\ version_stores \in [Tables -> 0..Len(stores)]
      BY LenProperties DEF Typed, TypeOK, StoreTypeOK
    <3>2. \A tb \in Tables : version_stores'[tb] \in {0, version_stores[tb]}
      BY <1>5 DEF Prune
    <3>3. version_stores' = [tb \in Tables |-> version_stores'[tb]]
      BY <1>5 DEF Prune
    <3> QED BY <3>1, <3>2, <3>3
  <2> QED BY <1>5, <2>1, <2>2
          DEF Prune, Typed, ThreadsTyped, TypeOK, TxnTypeOK, StoreTypeOK, mvccVars, snapVars, logVars, auxVars, rowVars
<1> QED BY <1>2, <1>3, <1>4, <1>5

LEMMA TypedInit == Init => Typed
<1> SUFFICES ASSUME Init PROVE Typed
  OBVIOUS
<1>1. Idle \in Local /\ Idle \in ThreadLocal
  BY IdleType DEF Local, Idle
<1> QED BY <1>1, TypeInit DEF Init, Typed, ThreadsTyped

LEMMA TypedNext == Typed /\ [Next]_vars => Typed'
<1> SUFFICES ASSUME Typed, [Next]_vars PROVE Typed'
  OBVIOUS
<1>1. CASE UNCHANGED vars
  BY <1>1 DEF vars, Typed, ThreadsTyped, TypeOK, TxnTypeOK, StoreTypeOK
<1>2. ASSUME NEW th \in Threads, Call(th) PROVE Typed'
  BY <1>2, CallTypes
<1>3. ASSUME NEW th \in Threads, Continue(th) PROVE Typed'
  BY <1>3, BeginTypes, StatementTypes, FinalizeTypes, PublishTypes, FinishTypes, CollectTypes
     DEF Continue
<1> QED BY <1>1, <1>2, <1>3 DEF Next

\* Every variable stays in its domain, for any number of threads, tables,
\* rows and transactions.  Typed adds what a thread's place in a call says of
\* its locals, without which a committing thread could publish for no transaction.
THEOREM TypeCorrect == Spec => []TypeOK
<1>1. Typed => TypeOK
  BY DEF Typed
<1> QED BY <1>1, TypedInit, TypedNext, PTL DEF Spec

=============================================================================
