------------------------- MODULE TxnSnapshotProofs -------------------------
(***************************************************************************)
(* Write intents and the snapshot minimum, for any number of threads.      *)
(***************************************************************************)
EXTENDS TxnManagerProofs

Beginning == {"register", "fetch_min", "enter"}
Ending    == {"release", "publish", "base", "insert_base", "push"}
IsBeginning(th, t) == thread[th].pc \in Beginning /\ thread[th].txn = t

\* An id is handed out once: until its transaction is entered no other thread
\* holds it, and once it has ended it never comes back.
IdsFresh ==
  /\ \A t \in TxnIds : Live(t) => t < next_txn
  /\ \A th \in Threads : thread[th].pc \in Beginning \cup Ending =>
       thread[th].txn < next_txn /\ ~Live(thread[th].txn)
  /\ \A th, u \in Threads :
       thread[th].pc \in Beginning /\ thread[u].pc \in Beginning \cup Ending
         /\ thread[th].txn = thread[u].txn => th = u

\* The write keys of a transaction are those of its buffered writes.
KeysMatch ==
  \A t \in TxnIds : active_txns[t].status # "validating" =>
    active_txns[t].write_keys = {active_txns[t].write_set[i].key :
                                   i \in 1..Len(active_txns[t].write_set)}

\* The snapshot of a transaction is registered from before it is entered
\* until after it has ended.
Registered ==
  /\ \A t \in TxnIds : Live(t) => [txn |-> t, ts |-> active_txns[t].snapshot_ts] \in snapshots
  /\ \A th \in Threads : thread[th].pc \in {"fetch_min", "enter"} =>
       [txn |-> thread[th].txn, ts |-> thread[th].ts] \in snapshots

\* Only a snapshot whose thread has yet to run fetch_min may lie below the
\* cached minimum.
OldestBound ==
  \A s \in snapshots :
    oldest_active_ts <= s.ts
    \/ \E th \in Threads :
         thread[th].pc = "fetch_min" /\ thread[th].txn = s.txn /\ thread[th].ts = s.ts

SnapshotInv == IdsFresh /\ KeysMatch /\ Registered /\ OldestBound
TxnInv == SnapshotInv /\ IntentsExclusive /\ NoOrphanIntent

LEMMA GotoFacts ==
  ASSUME Typed, NEW th \in Threads, NEW l, Goto(th, l)
  PROVE  thread'[th] = l /\ \A u \in Threads : u # th => thread'[u] = thread[u]
BY DEF Typed, ThreadsTyped, Goto

\* A step that neither begins nor ends a transaction: it moves one thread on
\* within its call, or out of it, or into a statement or a commit.
Quiet(th, l) ==
  /\ UNCHANGED <<next_txn, active_txns, snapVars, active_writes>>
  /\ Goto(th, l)
  /\ thread[th].pc \notin Beginning
  /\ l.pc \notin Beginning
  /\ l.pc \in Ending => thread[th].pc \in Ending /\ l.txn = thread[th].txn

LEMMA QuietKeeps ==
  ASSUME Typed, TxnInv, NEW th \in Threads, NEW l, Quiet(th, l)
  PROVE  TxnInv'
<1>1. /\ thread'[th] = l /\ \A u \in Threads : u # th => thread'[u] = thread[u]
      /\ l.pc \notin Beginning /\ thread[th].pc \notin Beginning
      /\ l.pc \in Ending => thread[th].pc \in Ending /\ l.txn = thread[th].txn
  BY GotoFacts DEF Quiet
<1>2. /\ next_txn' = next_txn /\ active_txns' = active_txns /\ snapshots' = snapshots
      /\ oldest_active_ts' = oldest_active_ts /\ active_writes' = active_writes
  BY DEF Quiet, snapVars
<1>3. IdsFresh'
  BY <1>1, <1>2 DEF TxnInv, SnapshotInv, IdsFresh, Live
<1>4. KeysMatch' /\ IntentsExclusive' /\ NoOrphanIntent'
  BY <1>2 DEF TxnInv, SnapshotInv, KeysMatch, IntentsExclusive, NoOrphanIntent
<1>5. Registered'
  BY <1>1, <1>2 DEF TxnInv, SnapshotInv, Registered, Live, Beginning
<1>6. OldestBound'
  BY <1>1, <1>2 DEF TxnInv, SnapshotInv, OldestBound, Beginning
<1> QED BY <1>3, <1>4, <1>5, <1>6 DEF TxnInv, SnapshotInv

\* The end of an open transaction, by abort or by commit.
Ends(th, t, l) ==
  /\ Live(t)
  /\ active_txns' = [u \in TxnIds |-> IF u = t THEN NoTxn ELSE active_txns[u]]
  /\ ReleaseIntents({t})
  /\ UNCHANGED <<next_txn, snapVars>>
  /\ Goto(th, l)
  /\ thread[th].pc \notin Beginning
  /\ l.pc \in Ending /\ l.txn = t

LEMMA EndsKeeps ==
  ASSUME Typed, TxnInv, NEW th \in Threads, NEW t \in TxnIds, NEW l, Ends(th, t, l)
  PROVE  TxnInv'
<1>1. /\ thread'[th] = l /\ \A u \in Threads : u # th => thread'[u] = thread[u]
      /\ l.pc \in Ending /\ thread[th].pc \notin Beginning /\ l.txn = t
  BY GotoFacts DEF Ends
<1>2. /\ next_txn' = next_txn /\ snapshots' = snapshots /\ oldest_active_ts' = oldest_active_ts
      /\ Live(t) /\ active_txns'[t] = NoTxn
      /\ \A u \in TxnIds : u # t => active_txns'[u] = active_txns[u]
  BY DEF Ends, snapVars
<1>3. \A u \in TxnIds : active_txns'[u].status # "none" => active_txns[u].status # "none" /\ u # t
  BY <1>2 DEF Live, NoTxn
<1>4. IdsFresh'
  <2>1. \A u \in TxnIds : active_txns'[u].status # "none" => u < next_txn'
    BY <1>2, <1>3 DEF TxnInv, SnapshotInv, IdsFresh, Live
  <2>2. \A u \in Threads : thread'[u].pc \in Beginning \cup Ending =>
          thread'[u].txn \in TxnIds
    BY <1>1, LocalUpdates DEF Beginning, Ending
  <2>3. \A u \in Threads : thread'[u].pc \in Beginning \cup Ending =>
          thread'[u].txn < next_txn' /\ active_txns'[thread'[u].txn].status = "none"
    BY <1>1, <1>2, <1>3, <2>2 DEF TxnInv, SnapshotInv, IdsFresh, Live
  <2>4. \A u \in Threads : thread[u].pc \in Beginning => thread[u].txn # t
    BY <1>2 DEF TxnInv, SnapshotInv, IdsFresh
  <2>5. \A u, v \in Threads :
          thread'[u].pc \in Beginning /\ thread'[v].pc \in Beginning \cup Ending
            /\ thread'[u].txn = thread'[v].txn => u = v
    <3> SUFFICES ASSUME NEW u \in Threads, NEW v \in Threads, thread'[u].pc \in Beginning,
                        thread'[v].pc \in Beginning \cup Ending,
                        thread'[u].txn = thread'[v].txn
                 PROVE  u = v
      OBVIOUS
    <3>1. u # th
      BY <1>1 DEF Beginning, Ending
    <3>2. v # th
      BY <1>1, <2>4, <3>1
    <3> QED BY <1>1, <3>1, <3>2 DEF TxnInv, SnapshotInv, IdsFresh
  <2> QED BY <2>1, <2>3, <2>5 DEF IdsFresh, Live
<1>5. KeysMatch'
  <2>1. NoTxn.write_keys = {} /\ NoTxn.write_set = <<>> /\ Len(<<>>) = 0
    BY DEF NoTxn
  <2> QED BY <1>2, <2>1 DEF TxnInv, SnapshotInv, KeysMatch
<1>6. IntentsExclusive'
  <2> SUFFICES ASSUME NEW u \in TxnIds, active_txns'[u].status = "validating",
                      NEW k \in active_txns'[u].write_keys
               PROVE  active_writes'[k] = u
    BY DEF IntentsExclusive
  <2>1. u # t /\ active_txns'[u] = active_txns[u]
    BY <1>2 DEF NoTxn
  <2>2. k \in Key /\ active_writes[k] = u
    BY <2>1 DEF TxnInv, IntentsExclusive, Typed, TypeOK, TxnTypeOK, ActiveTxn
  <2> QED BY <2>1, <2>2 DEF Ends, ReleaseIntents
<1>7. NoOrphanIntent'
  <2> SUFFICES ASSUME NEW k \in Key, active_writes'[k] # 0
               PROVE  /\ active_txns'[active_writes'[k]].status = "validating"
                      /\ k \in active_txns'[active_writes'[k]].write_keys
    BY DEF NoOrphanIntent
  <2>1. active_writes'[k] = active_writes[k]
        /\ active_writes[k] \notin {u \in {t} : k \in active_txns[u].write_keys}
    BY DEF Ends, ReleaseIntents
  <2>2. /\ active_txns[active_writes[k]].status = "validating"
        /\ k \in active_txns[active_writes[k]].write_keys
    BY <2>1 DEF TxnInv, NoOrphanIntent
  <2>3. active_writes[k] # t /\ active_writes[k] \in TxnIds
    BY <2>1, <2>2, ConstFacts DEF Typed, TypeOK, TxnTypeOK, TxnIds
  <2> QED BY <1>2, <2>1, <2>2, <2>3
<1>8. Registered'
  BY <1>1, <1>2, <1>3 DEF TxnInv, SnapshotInv, Registered, Live, Beginning, Ending
<1>9. OldestBound'
  BY <1>1, <1>2 DEF TxnInv, SnapshotInv, OldestBound, Beginning
<1> QED BY <1>4, <1>5, <1>6, <1>7, <1>8, <1>9 DEF TxnInv, SnapshotInv

LEMMA BeginKeeps ==
  ASSUME Typed, TxnInv, NEW th \in Threads, Begin(th) \/ BeginReadOnly(th)
  PROVE  TxnInv'
<1> DEFINE l == thread'[th]
<1>1. /\ l.pc = "register" /\ l.txn = next_txn /\ thread[th].pc = "idle"
      /\ \A u \in Threads : u # th => thread'[u] = thread[u]
  <2>1. CASE Begin(th)
    <3>1. l = [Idle EXCEPT !.pc = "register", !.txn = next_txn, !.ts = global_ts]
          /\ \A u \in Threads : u # th => thread'[u] = thread[u]
      BY <2>1, GotoFacts DEF Begin
    <3> QED BY <2>1, <3>1 DEF Begin, At, Idle
  <2>2. CASE BeginReadOnly(th)
    <3>1. l = [Idle EXCEPT !.pc = "register", !.txn = next_txn, !.ts = global_ts,
                           !.read_only = TRUE]
          /\ \A u \in Threads : u # th => thread'[u] = thread[u]
      BY <2>2, GotoFacts DEF BeginReadOnly
    <3> QED BY <2>2, <3>1 DEF BeginReadOnly, At, Idle
  <2> QED BY <2>1, <2>2
<1>2. /\ next_txn \in TxnIds /\ next_txn' = next_txn + 1 /\ active_txns' = active_txns
      /\ snapshots' = snapshots /\ oldest_active_ts' = oldest_active_ts
      /\ active_writes' = active_writes
  BY DEF Begin, BeginReadOnly, snapVars, logVars, TxnIds, Typed, TypeOK, TxnTypeOK
<1> HIDE DEF l
<1>3. IdsFresh'
  <2>1. /\ \A t \in TxnIds : Live(t) => t < next_txn
        /\ \A u \in Threads : thread[u].pc \in Beginning \cup Ending =>
             thread[u].txn < next_txn /\ ~Live(thread[u].txn)
        /\ \A v, u \in Threads :
             thread[v].pc \in Beginning /\ thread[u].pc \in Beginning \cup Ending
               /\ thread[v].txn = thread[u].txn => v = u
    BY DEF TxnInv, SnapshotInv, IdsFresh
  <2>2. \A u \in Threads : thread[u].pc \in Beginning \cup Ending => thread[u].txn \in Nat
    BY LocalUpdates DEF Beginning, Ending
  <2>3. \A t \in TxnIds : active_txns'[t].status # "none" => t < next_txn'
    BY <1>2, <2>1 DEF Live, TxnIds
  <2>4. next_txn \in Nat /\ ~Live(next_txn)
    BY <1>2, <2>1 DEF TxnIds
  <2>5. \A u \in Threads : thread'[u].pc \in Beginning \cup Ending =>
          thread'[u].txn < next_txn' /\ active_txns'[thread'[u].txn].status = "none"
    <3> SUFFICES ASSUME NEW u \in Threads, thread'[u].pc \in Beginning \cup Ending
                 PROVE  thread'[u].txn < next_txn' /\ active_txns'[thread'[u].txn].status = "none"
      OBVIOUS
    <3>1. CASE u = th
      BY <1>1, <1>2, <2>4, <3>1 DEF l, Live
    <3>2. CASE u # th
      BY <1>1, <1>2, <2>1, <2>2, <2>4, <3>2 DEF Live
    <3> QED BY <3>1, <3>2
  <2>6. \A v, u \in Threads :
          thread'[v].pc \in Beginning /\ thread'[u].pc \in Beginning \cup Ending
            /\ thread'[v].txn = thread'[u].txn => v = u
    <3>1. \A u \in Threads : u # th /\ thread'[u].pc \in Beginning \cup Ending
                               => thread'[u].txn # next_txn
      BY <1>1, <2>1, <2>2, <2>4
    <3> QED BY <1>1, <2>1, <3>1 DEF l
  <2> QED BY <2>3, <2>5, <2>6 DEF IdsFresh, Live
<1>4. KeysMatch' /\ IntentsExclusive' /\ NoOrphanIntent'
  BY <1>2 DEF TxnInv, SnapshotInv, KeysMatch, IntentsExclusive, NoOrphanIntent
<1>5. Registered'
  BY <1>1, <1>2 DEF TxnInv, SnapshotInv, Registered, Live, l
<1>6. OldestBound'
  BY <1>1, <1>2 DEF TxnInv, SnapshotInv, OldestBound
<1> QED BY <1>3, <1>4, <1>5, <1>6 DEF TxnInv, SnapshotInv

\* A thread on its way through begin keeps its transaction id and timestamp.
LEMMA RegisterKeeps ==
  ASSUME Typed, TxnInv, NEW th \in Threads, Register(th) \/ FetchMin(th)
  PROVE  TxnInv'
<1> DEFINE t == thread[th].txn
<1>1. /\ thread'[th].pc \in Beginning /\ thread[th].pc \in Beginning
      /\ thread'[th].txn = t /\ thread'[th].ts = thread[th].ts
      /\ \A u \in Threads : u # th => thread'[u] = thread[u]
      /\ t \in TxnIds /\ thread[th].ts \in Ts
  <2>1. thread[th] \in ThreadLocal
    BY ThreadType DEF Local
  <2>2. \E pc \in {"fetch_min", "enter"} : Goto(th, [thread[th] EXCEPT !.pc = pc])
    BY DEF Register, FetchMin, Step
  <2>3. PICK pc \in {"fetch_min", "enter"} : Goto(th, [thread[th] EXCEPT !.pc = pc])
    BY <2>2
  <2>4. /\ thread'[th] = [thread[th] EXCEPT !.pc = pc]
        /\ \A u \in Threads : u # th => thread'[u] = thread[u]
    BY <2>3, GotoFacts
  <2>5. thread'[th].pc = pc /\ thread'[th].txn = t /\ thread'[th].ts = thread[th].ts
    BY <2>1, <2>4 DEF ThreadLocal
  <2>6. thread[th].pc \in {"register", "fetch_min"}
    BY DEF Register, FetchMin, At
  <2> QED BY <2>3, <2>4, <2>5, <2>6, LocalUpdates DEF Beginning
<1>2. next_txn' = next_txn /\ active_txns' = active_txns /\ active_writes' = active_writes
  BY DEF Register, FetchMin, logVars
<1>3. IdsFresh'
  BY <1>1, <1>2 DEF TxnInv, SnapshotInv, IdsFresh, Live
<1>4. KeysMatch' /\ IntentsExclusive' /\ NoOrphanIntent'
  BY <1>2 DEF TxnInv, SnapshotInv, KeysMatch, IntentsExclusive, NoOrphanIntent
<1>5. CASE Register(th)
  <2>1. /\ snapshots' = snapshots \cup {[txn |-> t, ts |-> thread[th].ts]}
        /\ oldest_active_ts' = oldest_active_ts
    BY <1>5 DEF Register
  <2>2. thread'[th].pc = "fetch_min"
    <3>1. thread[th] \in ThreadLocal /\ Goto(th, [thread[th] EXCEPT !.pc = "fetch_min"])
      BY <1>5, ThreadType DEF Register, Step, Local
    <3> QED BY <3>1, GotoFacts DEF ThreadLocal
  <2>3. Registered'
    BY <1>1, <1>2, <2>1 DEF TxnInv, SnapshotInv, Registered, Live
  <2>4. OldestBound'
    <3>1. thread[th].pc = "register"
      BY <1>5 DEF Register, At
    <3> QED BY <1>1, <2>1, <2>2, <3>1 DEF TxnInv, SnapshotInv, OldestBound
  <2> QED BY <1>3, <1>4, <2>3, <2>4 DEF TxnInv, SnapshotInv
<1>6. CASE FetchMin(th)
  <2>1. snapshots' = snapshots /\ thread[th].pc = "fetch_min"
    BY <1>6 DEF FetchMin, At
  <2>2. /\ oldest_active_ts' <= oldest_active_ts /\ oldest_active_ts' <= thread[th].ts
        /\ oldest_active_ts' \in Ts /\ oldest_active_ts \in Ts
    <3>1. {oldest_active_ts, thread[th].ts} \in SUBSET Ts
      BY <1>1 DEF Typed, TypeOK, TxnTypeOK
    <3> QED BY <1>6, <3>1, MinTsType DEF FetchMin
  <2>3. Registered'
    BY <1>1, <1>2, <2>1 DEF TxnInv, SnapshotInv, Registered, Live
  <2>4. OldestBound'
    <3> SUFFICES ASSUME NEW s \in snapshots, ~(oldest_active_ts' <= s.ts)
                 PROVE  \E u \in Threads : /\ thread'[u].pc = "fetch_min"
                                            /\ thread'[u].txn = s.txn /\ thread'[u].ts = s.ts
      BY <2>1 DEF OldestBound
    <3>1. s.ts \in Ts
      BY DEF Typed, TypeOK, TxnTypeOK
    <3>2. ~(oldest_active_ts <= s.ts)
      BY <2>2, <3>1, TsFacts
    <3>3. PICK u \in Threads : /\ thread[u].pc = "fetch_min"
                               /\ thread[u].txn = s.txn /\ thread[u].ts = s.ts
      BY <3>2 DEF TxnInv, SnapshotInv, OldestBound
    <3>4. CASE u # th
      BY <1>1, <3>3, <3>4
    <3>5. CASE u = th
      BY <2>2, <3>3, <3>5
    <3> QED BY <3>4, <3>5
  <2> QED BY <1>3, <1>4, <2>3, <2>4 DEF TxnInv, SnapshotInv
<1> QED BY <1>5, <1>6

LEMMA EnterKeeps ==
  ASSUME Typed, TxnInv, NEW th \in Threads, Enter(th)
  PROVE  TxnInv'
<1> DEFINE t == thread[th].txn
           a == [NoTxn EXCEPT !.status = "active", !.snapshot_ts = thread[th].ts,
                              !.read_only = thread[th].read_only]
<1>1. thread[th].pc = "enter" /\ t \in TxnIds /\ thread[th] \in ThreadLocal
  BY ThreadType, LocalUpdates DEF Enter, At, Local
<1>2. /\ thread'[th].pc \notin Beginning \cup Ending
      /\ \A u \in Threads : u # th => thread'[u] = thread[u]
  <2>1. CASE Goto(th, Idle)
    BY <2>1, GotoFacts DEF Idle, Beginning, Ending
  <2>2. CASE Goto(th, [thread[th] EXCEPT !.pc = "sweep"])
    <3> DEFINE l == [thread[th] EXCEPT !.pc = "sweep"]
    <3>1. l.pc = "sweep" /\ Goto(th, l)
      BY <1>1, <2>2 DEF ThreadLocal
    <3> HIDE DEF l
    <3>2. thread'[th] = l /\ \A u \in Threads : u # th => thread'[u] = thread[u]
      BY <3>1, GotoFacts
    <3> QED BY <3>1, <3>2 DEF Beginning, Ending
  <2> QED BY <2>1, <2>2 DEF Enter, Step
<1>3. /\ next_txn' = next_txn /\ snapshots' = snapshots /\ oldest_active_ts' = oldest_active_ts
      /\ active_writes' = active_writes
      /\ active_txns' = [active_txns EXCEPT ![t] = a]
  BY DEF Enter, snapVars, logVars
<1>4. /\ a.status = "active" /\ a.snapshot_ts = thread[th].ts /\ a.write_set = <<>>
      /\ a.write_keys = {} /\ Len(<<>>) = 0
  BY DEF NoTxn
<1>5. /\ active_txns'[t] = a
      /\ \A u \in TxnIds : u # t => active_txns'[u] = active_txns[u]
  BY <1>1, <1>3 DEF Typed, TypeOK, TxnTypeOK
<1>6. /\ ~Live(t) /\ t < next_txn
      /\ \A u \in Threads : u # th /\ thread[u].pc \in Beginning \cup Ending => thread[u].txn # t
  BY <1>1 DEF TxnInv, SnapshotInv, IdsFresh, Beginning
<1> HIDE DEF a
<1>7. IdsFresh'
  <2>1. \A u \in TxnIds : active_txns'[u].status # "none" => u < next_txn'
    BY <1>3, <1>5, <1>6 DEF TxnInv, SnapshotInv, IdsFresh, Live
  <2>2. \A u \in Threads : thread'[u].pc \in Beginning \cup Ending =>
          thread'[u].txn < next_txn' /\ active_txns'[thread'[u].txn].status = "none"
    <3> SUFFICES ASSUME NEW u \in Threads, thread'[u].pc \in Beginning \cup Ending
                 PROVE  thread'[u].txn < next_txn' /\ active_txns'[thread'[u].txn].status = "none"
      OBVIOUS
    <3>1. u # th /\ thread'[u] = thread[u] /\ thread[u].txn # t /\ thread[u].txn \in TxnIds
      BY <1>2, <1>6, LocalUpdates DEF Beginning, Ending
    <3> QED BY <1>3, <1>5, <3>1 DEF TxnInv, SnapshotInv, IdsFresh, Live
  <2>3. \A v, u \in Threads :
          thread'[v].pc \in Beginning /\ thread'[u].pc \in Beginning \cup Ending
            /\ thread'[v].txn = thread'[u].txn => v = u
    BY <1>2 DEF TxnInv, SnapshotInv, IdsFresh
  <2> QED BY <2>1, <2>2, <2>3 DEF IdsFresh, Live
<1>8. KeysMatch'
  BY <1>4, <1>5 DEF TxnInv, SnapshotInv, KeysMatch
<1>9. IntentsExclusive'
  BY <1>3, <1>4, <1>5 DEF TxnInv, IntentsExclusive
<1>10. NoOrphanIntent'
  <2>1. \A k \in Key : active_writes[k] # 0 => active_writes[k] \in TxnIds /\ active_writes[k] # t
    BY <1>6, ConstFacts DEF TxnInv, NoOrphanIntent, Live, Typed, TypeOK, TxnTypeOK, TxnIds
  <2> QED BY <1>3, <1>5, <2>1 DEF TxnInv, NoOrphanIntent
<1>11. Registered'
  <2>1. \A u \in Threads : thread'[u].pc \in {"fetch_min", "enter"} =>
          [txn |-> thread'[u].txn, ts |-> thread'[u].ts] \in snapshots'
    BY <1>2, <1>3 DEF TxnInv, SnapshotInv, Registered, Beginning
  <2>2. [txn |-> t, ts |-> thread[th].ts] \in snapshots
    BY <1>1 DEF TxnInv, SnapshotInv, Registered
  <2>3. \A u \in TxnIds : active_txns'[u].status # "none" =>
          [txn |-> u, ts |-> active_txns'[u].snapshot_ts] \in snapshots'
    BY <1>3, <1>4, <1>5, <2>2 DEF TxnInv, SnapshotInv, Registered, Live
  <2> QED BY <2>1, <2>3 DEF Registered, Live
<1>12. OldestBound'
  BY <1>1, <1>2, <1>3 DEF TxnInv, SnapshotInv, OldestBound
<1> QED BY <1>7, <1>8, <1>9, <1>10, <1>11, <1>12 DEF TxnInv, SnapshotInv

\* Snapshots of transactions that are neither open nor on their way in are
\* released, and the minimum is recomputed over the others.
LEMMA ReleaseKeeps ==
  ASSUME Typed, TxnInv, NEW th \in Threads, Release(th) \/ PublishDone(th)
  PROVE  TxnInv'
<1> DEFINE t == thread[th].txn
<1>1. thread[th].pc \in Ending /\ t \in TxnIds /\ thread[th] \in ThreadLocal
  BY ThreadType, LocalUpdates DEF Release, PublishDone, At, Local, Ending
<1>2. /\ thread'[th].pc \notin Beginning \cup Ending
      /\ \A u \in Threads : u # th => thread'[u] = thread[u]
  <2>1. CASE Goto(th, Idle)
    BY <2>1, GotoFacts DEF Idle, Beginning, Ending
  <2>2. CASE Goto(th, [thread[th] EXCEPT !.pc = "watermark"])
    <3> DEFINE l == [thread[th] EXCEPT !.pc = "watermark"]
    <3>1. l.pc = "watermark" /\ Goto(th, l)
      BY <1>1, <2>2 DEF ThreadLocal
    <3> HIDE DEF l
    <3>2. thread'[th] = l /\ \A u \in Threads : u # th => thread'[u] = thread[u]
      BY <3>1, GotoFacts
    <3> QED BY <3>1, <3>2 DEF Beginning, Ending
  <2> QED BY <2>1, <2>2 DEF Release, PublishDone, Step
<1>3. /\ next_txn' = next_txn /\ active_txns' = active_txns /\ active_writes' = active_writes
      /\ ReleaseSnapshots({t})
  BY DEF Release, PublishDone, logVars
<1>4. snapshots' = {s \in snapshots : s.txn # t} /\ \A s \in snapshots' : oldest_active_ts' <= s.ts
  <2>1. snapshots' = {s \in snapshots : s.txn # t}
    BY <1>3 DEF ReleaseSnapshots
  <2>2. \A s \in snapshots' : oldest_active_ts' <= s.ts
    BY <1>3, ReleaseType DEF Typed
  <2> QED BY <2>1, <2>2
<1>5. /\ ~Live(t)
      /\ \A u \in Threads : u # th /\ thread[u].pc \in Beginning => thread[u].txn # t
  BY <1>1 DEF TxnInv, SnapshotInv, IdsFresh
<1>6. IdsFresh'
  BY <1>2, <1>3 DEF TxnInv, SnapshotInv, IdsFresh, Live
<1>7. KeysMatch' /\ IntentsExclusive' /\ NoOrphanIntent'
  BY <1>3 DEF TxnInv, SnapshotInv, KeysMatch, IntentsExclusive, NoOrphanIntent
<1>8. Registered'
  BY <1>2, <1>3, <1>4, <1>5 DEF TxnInv, SnapshotInv, Registered, Live, Beginning
<1>9. OldestBound'
  BY <1>4 DEF OldestBound
<1> QED BY <1>6, <1>7, <1>8, <1>9 DEF TxnInv, SnapshotInv

LEMMA SweepKeeps ==
  ASSUME Typed, TxnInv, NEW th \in Threads, Sweep(th)
  PROVE  TxnInv'
<1>1. PICK T \in SUBSET {t \in TxnIds : active_txns[t].status = "active"} :
        AbortTxns(T) /\ IF T = {} THEN UNCHANGED snapVars ELSE ReleaseSnapshots(T)
  BY DEF Sweep
<1>2. /\ thread[th].pc = "sweep" /\ thread'[th].pc = "idle"
      /\ \A u \in Threads : u # th => thread'[u] = thread[u]
  BY GotoFacts DEF Sweep, At, Idle
<1>3. /\ next_txn' = next_txn
      /\ \A u \in T : active_txns'[u] = NoTxn /\ active_txns[u].status = "active"
      /\ \A u \in TxnIds \ T : active_txns'[u] = active_txns[u]
  BY <1>1 DEF Sweep, AbortTxns
<1>4. active_writes' = active_writes
  <2>1. \A k \in Key : active_writes[k] \notin T
    <3>1. \A k \in Key : active_writes[k] # 0 =>
            active_txns[active_writes[k]].status = "validating"
      BY DEF TxnInv, NoOrphanIntent
    <3>2. 0 \notin T
      BY <1>1 DEF TxnIds
    <3> QED BY <1>3, <3>1, <3>2
  <2>2. active_writes' = [k \in Key |-> active_writes[k]]
    BY <1>1, <2>1 DEF AbortTxns, ReleaseIntents
  <2> QED BY <2>2 DEF Typed, TypeOK, TxnTypeOK
<1>5. /\ snapshots' = {s \in snapshots : s.txn \notin T}
      /\ T = {} => oldest_active_ts' = oldest_active_ts
      /\ T # {} => \A s \in snapshots' : oldest_active_ts' <= s.ts
  <2>1. CASE T = {}
    BY <1>1, <2>1 DEF snapVars
  <2>2. CASE T # {}
    <3>1. ReleaseSnapshots(T)
      BY <1>1, <2>2
    <3>2. snapshots' = {s \in snapshots : s.txn \notin T}
      BY <3>1 DEF ReleaseSnapshots
    <3>3. \A s \in snapshots' : oldest_active_ts' <= s.ts
      BY <3>1, ReleaseType DEF Typed
    <3> QED BY <2>2, <3>2, <3>3
  <2> QED BY <2>1, <2>2
<1>6. \A u \in TxnIds : active_txns'[u].status # "none" => u \notin T /\ Live(u)
  BY <1>3 DEF NoTxn, Live
<1>7. \A u \in Threads : thread'[u].pc \in Beginning \cup Ending =>
        u # th /\ thread'[u] = thread[u] /\ thread[u].txn \in TxnIds /\ thread[u].txn \notin T
  <2> SUFFICES ASSUME NEW u \in Threads, thread'[u].pc \in Beginning \cup Ending
               PROVE  u # th /\ thread'[u] = thread[u] /\ thread[u].txn \in TxnIds
                      /\ thread[u].txn \notin T
    OBVIOUS
  <2>1. u # th /\ thread'[u] = thread[u]
    BY <1>2 DEF Beginning, Ending
  <2>2. ~Live(thread[u].txn)
    BY <2>1 DEF TxnInv, SnapshotInv, IdsFresh
  <2> QED BY <1>3, <2>1, <2>2, LocalUpdates DEF Live, Beginning, Ending
<1>8. IdsFresh'
  <2>1. \A u \in TxnIds : active_txns'[u].status # "none" => u < next_txn'
    BY <1>3, <1>6 DEF TxnInv, SnapshotInv, IdsFresh
  <2>2. \A u \in Threads : thread'[u].pc \in Beginning \cup Ending =>
          thread'[u].txn < next_txn' /\ active_txns'[thread'[u].txn].status = "none"
    BY <1>3, <1>7 DEF TxnInv, SnapshotInv, IdsFresh, Live
  <2>3. \A v, u \in Threads :
          thread'[v].pc \in Beginning /\ thread'[u].pc \in Beginning \cup Ending
            /\ thread'[v].txn = thread'[u].txn => v = u
    BY <1>7 DEF TxnInv, SnapshotInv, IdsFresh
  <2> QED BY <2>1, <2>2, <2>3 DEF IdsFresh, Live
<1>9. KeysMatch'
  <2>1. NoTxn.write_keys = {} /\ NoTxn.write_set = <<>> /\ Len(<<>>) = 0
    BY DEF NoTxn
  <2> QED BY <1>3, <2>1 DEF TxnInv, SnapshotInv, KeysMatch
<1>10. IntentsExclusive'
  BY <1>3, <1>4 DEF TxnInv, IntentsExclusive, NoTxn
<1>11. NoOrphanIntent'
  <2>1. \A k \in Key : active_writes[k] # 0 => active_writes[k] \in TxnIds \ T
    BY <1>3, ConstFacts DEF TxnInv, NoOrphanIntent, Typed, TypeOK, TxnTypeOK, TxnIds
  <2> QED BY <1>3, <1>4, <2>1 DEF TxnInv, NoOrphanIntent
<1>12. Registered'
  <2>1. \A u \in TxnIds : active_txns'[u].status # "none" =>
          [txn |-> u, ts |-> active_txns'[u].snapshot_ts] \in snapshots'
    BY <1>3, <1>5, <1>6 DEF TxnInv, SnapshotInv, Registered
  <2>2. \A u \in Threads : thread'[u].pc \in {"fetch_min", "enter"} =>
          [txn |-> thread'[u].txn, ts |-> thread'[u].ts] \in snapshots'
    BY <1>5, <1>7 DEF TxnInv, SnapshotInv, Registered, Beginning
  <2> QED BY <2>1, <2>2 DEF Registered, Live
<1>13. OldestBound'
  <2>1. CASE T = {}
    BY <1>2, <1>5, <2>1 DEF TxnInv, SnapshotInv, OldestBound
  <2>2. CASE T # {}
    BY <1>5, <2>2 DEF OldestBound
  <2> QED BY <2>1, <2>2
<1> QED BY <1>8, <1>9, <1>10, <1>11, <1>12, <1>13 DEF TxnInv, SnapshotInv

\* A step that changes the context of one open transaction and nothing else
\* the invariant speaks of, except the intents.
Updates(th, t, a) ==
  /\ active_txns' = [active_txns EXCEPT ![t] = a]
  /\ Live(t) /\ a.status # "none" /\ a.snapshot_ts = active_txns[t].snapshot_ts
  /\ UNCHANGED <<next_txn, snapVars>>
  /\ thread[th].pc \notin Beginning /\ thread'[th].pc \notin Beginning \cup Ending
  /\ \A u \in Threads : u # th => thread'[u] = thread[u]

LEMMA UpdatesKeeps ==
  ASSUME Typed, TxnInv, NEW th \in Threads, NEW t \in TxnIds, NEW a, Updates(th, t, a)
  PROVE  IdsFresh' /\ Registered' /\ OldestBound'
<1>1. /\ next_txn' = next_txn /\ snapshots' = snapshots /\ oldest_active_ts' = oldest_active_ts
      /\ active_txns'[t] = a /\ active_txns[t].status # "none"
      /\ a.status # "none" /\ a.snapshot_ts = active_txns[t].snapshot_ts
      /\ \A u \in TxnIds : u # t => active_txns'[u] = active_txns[u]
  BY DEF Updates, snapVars, Live, Typed, TypeOK, TxnTypeOK
<1>2. /\ thread[th].pc \notin Beginning /\ thread'[th].pc \notin Beginning \cup Ending
      /\ \A u \in Threads : u # th => thread'[u] = thread[u]
  BY DEF Updates
<1>3. IdsFresh'
  <2>1. \A u \in TxnIds : active_txns'[u].status # "none" => u < next_txn'
    BY <1>1 DEF TxnInv, SnapshotInv, IdsFresh, Live
  <2>2. \A u \in Threads : thread'[u].pc \in Beginning \cup Ending =>
          thread'[u].txn < next_txn' /\ active_txns'[thread'[u].txn].status = "none"
    BY <1>1, <1>2, LocalUpdates DEF TxnInv, SnapshotInv, IdsFresh, Live, Beginning, Ending
  <2>3. \A v, u \in Threads :
          thread'[v].pc \in Beginning /\ thread'[u].pc \in Beginning \cup Ending
            /\ thread'[v].txn = thread'[u].txn => v = u
    BY <1>2 DEF TxnInv, SnapshotInv, IdsFresh
  <2> QED BY <2>1, <2>2, <2>3 DEF IdsFresh, Live
<1>4. Registered'
  <2>1. \A u \in TxnIds : active_txns'[u].status # "none" =>
          [txn |-> u, ts |-> active_txns'[u].snapshot_ts] \in snapshots'
    BY <1>1 DEF TxnInv, SnapshotInv, Registered, Live
  <2>2. \A u \in Threads : thread'[u].pc \in {"fetch_min", "enter"} =>
          [txn |-> thread'[u].txn, ts |-> thread'[u].ts] \in snapshots'
    BY <1>1, <1>2 DEF TxnInv, SnapshotInv, Registered, Beginning
  <2> QED BY <2>1, <2>2 DEF Registered, Live
<1>5. OldestBound'
  BY <1>1, <1>2 DEF TxnInv, SnapshotInv, OldestBound, Beginning
<1> QED BY <1>3, <1>4, <1>5

LEMMA RecordReadKeeps ==
  ASSUME Typed, TxnInv, NEW th \in Threads, NEW t \in TxnIds, NEW k \in Key, RecordRead(th, t, k)
  PROVE  TxnInv'
<1> DEFINE a == [active_txns[t] EXCEPT !.read_set = active_txns[t].read_set \cup {k}]
<1>1. active_txns[t] \in ActiveTxn /\ active_txns[t].status = "active" /\ thread[th].pc = "idle"
  BY DEF RecordRead, At, Typed, TypeOK, TxnTypeOK
<1>2. /\ a.status = "active" /\ a.snapshot_ts = active_txns[t].snapshot_ts
      /\ a.write_set = active_txns[t].write_set /\ a.write_keys = active_txns[t].write_keys
  BY <1>1 DEF ActiveTxn
<1>3. active_txns' = [active_txns EXCEPT ![t] = a]
  BY DEF RecordRead
<1>4. thread' = thread /\ UNCHANGED <<next_txn, snapVars>> /\ active_writes' = active_writes
  BY DEF RecordRead, logVars
<1> HIDE DEF a
<1>5. Updates(th, t, a)
  BY <1>1, <1>2, <1>3, <1>4 DEF Updates, Live, Beginning, Ending
<1>6. active_txns'[t] = a /\ \A u \in TxnIds : u # t => active_txns'[u] = active_txns[u]
  BY <1>3 DEF Typed, TypeOK, TxnTypeOK
<1>7. KeysMatch'
  BY <1>1, <1>2, <1>6 DEF TxnInv, SnapshotInv, KeysMatch
<1>8. IntentsExclusive'
  BY <1>2, <1>4, <1>6 DEF TxnInv, IntentsExclusive
<1>9. NoOrphanIntent'
  <2>1. \A x \in Key : active_writes[x] # 0 => active_writes[x] \in TxnIds /\ active_writes[x] # t
    BY <1>1, ConstFacts DEF TxnInv, NoOrphanIntent, Typed, TypeOK, TxnTypeOK, TxnIds
  <2> QED BY <1>4, <1>6, <2>1 DEF TxnInv, NoOrphanIntent
<1> QED BY <1>5, <1>7, <1>8, <1>9, UpdatesKeeps DEF TxnInv, SnapshotInv

\* Appending to the write set adds the key of the write to the keys.
LEMMA AppendKeys ==
  ASSUME NEW s \in Seq(TxnWrite), NEW w \in TxnWrite, NEW q, q = Append(s, w)
  PROVE  {q[i].key : i \in 1..Len(q)} = {s[i].key : i \in 1..Len(s)} \cup {w.key}
<1>1. /\ Len(s) \in Nat /\ Len(q) = Len(s) + 1 /\ q[Len(q)] = w
      /\ \A i \in 1..Len(s) : q[i] = s[i]
  BY LenProperties, AppendProperties
<1>2. \A i \in 1..Len(q) : i \in 1..Len(s) \/ i = Len(q)
  BY <1>1
<1>3. 1..Len(s) \subseteq 1..Len(q) /\ Len(q) \in 1..Len(q)
  BY <1>1
<1> QED BY <1>1, <1>2, <1>3

LEMMA BufferKeeps ==
  ASSUME Typed, TxnInv, NEW th \in Threads, BufferWrite(th)
  PROVE  TxnInv'
<1> DEFINE t == thread[th].txn
           w == Head(thread[th].writes)
           a == Buffered(active_txns[t], w, thread[th].n)
<1> HIDE DEF w, a
<1>1. thread[th].pc = "buffer" /\ t \in TxnIds /\ w \in TxnWrite
  <2>1. thread[th].pc = "buffer"
    BY DEF BufferWrite, At
  <2>2. thread[th].writes # <<>> /\ t \in TxnIds
    BY <2>1, LocalUpdates
  <2> QED BY <2>1, <2>2, HeadType DEF w
<1>2. /\ thread'[th] = Idle /\ Idle.pc = "idle"
      /\ \A u \in Threads : u # th => thread'[u] = thread[u]
  BY GotoFacts DEF BufferWrite, Idle
<1>3. UNCHANGED <<next_txn, snapVars>> /\ active_writes' = active_writes
  BY DEF BufferWrite, logVars
<1>4. CASE UNCHANGED active_txns
  <2>1. Quiet(th, Idle)
    BY <1>1, <1>2, <1>3, <1>4 DEF Quiet, BufferWrite, Beginning, Ending
  <2> QED BY <2>1, QuietKeeps
<1>5. CASE ~UNCHANGED active_txns
  <2>1. /\ active_txns[t].status = "active"
        /\ active_txns' = [active_txns EXCEPT ![t] = a]
    BY <1>5 DEF BufferWrite, w, a
  <2>2. active_txns[t] \in ActiveTxn /\ thread[th].n \in Nat
    BY <1>1, LocalUpdates DEF Typed, TypeOK, TxnTypeOK
  <2>4. /\ a.status = "active" /\ a.snapshot_ts = active_txns[t].snapshot_ts
        /\ a.write_set = Append(active_txns[t].write_set, w)
        /\ a.write_keys = active_txns[t].write_keys \cup {w.key}
        /\ active_txns[t].write_set \in Seq(TxnWrite)
    <3>1. /\ a.status = active_txns[t].status /\ a.snapshot_ts = active_txns[t].snapshot_ts
          /\ a.write_set = Append(active_txns[t].write_set, w)
          /\ a.write_keys = active_txns[t].write_keys \cup {w.key}
      BY <1>1, <2>2, BufferedType DEF a
    <3>2. active_txns[t].write_set \in Seq(TxnWrite)
      BY <2>2 DEF ActiveTxn
    <3> QED BY <2>1, <3>1, <3>2
  <2>5. Updates(th, t, a)
    BY <1>1, <1>2, <1>3, <2>1, <2>4 DEF Updates, Live, Beginning, Ending
  <2>6. active_txns'[t] = a /\ \A u \in TxnIds : u # t => active_txns'[u] = active_txns[u]
    BY <1>1, <2>1 DEF Typed, TypeOK, TxnTypeOK
  <2>7. KeysMatch'
    <3>1. active_txns[t].write_keys = {active_txns[t].write_set[i].key :
                                         i \in 1..Len(active_txns[t].write_set)}
      BY <1>1, <2>1 DEF TxnInv, SnapshotInv, KeysMatch
    <3>2. {a.write_set[i].key : i \in 1..Len(a.write_set)}
            = {active_txns[t].write_set[i].key : i \in 1..Len(active_txns[t].write_set)}
              \cup {w.key}
      <4> DEFINE s == active_txns[t].write_set
                 q == a.write_set
      <4>1. s \in Seq(TxnWrite) /\ w \in TxnWrite /\ q = Append(s, w)
        BY <1>1, <2>4
      <4> HIDE DEF s, q
      <4>2. {q[i].key : i \in 1..Len(q)} = {s[i].key : i \in 1..Len(s)} \cup {w.key}
        BY <4>1, AppendKeys
      <4> QED BY <4>2 DEF s, q
    <3>3. a.write_keys = {a.write_set[i].key : i \in 1..Len(a.write_set)}
      BY <2>4, <3>1, <3>2
    <3> QED BY <2>6, <3>3 DEF TxnInv, SnapshotInv, KeysMatch
  <2>8. IntentsExclusive'
    BY <1>3, <2>4, <2>6 DEF TxnInv, IntentsExclusive
  <2>9. NoOrphanIntent'
    <3>1. \A x \in Key : active_writes[x] # 0 => active_writes[x] \in TxnIds /\ active_writes[x] # t
      BY <2>1, ConstFacts DEF TxnInv, NoOrphanIntent, Typed, TypeOK, TxnTypeOK, TxnIds
    <3> QED BY <1>3, <2>6, <3>1 DEF TxnInv, NoOrphanIntent
  <2> QED BY <1>1, <2>5, <2>7, <2>8, <2>9, UpdatesKeeps DEF TxnInv, SnapshotInv
<1> QED BY <1>4, <1>5

LEMMA PrepareKeeps ==
  ASSUME Typed, TxnInv, NEW th \in Threads, NEW t \in TxnIds, Prepare(th, t)
  PROVE  TxnInv'
<1>1. /\ thread[th].pc = "idle" /\ active_txns[t].status = "active"
      /\ active_txns[t] \in ActiveTxn /\ UNCHANGED <<next_txn, snapVars>>
  BY DEF Prepare, At, Typed, TypeOK, TxnTypeOK
<1>2. CASE active_txns[t].write_set # <<>> /\ (Conflicts(t) \/ IntentTaken(t))
  <2> DEFINE l == [Idle EXCEPT !.pc = "release", !.txn = t]
  <2>1. AbortTxns({t}) /\ Goto(th, l)
    BY <1>2 DEF Prepare
  <2>2. l.pc = "release" /\ l.txn = t
    BY DEF Idle
  <2> HIDE DEF l
  <2>3. Ends(th, t, l)
    BY <1>1, <2>1, <2>2 DEF Ends, AbortTxns, Live, Beginning, Ending
  <2> QED BY <2>3, EndsKeeps
<1>3. CASE ~(active_txns[t].write_set # <<>> /\ (Conflicts(t) \/ IntentTaken(t)))
  <2> DEFINE a == [active_txns[t] EXCEPT !.status = "validating", !.write_set = <<>>]
             l == [Idle EXCEPT !.pc = "storage", !.txn = t, !.writes = active_txns[t].write_set]
  <2>1. /\ active_txns' = [active_txns EXCEPT ![t] = a]
        /\ active_writes' = [k \in Key |-> IF k \in active_txns[t].write_keys
                                           THEN t ELSE active_writes[k]]
        /\ Goto(th, l)
    BY <1>3 DEF Prepare
  <2>2. /\ a.status = "validating" /\ a.snapshot_ts = active_txns[t].snapshot_ts
        /\ a.write_keys = active_txns[t].write_keys
    BY <1>1 DEF ActiveTxn
  <2>3. l.pc = "storage"
    BY DEF Idle
  <2> HIDE DEF a, l
  <2>4. thread'[th] = l /\ \A u \in Threads : u # th => thread'[u] = thread[u]
    BY <2>1, GotoFacts
  <2>5. Updates(th, t, a)
    BY <1>1, <2>1, <2>2, <2>3, <2>4 DEF Updates, Live, Beginning, Ending
  <2>6. active_txns'[t] = a /\ \A u \in TxnIds : u # t => active_txns'[u] = active_txns[u]
    BY <2>1 DEF Typed, TypeOK, TxnTypeOK
  <2>7. KeysMatch'
    BY <2>2, <2>6 DEF TxnInv, SnapshotInv, KeysMatch
  <2>8. \A k \in active_txns[t].write_keys : active_writes[k] \in {0, t} /\ k \in Key
    <3>1. CASE active_txns[t].write_set = <<>>
      <4>1. active_txns[t].write_keys = {active_txns[t].write_set[i].key :
                                           i \in 1..Len(active_txns[t].write_set)}
        BY <1>1 DEF TxnInv, SnapshotInv, KeysMatch
      <4>2. Len(active_txns[t].write_set) = 0
        BY <3>1
      <4> QED BY <4>1, <4>2
    <3>2. CASE ~IntentTaken(t)
      BY <1>1, <3>2 DEF IntentTaken, ActiveTxn
    <3> QED BY <1>3, <3>1, <3>2
  <2>9. IntentsExclusive'
    <3> SUFFICES ASSUME NEW u \in TxnIds, active_txns'[u].status = "validating",
                        NEW k \in active_txns'[u].write_keys
                 PROVE  active_writes'[k] = u
      BY DEF IntentsExclusive
    <3>1. CASE u = t
      BY <2>1, <2>2, <2>6, <2>8, <3>1
    <3>2. CASE u # t
      <4>1. active_txns'[u] = active_txns[u]
        BY <2>6, <3>2
      <4>2. active_writes[k] = u /\ k \in Key /\ u # 0
        <5>1. active_txns[u] \in ActiveTxn
          BY DEF Typed, TypeOK, TxnTypeOK
        <5>2. k \in active_txns[u].write_keys /\ active_txns[u].status = "validating"
          BY <4>1
        <5>3. active_writes[k] = u
          BY <5>2 DEF TxnInv, IntentsExclusive
        <5> QED BY <5>1, <5>2, <5>3 DEF ActiveTxn, TxnIds
      <4>3. k \notin active_txns[t].write_keys
        BY <2>8, <3>2, <4>2
      <4> QED BY <2>1, <4>2, <4>3
    <3> QED BY <3>1, <3>2
  <2>10. NoOrphanIntent'
    <3> SUFFICES ASSUME NEW k \in Key, active_writes'[k] # 0
                 PROVE  /\ active_txns'[active_writes'[k]].status = "validating"
                        /\ k \in active_txns'[active_writes'[k]].write_keys
      BY DEF NoOrphanIntent
    <3>1. CASE k \in active_txns[t].write_keys
      BY <2>1, <2>2, <2>6, <3>1
    <3>2. CASE k \notin active_txns[t].write_keys
      <4>1. active_writes'[k] = active_writes[k]
        BY <2>1, <3>2
      <4>2. active_writes[k] \in TxnIds /\ active_writes[k] # t
        BY <1>1, <4>1, ConstFacts DEF TxnInv, NoOrphanIntent, Typed, TypeOK, TxnTypeOK, TxnIds
      <4> QED BY <2>6, <4>1, <4>2 DEF TxnInv, NoOrphanIntent
    <3> QED BY <3>1, <3>2
  <2> QED BY <2>5, <2>7, <2>9, <2>10, UpdatesKeeps DEF TxnInv, SnapshotInv
<1> QED BY <1>2, <1>3

\* Where the locals of a thread go in the steps that leave transactions alone.
LEMMA QuietStep ==
  ASSUME Typed, TxnInv, NEW th \in Threads, NEW pc,
         UNCHANGED <<next_txn, active_txns, snapVars, active_writes>>, Step(th, pc),
         thread[th].pc \notin Beginning, pc \notin Beginning,
         pc \in Ending => thread[th].pc \in Ending
  PROVE  TxnInv'
<1> DEFINE l == [thread[th] EXCEPT !.pc = pc]
<1>1. l.pc = pc /\ l.txn = thread[th].txn
  <2>1. thread[th] \in ThreadLocal
    BY ThreadType DEF Local
  <2> QED BY <2>1 DEF ThreadLocal
<1>2. Goto(th, l)
  BY DEF Step
<1> HIDE DEF l
<1>3. Quiet(th, l)
  BY <1>1, <1>2 DEF Quiet
<1> QED BY <1>3, QuietKeeps

\* A step that touches none of the state of the invariant keeps it.
LEMMA FrameKeeps ==
  ASSUME TxnInv, thread' = thread, next_txn' = next_txn, active_txns' = active_txns,
         snapshots' = snapshots, oldest_active_ts' = oldest_active_ts,
         active_writes' = active_writes
  PROVE  TxnInv'
<1>1. IdsFresh'
  BY DEF TxnInv, SnapshotInv, IdsFresh, Live
<1>2. KeysMatch'
  BY DEF TxnInv, SnapshotInv, KeysMatch
<1>3. Registered'
  BY DEF TxnInv, SnapshotInv, Registered, Live
<1>4. OldestBound'
  BY DEF TxnInv, SnapshotInv, OldestBound
<1>5. IntentsExclusive' /\ NoOrphanIntent'
  BY DEF TxnInv, IntentsExclusive, NoOrphanIntent
<1> QED BY <1>1, <1>2, <1>3, <1>4, <1>5 DEF TxnInv, SnapshotInv

LEMMA CallKeeps ==
  ASSUME Typed, TxnInv, NEW th \in Threads, Call(th)
  PROVE  TxnInv'
<1>1. CASE Begin(th) \/ BeginReadOnly(th)
  BY <1>1, BeginKeeps
<1>2. ASSUME NEW t \in TxnIds, Rollback(th, t) \/ ContextTimeout(th, t) PROVE TxnInv'
  <2> DEFINE l == [Idle EXCEPT !.pc = "release", !.txn = t]
  <2>1. /\ AbortTxns({t}) /\ Goto(th, l) /\ Live(t) /\ UNCHANGED <<next_txn, snapVars>>
        /\ thread[th].pc \in {"idle", "buffer", "overlay"}
    BY <1>2 DEF Rollback, ContextTimeout, Live, At
  <2>2. l.pc = "release" /\ l.txn = t
    BY DEF Idle
  <2> HIDE DEF l
  <2>3. Ends(th, t, l)
    BY <2>1, <2>2 DEF Ends, AbortTxns, Beginning, Ending
  <2> QED BY <2>3, EndsKeeps
<1>3. ASSUME NEW t \in TxnIds, Prepare(th, t) PROVE TxnInv'
  BY <1>3, PrepareKeeps
<1>4. ASSUME NEW t \in TxnIds, NEW k \in Key, RecordRead(th, t, k) PROVE TxnInv'
  BY <1>4, RecordReadKeeps
<1>5. ASSUME NEW t \in TxnIds, NEW k \in Key, SelectScan(th, t, k) PROVE TxnInv'
  <2> DEFINE l == [Idle EXCEPT !.pc = "overlay", !.txn = t, !.key = k, !.row = rows[k]]
  <2>1. l.pc = "overlay" /\ Goto(th, l) /\ thread[th].pc = "idle"
    BY <1>5 DEF SelectScan, At, Idle
  <2> HIDE DEF l
  <2>2. Quiet(th, l)
    BY <1>5, <2>1 DEF Quiet, SelectScan, logVars, Beginning, Ending
  <2> QED BY <2>2, QuietKeeps
<1>6. ASSUME NEW kind, NEW k, NEW cols, Autocommit(th, kind, k, cols) PROVE TxnInv'
  <2>1. /\ thread' = thread /\ next_txn' = next_txn /\ active_txns' = active_txns
        /\ snapshots' = snapshots /\ oldest_active_ts' = oldest_active_ts
        /\ active_writes' = active_writes
    BY <1>6 DEF Autocommit, snapVars, logVars
  <2> QED BY <2>1, FrameKeeps
<1>7. ASSUME NEW t \in TxnIds, NEW kind, NEW k, NEW cols, Lookup(th, t, kind, k, cols)
      PROVE TxnInv'
  <2> DEFINE w == [kind |-> kind, key |-> k, new |-> WriteData(t, kind, cols),
                   old |-> IF kind = "insert" THEN NoData ELSE rows[k]]
             l == [Idle EXCEPT !.pc = "buffer", !.txn = t, !.n = InsertBase(t, k[1]),
                               !.writes = <<w>>]
  <2>1. Goto(th, l) /\ thread[th].pc = "idle"
    BY <1>7 DEF Lookup, At
  <2> HIDE DEF w
  <2>2. l.pc = "buffer"
    BY DEF Idle
  <2> HIDE DEF l
  <2>3. Quiet(th, l)
    BY <1>7, <2>1, <2>2 DEF Quiet, Lookup, logVars, Beginning, Ending
  <2> QED BY <2>3, QuietKeeps
<1> QED BY <1>1, <1>2, <1>3, <1>4, <1>5, <1>6, <1>7 DEF Call

LEMMA StatementKeeps ==
  ASSUME Typed, TxnInv, NEW th \in Threads,
         SelectOverlay(th) \/ ApplyStorage(th) \/ StorageFails(th) \/ Finalize(th)
  PROVE  TxnInv'
<1> DEFINE t == thread[th].txn
<1>1. CASE SelectOverlay(th)
  <2>1. Quiet(th, Idle)
    BY <1>1 DEF Quiet, SelectOverlay, At, logVars, Beginning, Ending, Idle
  <2> QED BY <2>1, QuietKeeps
<1>2. CASE ApplyStorage(th)
  <2>1. /\ thread[th].pc = "storage" /\ UNCHANGED <<next_txn, active_txns, snapVars, active_writes>>
        /\ thread[th] \in ThreadLocal
    BY <1>2, ThreadType DEF ApplyStorage, At, logVars, Local
  <2>2. CASE Step(th, "finalize")
    BY <2>1, <2>2, QuietStep DEF Beginning, Ending
  <2>3. CASE Goto(th, [thread[th] EXCEPT !.n = thread[th].n + 1])
    <3> DEFINE l == [thread[th] EXCEPT !.n = thread[th].n + 1]
    <3>1. l.pc = "storage" /\ Goto(th, l)
      BY <2>1, <2>3 DEF ThreadLocal
    <3> HIDE DEF l
    <3>2. Quiet(th, l)
      BY <2>1, <3>1 DEF Quiet, Beginning, Ending
    <3> QED BY <3>2, QuietKeeps
  <2> QED BY <1>2, <2>2, <2>3 DEF ApplyStorage
<1>3. CASE StorageFails(th)
  <2>1. thread[th].pc = "storage" /\ t \in TxnIds /\ UNCHANGED <<next_txn, snapVars>>
    BY <1>3, LocalUpdates DEF StorageFails, At
  <2>2. CASE Live(t)
    <3> DEFINE l == [Idle EXCEPT !.pc = "release", !.txn = t]
    <3>1. AbortTxns({t}) /\ Goto(th, l)
      BY <1>3, <2>2 DEF StorageFails
    <3>2. l.pc = "release" /\ l.txn = t
      BY DEF Idle
    <3> HIDE DEF l
    <3>3. Ends(th, t, l)
      BY <2>1, <2>2, <3>1, <3>2 DEF Ends, AbortTxns, Beginning, Ending
    <3> QED BY <2>1, <3>3, EndsKeeps
  <2>3. CASE ~Live(t)
    <3>1. Quiet(th, Idle)
      BY <1>3, <2>1, <2>3 DEF StorageFails, Quiet, logVars, Beginning, Ending, Idle
    <3> QED BY <3>1, QuietKeeps
  <2> QED BY <2>2, <2>3
<1>4. CASE Finalize(th)
  <2>1. thread[th].pc = "finalize" /\ t \in TxnIds /\ UNCHANGED <<next_txn, snapVars>>
    BY <1>4, LocalUpdates DEF Finalize, At
  <2>2. CASE active_txns[t].status # "validating"
    <3>1. Quiet(th, Idle)
      BY <1>4, <2>1, <2>2 DEF Finalize, Quiet, logVars, Beginning, Ending, Idle
    <3> QED BY <3>1, QuietKeeps
  <2>3. CASE active_txns[t].status = "validating"
    <3> DEFINE l == [thread[th] EXCEPT !.pc = "publish", !.ts = global_ts]
    <3>1. ReleaseIntents({t}) /\ active_txns' = [active_txns EXCEPT ![t] = NoTxn] /\ Goto(th, l)
      BY <1>4, <2>3 DEF Finalize
    <3>2. l.pc = "publish" /\ l.txn = t
      <4>1. thread[th] \in ThreadLocal
        BY ThreadType DEF Local
      <4> QED BY <4>1 DEF ThreadLocal
    <3>3. active_txns' = [u \in TxnIds |-> IF u = t THEN NoTxn ELSE active_txns[u]]
      BY <2>1, <3>1 DEF Typed, TypeOK, TxnTypeOK
    <3> HIDE DEF l
    <3>4. Ends(th, t, l)
      BY <2>1, <2>3, <3>1, <3>2, <3>3 DEF Ends, Live, Beginning, Ending
    <3> QED BY <2>1, <3>4, EndsKeeps
  <2> QED BY <2>2, <2>3
<1> QED BY <1>1, <1>2, <1>3, <1>4

LEMMA PublishKeeps ==
  ASSUME Typed, TxnInv, NEW th \in Threads,
         PublishOpen(th) \/ PublishBase(th) \/ PublishOld(th) \/ PublishPush(th)
  PROVE  TxnInv'
<1>1. /\ thread[th].pc \in {"publish", "base", "insert_base", "push"}
      /\ UNCHANGED <<next_txn, active_txns, snapVars, active_writes>>
      /\ thread[th] \in ThreadLocal
  BY ThreadType DEF PublishOpen, PublishBase, PublishOld, PublishPush, At, logVars, Local
<1>2. CASE PublishBase(th) \/ PublishOld(th)
  <2>1. Step(th, "insert_base") \/ Step(th, "push")
    BY <1>2 DEF PublishBase, PublishOld
  <2> QED BY <1>1, <2>1, QuietStep DEF Beginning, Ending
<1>3. CASE PublishOpen(th)
  <2> DEFINE w == Head(thread[th].writes)
             pc == IF w.kind = "insert" THEN "push" ELSE "base"
             l == [thread[th] EXCEPT !.pc = pc, !.store = version_stores'[w.key[1]]]
  <2>1. Goto(th, l)
    BY <1>3 DEF PublishOpen
  <2>2. pc \in {"push", "base"}
    OBVIOUS
  <2> HIDE DEF pc, w
  <2>3. l.pc = pc /\ l.txn = thread[th].txn
    BY <1>1 DEF ThreadLocal
  <2> HIDE DEF l
  <2>4. Quiet(th, l)
    BY <1>1, <2>1, <2>2, <2>3 DEF Quiet, Beginning, Ending
  <2> QED BY <2>4, QuietKeeps
<1>4. CASE PublishPush(th)
  <2> DEFINE l == [thread[th] EXCEPT !.pc = "publish", !.store = 0,
                                     !.writes = Tail(thread[th].writes)]
  <2>1. Goto(th, l)
    BY <1>4 DEF PublishPush
  <2>2. l.pc = "publish" /\ l.txn = thread[th].txn
    BY <1>1 DEF ThreadLocal
  <2> HIDE DEF l
  <2>3. Quiet(th, l)
    BY <1>1, <2>1, <2>2 DEF Quiet, Beginning, Ending
  <2> QED BY <2>3, QuietKeeps
<1> QED BY <1>2, <1>3, <1>4

LEMMA FinishKeeps ==
  ASSUME Typed, TxnInv, NEW th \in Threads,
         \/ ReadOldest(th) \/ Trim(th) \/ Clear(th) \/ Collect(th) \/ GcRun(th) \/ Prune(th)
         \/ \E tb \in Tables : GcSkip(th, tb) \/ GcStart(th, tb)
  PROVE  TxnInv'
<1>1. /\ thread[th].pc \in {"watermark", "trim", "clear", "collect", "gc", "gc_run"}
      /\ UNCHANGED <<next_txn, active_txns, snapVars, active_writes>>
      /\ thread[th] \in ThreadLocal
  BY ThreadType DEF ReadOldest, Trim, Clear, Collect, GcRun, Prune, GcSkip, GcStart, At, logVars,
                    Local
<1>2. ASSUME NEW l, Goto(th, l), l.pc \in {"idle", "trim", "gc", "gc_run"} PROVE TxnInv'
  <2>1. Quiet(th, l)
    BY <1>1, <1>2 DEF Quiet, Beginning, Ending
  <2> QED BY <2>1, QuietKeeps
<1>3. CASE ReadOldest(th)
  <2> DEFINE l == [thread[th] EXCEPT !.pc = "trim", !.oldest = oldest_active_ts]
  <2>1. Goto(th, l) /\ l.pc = "trim"
    BY <1>1, <1>3 DEF ReadOldest, ThreadLocal
  <2> HIDE DEF l
  <2> QED BY <1>2, <2>1
<1>4. CASE Trim(th) \/ Clear(th)
  <2>1. Step(th, "clear") \/ Step(th, "collect")
    BY <1>4 DEF Trim, Clear
  <2> QED BY <1>1, <2>1, QuietStep DEF Beginning, Ending
<1>5. CASE Collect(th)
  <2> DEFINE l == [Idle EXCEPT !.pc = "gc", !.todo = {tb \in Tables : version_stores[tb] # 0}]
  <2>1. Goto(th, l) /\ l.pc = "gc"
    BY <1>5 DEF Collect, Idle
  <2> HIDE DEF l
  <2> QED BY <1>2, <2>1
<1>6. CASE GcRun(th)
  <2> DEFINE l == [thread[th] EXCEPT !.pc = "gc", !.store = 0, !.oldest = 0]
  <2>1. Goto(th, l) /\ l.pc = "gc"
    BY <1>1, <1>6 DEF GcRun, ThreadLocal
  <2> HIDE DEF l
  <2> QED BY <1>2, <2>1
<1>7. CASE Prune(th)
  BY <1>2, <1>7 DEF Prune, Idle
<1>8. ASSUME NEW tb \in Tables, GcSkip(th, tb) PROVE TxnInv'
  <2> DEFINE l == [thread[th] EXCEPT !.todo = thread[th].todo \ {tb}]
  <2>1. Goto(th, l) /\ l.pc = "gc"
    BY <1>1, <1>8 DEF GcSkip, ThreadLocal, At
  <2> HIDE DEF l
  <2> QED BY <1>2, <2>1
<1>9. ASSUME NEW tb \in Tables, GcStart(th, tb) PROVE TxnInv'
  <2> DEFINE l == [thread[th] EXCEPT !.pc = "gc_run", !.store = version_stores[tb],
                     !.oldest = oldest_active_ts, !.todo = thread[th].todo \ {tb}]
  <2>1. Goto(th, l) /\ l.pc = "gc_run"
    BY <1>1, <1>9 DEF GcStart, ThreadLocal
  <2> HIDE DEF l
  <2> QED BY <1>2, <2>1
<1> QED BY <1>3, <1>4, <1>5, <1>6, <1>7, <1>8, <1>9

LEMMA TxnInvInit == Init => TxnInv
<1> SUFFICES ASSUME Init PROVE TxnInv
  OBVIOUS
<1>1. /\ \A t \in TxnIds : active_txns[t] = NoTxn
      /\ \A th \in Threads : thread[th].pc = "idle"
      /\ snapshots = {} /\ \A k \in Key : active_writes[k] = 0
  BY DEF Init, Idle
<1>2. NoTxn.status = "none" /\ NoTxn.write_keys = {} /\ NoTxn.write_set = <<>> /\ Len(<<>>) = 0
  BY DEF NoTxn
<1>3. IdsFresh /\ KeysMatch /\ Registered /\ OldestBound
  BY <1>1, <1>2 DEF IdsFresh, KeysMatch, Registered, OldestBound, Live, Beginning, Ending
<1>4. IntentsExclusive /\ NoOrphanIntent
  BY <1>1, <1>2 DEF IntentsExclusive, NoOrphanIntent
<1> QED BY <1>3, <1>4 DEF TxnInv, SnapshotInv

LEMMA TxnInvNext == Typed /\ TxnInv /\ [Next]_vars => TxnInv'
<1> SUFFICES ASSUME Typed, TxnInv, [Next]_vars PROVE TxnInv'
  OBVIOUS
<1>1. CASE UNCHANGED vars
  BY <1>1, FrameKeeps DEF vars
<1>2. ASSUME NEW th \in Threads, Call(th) PROVE TxnInv'
  BY <1>2, CallKeeps
<1>3. ASSUME NEW th \in Threads, Continue(th) PROVE TxnInv'
  BY <1>3, RegisterKeeps, EnterKeeps, SweepKeeps, BufferKeeps, StatementKeeps, ReleaseKeeps,
     PublishKeeps, FinishKeeps DEF Continue
<1> QED BY <1>1, <1>2, <1>3 DEF Next

LEMMA TxnInvariant == Spec => [](Typed /\ TxnInv)
BY TypedInit, TypedNext, TxnInvInit, TxnInvNext, PTL DEF Spec

\* No two transactions between prepare_commit and finalize_commit share a row:
\* each owns the intents of all its write keys, whatever other threads abort,
\* time out or commit meanwhile, and for any number of them.
THEOREM IntentsAreExclusive == Spec => []IntentsExclusive
<1>1. Typed /\ TxnInv => IntentsExclusive
  BY DEF TxnInv
<1> QED BY <1>1, TxnInvariant, PTL

\* Every write intent belongs to a transaction in commit: none is left behind
\* that would make later commits on that row fail for the process lifetime.
THEOREM IntentsHaveOwners == Spec => []NoOrphanIntent
<1>1. Typed /\ TxnInv => NoOrphanIntent
  BY DEF TxnInv
<1> QED BY <1>1, TxnInvariant, PTL

LEMMA LowerBound ==
  ASSUME Typed, TxnInv
  PROVE  OldestBoundsSnapshots
<1> SUFFICES ASSUME NEW t \in TxnIds, Live(t)
             PROVE  oldest_active_ts <= active_txns[t].snapshot_ts
  BY DEF OldestBoundsSnapshots
<1> DEFINE s == [txn |-> t, ts |-> active_txns[t].snapshot_ts]
<1>1. s \in snapshots
  BY DEF TxnInv, SnapshotInv, Registered
<1>2. oldest_active_ts <= s.ts
      \/ \E th \in Threads : thread[th].pc = "fetch_min" /\ thread[th].txn = t
  BY <1>1 DEF TxnInv, SnapshotInv, OldestBound
<1>3. \A th \in Threads : thread[th].pc = "fetch_min" => thread[th].txn # t
  BY DEF TxnInv, SnapshotInv, IdsFresh, Beginning
<1> QED BY <1>2, <1>3

\* The minimum cached outside the lock is a lower bound of the snapshots of all
\* open transactions, for any interleaving of register, fetch_min and release.
THEOREM OldestIsALowerBound == Spec => []OldestBoundsSnapshots
<1>1. Typed /\ TxnInv => OldestBoundsSnapshots
  BY LowerBound
<1> QED BY <1>1, TxnInvariant, PTL

=============================================================================
