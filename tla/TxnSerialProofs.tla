-------------------------- MODULE TxnSerialProofs --------------------------
(***************************************************************************)
(* First committer wins, when API calls do not overlap.  The conflict log  *)
(* is trimmed by every commit, so the argument is that a record is dropped *)
(* only when no open transaction has a snapshot older than it.             *)
(***************************************************************************)
EXTENDS TxnSnapshotProofs

\* Calls do not overlap: there is one thread.
OneThread == \A th, u \in Threads : th = u

WriteKeys(th) == {thread[th].writes[i].key : i \in 1..Len(thread[th].writes)}

\* Commits lie in the past and their transactions are over.
HistoryPast ==
  /\ \A g \in history : g.commit < global_ts /\ g.txn < next_txn /\ ~Live(g.txn)
  /\ \A th \in Threads : thread[th].pc \in Beginning =>
       thread[th].ts <= MaxTs /\ \A g \in history : g.txn # thread[th].txn
  /\ \A t \in TxnIds : Live(t) => active_txns[t].snapshot_ts <= MaxTs

\* A commit is in the conflict log unless every open transaction, and the one
\* being begun, took its snapshot after it.
LogCovers ==
  \A g \in history : \A k \in g.keys :
    \/ [txn |-> g.txn, ts |-> g.commit, key |-> k] \in committed_writes
    \/ /\ \A t \in TxnIds : Live(t) => g.commit <= active_txns[t].snapshot_ts
       /\ \A th \in Threads : thread[th].pc \in Beginning => g.commit <= thread[th].ts

\* A prepared transaction conflicts with no commit.
Validated ==
  \A th \in Threads :
    thread[th].pc \in {"storage", "finalize"} /\ active_txns[thread[th].txn].status = "validating" =>
      \A g \in history : g.keys \cap WriteKeys(th) # {} =>
        g.commit <= active_txns[thread[th].txn].snapshot_ts

\* The minimum a commit trims the log with is still a lower bound.
TrimBound ==
  \A th \in Threads, t \in TxnIds : Live(t) =>
    /\ thread[th].pc = "trim" => thread[th].oldest <= active_txns[t].snapshot_ts
    /\ thread[th].pc # "clear"

SerialInv == HistoryPast /\ LogCovers /\ Validated /\ TrimBound /\ FirstCommitterWins

Busy == Beginning \cup {"storage", "finalize", "trim", "clear"}

\* A step that commits nothing, trims nothing and opens no transaction.
Calm(th) ==
  /\ UNCHANGED <<history, committed_writes, next_txn, global_ts>>
  /\ \A t \in TxnIds : active_txns'[t].status # "none" =>
       /\ active_txns[t].status # "none"
       /\ active_txns'[t].snapshot_ts = active_txns[t].snapshot_ts
  /\ thread'[th].pc \notin Busy

LEMMA CalmKeeps ==
  ASSUME Typed, OneThread, SerialInv, NEW th \in Threads, Calm(th)
  PROVE  SerialInv'
<1>1. /\ history' = history /\ committed_writes' = committed_writes
      /\ next_txn' = next_txn /\ global_ts' = global_ts
      /\ \A t \in TxnIds : active_txns'[t].status # "none" =>
           active_txns[t].status # "none"
           /\ active_txns'[t].snapshot_ts = active_txns[t].snapshot_ts
  BY DEF Calm
<1>2. \A u \in Threads : thread'[u].pc \notin Beginning
        /\ thread'[u].pc \notin {"storage", "finalize", "trim", "clear"}
  BY DEF Calm, OneThread, Busy
<1>3. \A g \in history : g.txn \in TxnIds
  BY DEF Typed, TypeOK, TxnTypeOK
<1>4. HistoryPast'
  BY <1>1, <1>2, <1>3 DEF SerialInv, HistoryPast, Live
<1>5. LogCovers'
  BY <1>1, <1>2 DEF SerialInv, LogCovers, Live
<1>6. Validated' /\ TrimBound'
  BY <1>2 DEF Validated, TrimBound
<1>7. FirstCommitterWins'
  BY <1>1 DEF SerialInv, FirstCommitterWins
<1> QED BY <1>4, <1>5, <1>6, <1>7 DEF SerialInv

LEMMA SerialBegin ==
  ASSUME Typed, OneThread, SerialInv, NEW th \in Threads, Begin(th) \/ BeginReadOnly(th)
  PROVE  SerialInv'
<1>1. /\ thread'[th].pc = "register" /\ thread'[th].txn = next_txn /\ thread'[th].ts = global_ts
  <2>1. CASE Begin(th)
    <3>1. thread'[th] = [Idle EXCEPT !.pc = "register", !.txn = next_txn, !.ts = global_ts]
      BY <2>1, GotoFacts DEF Begin
    <3> QED BY <3>1 DEF Idle
  <2>2. CASE BeginReadOnly(th)
    <3>1. thread'[th] = [Idle EXCEPT !.pc = "register", !.txn = next_txn, !.ts = global_ts,
                                     !.read_only = TRUE]
      BY <2>2, GotoFacts DEF BeginReadOnly
    <3> QED BY <3>1 DEF Idle
  <2> QED BY <2>1, <2>2
<1>2. /\ next_txn' = next_txn + 1 /\ global_ts' \in {global_ts, global_ts + 1}
      /\ global_ts \in Nat /\ next_txn \in Nat /\ global_ts <= MaxTs
      /\ active_txns' = active_txns /\ history' = history /\ committed_writes' = committed_writes
  BY DEF Begin, BeginReadOnly, auxVars, logVars, Typed, TypeOK, TxnTypeOK
<1>3. \A u \in Threads : u = th
  BY DEF OneThread
<1>4. \A g \in history : /\ g.txn \in Nat /\ g.commit \in Nat
                         /\ g.txn < next_txn /\ g.commit < global_ts /\ ~Live(g.txn)
  BY TsFacts DEF Typed, TypeOK, TxnTypeOK, TxnIds, SerialInv, HistoryPast
<1>5. HistoryPast'
  <2>1. \A g \in history' : /\ g.commit < global_ts' /\ g.txn < next_txn'
                            /\ active_txns'[g.txn].status = "none"
    BY <1>2, <1>4 DEF Live
  <2>2. \A u \in Threads : thread'[u].ts <= MaxTs /\ \A g \in history' : g.txn # thread'[u].txn
    BY <1>1, <1>2, <1>3, <1>4
  <2>3. \A t \in TxnIds : active_txns'[t].status # "none" => active_txns'[t].snapshot_ts <= MaxTs
    BY <1>2 DEF SerialInv, HistoryPast, Live
  <2> QED BY <2>1, <2>2, <2>3 DEF HistoryPast, Live
<1>6. LogCovers'
  <2>1. \A u \in Threads : \A g \in history : g.commit <= thread'[u].ts
    BY <1>1, <1>2, <1>3, <1>4
  <2> QED BY <1>2, <2>1 DEF SerialInv, LogCovers, Live
<1>7. Validated' /\ TrimBound'
  BY <1>1, <1>3 DEF Validated, TrimBound
<1>8. FirstCommitterWins'
  BY <1>2 DEF SerialInv, FirstCommitterWins
<1> QED BY <1>5, <1>6, <1>7, <1>8 DEF SerialInv

LEMMA SerialRegister ==
  ASSUME Typed, OneThread, SerialInv, NEW th \in Threads, Register(th) \/ FetchMin(th)
  PROVE  SerialInv'
<1>1. /\ thread'[th].pc \in Beginning /\ thread[th].pc \in Beginning
      /\ thread'[th].txn = thread[th].txn /\ thread'[th].ts = thread[th].ts
  <2>1. thread[th] \in ThreadLocal
    BY ThreadType DEF Local
  <2>2. PICK pc \in {"fetch_min", "enter"} : Goto(th, [thread[th] EXCEPT !.pc = pc])
    BY DEF Register, FetchMin, Step
  <2>3. thread'[th] = [thread[th] EXCEPT !.pc = pc]
    BY <2>2, GotoFacts
  <2>4. thread'[th].pc = pc /\ thread'[th].txn = thread[th].txn /\ thread'[th].ts = thread[th].ts
    BY <2>1, <2>3 DEF ThreadLocal
  <2>5. thread[th].pc \in {"register", "fetch_min"}
    BY DEF Register, FetchMin, At
  <2> QED BY <2>2, <2>4, <2>5 DEF Beginning
<1>2. /\ next_txn' = next_txn /\ active_txns' = active_txns /\ global_ts' = global_ts
      /\ history' = history /\ committed_writes' = committed_writes
  BY DEF Register, FetchMin, logVars, auxVars
<1>3. \A u \in Threads : u = th
  BY DEF OneThread
<1>4. HistoryPast' /\ LogCovers'
  BY <1>1, <1>2, <1>3 DEF SerialInv, HistoryPast, LogCovers, Live
<1>5. Validated' /\ TrimBound'
  BY <1>1, <1>3 DEF Validated, TrimBound, Beginning
<1>6. FirstCommitterWins'
  BY <1>2 DEF SerialInv, FirstCommitterWins
<1> QED BY <1>4, <1>5, <1>6 DEF SerialInv

LEMMA SerialEnter ==
  ASSUME Typed, OneThread, SerialInv, NEW th \in Threads, Enter(th)
  PROVE  SerialInv'
<1> DEFINE t == thread[th].txn
           a == [NoTxn EXCEPT !.status = "active", !.snapshot_ts = thread[th].ts,
                              !.read_only = thread[th].read_only]
<1>1. thread[th].pc = "enter" /\ t \in TxnIds /\ thread[th] \in ThreadLocal
  BY ThreadType, LocalUpdates DEF Enter, At, Local
<1>2. \A u \in Threads : thread'[u].pc \in {"idle", "sweep"}
  <2>1. CASE Goto(th, Idle)
    BY <2>1, GotoFacts DEF Idle, OneThread
  <2>2. CASE Goto(th, [thread[th] EXCEPT !.pc = "sweep"])
    <3> DEFINE l == [thread[th] EXCEPT !.pc = "sweep"]
    <3>1. l.pc = "sweep" /\ Goto(th, l)
      BY <1>1, <2>2 DEF ThreadLocal
    <3> HIDE DEF l
    <3> QED BY <3>1, GotoFacts DEF OneThread
  <2> QED BY <2>1, <2>2 DEF Enter, Step
<1>3. /\ next_txn' = next_txn /\ global_ts' = global_ts /\ history' = history
      /\ committed_writes' = committed_writes /\ active_txns' = [active_txns EXCEPT ![t] = a]
  BY DEF Enter, auxVars, logVars
<1>4. a.status = "active" /\ a.snapshot_ts = thread[th].ts
  BY DEF NoTxn
<1> HIDE DEF a
<1>5. active_txns'[t] = a /\ \A u \in TxnIds : u # t => active_txns'[u] = active_txns[u]
  BY <1>1, <1>3 DEF Typed, TypeOK, TxnTypeOK
<1>6. thread[th].ts <= MaxTs /\ \A g \in history : g.txn # t /\ g.txn \in TxnIds
  BY <1>1 DEF SerialInv, HistoryPast, Beginning, Typed, TypeOK, TxnTypeOK
<1>7. HistoryPast'
  BY <1>2, <1>3, <1>4, <1>5, <1>6 DEF SerialInv, HistoryPast, Live, Beginning
<1>8. LogCovers'
  <2> SUFFICES ASSUME NEW g \in history, NEW k \in g.keys,
                      [txn |-> g.txn, ts |-> g.commit, key |-> k] \notin committed_writes
               PROVE  \A u \in TxnIds : active_txns'[u].status # "none" =>
                        g.commit <= active_txns'[u].snapshot_ts
    BY <1>2, <1>3 DEF LogCovers, Live, Beginning
  <2>1. g.commit <= thread[th].ts
    BY <1>1 DEF SerialInv, LogCovers, Beginning
  <2> QED BY <1>4, <1>5, <2>1 DEF SerialInv, LogCovers, Live
<1>9. Validated' /\ TrimBound'
  BY <1>2 DEF Validated, TrimBound
<1>10. FirstCommitterWins'
  BY <1>3 DEF SerialInv, FirstCommitterWins
<1> QED BY <1>7, <1>8, <1>9, <1>10 DEF SerialInv

\* Aborting transactions opens none and moves no snapshot.
LEMMA AbortIsCalm ==
  ASSUME NEW T, AbortTxns(T)
  PROVE  /\ committed_writes' = committed_writes
         /\ \A t \in TxnIds : active_txns'[t].status # "none" =>
              active_txns[t].status # "none"
              /\ active_txns'[t].snapshot_ts = active_txns[t].snapshot_ts
<1>1. \A t \in TxnIds : active_txns'[t] = IF t \in T THEN NoTxn ELSE active_txns[t]
  BY DEF AbortTxns
<1>2. NoTxn.status = "none"
  BY DEF NoTxn
<1> QED BY <1>1, <1>2 DEF AbortTxns

LEMMA SerialPrepare ==
  ASSUME Typed, TxnInv, OneThread, SerialInv, NEW th \in Threads, NEW t \in TxnIds, Prepare(th, t)
  PROVE  SerialInv'
<1>1. /\ active_txns[t].status = "active" /\ active_txns[t] \in ActiveTxn
      /\ next_txn' = next_txn /\ global_ts' = global_ts /\ history' = history
      /\ committed_writes' = committed_writes
  BY DEF Prepare, AbortTxns, auxVars, Typed, TypeOK, TxnTypeOK
<1>2. CASE active_txns[t].write_set # <<>> /\ (Conflicts(t) \/ IntentTaken(t))
  <2> DEFINE l == [Idle EXCEPT !.pc = "release", !.txn = t]
  <2>1. AbortTxns({t}) /\ Goto(th, l) /\ l.pc = "release"
    BY <1>2 DEF Prepare, Idle
  <2> HIDE DEF l
  <2>2. thread'[th].pc = "release"
    BY <2>1, GotoFacts
  <2>3. Calm(th)
    BY <1>1, <2>1, <2>2, AbortIsCalm DEF Calm, Busy, Beginning
  <2> QED BY <2>3, CalmKeeps
<1>3. CASE ~(active_txns[t].write_set # <<>> /\ (Conflicts(t) \/ IntentTaken(t)))
  <2> DEFINE a == [active_txns[t] EXCEPT !.status = "validating", !.write_set = <<>>]
             l == [Idle EXCEPT !.pc = "storage", !.txn = t, !.writes = active_txns[t].write_set]
             s == active_txns[t].write_set
  <2>1. active_txns' = [active_txns EXCEPT ![t] = a] /\ Goto(th, l)
    BY <1>3 DEF Prepare
  <2>2. a.status = "validating" /\ a.snapshot_ts = active_txns[t].snapshot_ts
    BY <1>1 DEF ActiveTxn
  <2>3. l.pc = "storage" /\ l.txn = t /\ l.writes = s
    BY DEF Idle
  <2> HIDE DEF a, l
  <2>4. \A u \in Threads : u = th /\ thread'[u] = l
    BY <2>1, GotoFacts DEF OneThread
  <2>5. active_txns'[t] = a /\ \A u \in TxnIds : u # t => active_txns'[u] = active_txns[u]
    BY <2>1 DEF Typed, TypeOK, TxnTypeOK
  <2>6. HistoryPast'
    <3>1. \A g \in history : g.txn \in TxnIds /\ g.txn # t
      BY <1>1 DEF SerialInv, HistoryPast, Live, Typed, TypeOK, TxnTypeOK
    <3> QED BY <1>1, <2>2, <2>3, <2>4, <2>5, <3>1 DEF SerialInv, HistoryPast, Live, Beginning
  <2>7. LogCovers'
    BY <1>1, <2>2, <2>3, <2>4, <2>5 DEF SerialInv, LogCovers, Live, Beginning
  <2>8. active_txns[t].write_keys = {s[i].key : i \in 1..Len(s)}
    BY <1>1 DEF TxnInv, SnapshotInv, KeysMatch
  <2>9. \A g \in history : g.keys \cap {s[i].key : i \in 1..Len(s)} # {} =>
          g.commit <= active_txns[t].snapshot_ts
    <3> SUFFICES ASSUME NEW g \in history, NEW k \in g.keys, k \in active_txns[t].write_keys,
                        ~(g.commit <= active_txns[t].snapshot_ts)
                 PROVE  FALSE
      BY <2>8
    <3>1. [txn |-> g.txn, ts |-> g.commit, key |-> k] \in committed_writes
      BY <1>1 DEF SerialInv, LogCovers, Live
    <3>2. g.txn # t
      BY <1>1 DEF SerialInv, HistoryPast, Live
    <3>3. g.commit > active_txns[t].snapshot_ts
      <4>1. g.commit \in Nat /\ active_txns[t].snapshot_ts \in Nat
        BY <1>1, TsFacts DEF ActiveTxn, Typed, TypeOK, TxnTypeOK
      <4> QED BY <4>1
    <3>4. Conflicts(t)
      BY <3>1, <3>2, <3>3 DEF Conflicts
    <3>5. s # <<>>
      <4>1. PICK i \in 1..Len(s) : TRUE
        BY <2>8
      <4> QED BY <4>1
    <3> QED BY <1>3, <3>4, <3>5
  <2>10. Validated'
    <3> HIDE DEF s
    <3> QED BY <1>1, <2>2, <2>3, <2>4, <2>5, <2>9 DEF Validated, WriteKeys
  <2>11. TrimBound'
    BY <2>3, <2>4 DEF TrimBound
  <2>12. FirstCommitterWins'
    BY <1>1 DEF SerialInv, FirstCommitterWins
  <2> QED BY <2>6, <2>7, <2>10, <2>11, <2>12 DEF SerialInv
<1> QED BY <1>2, <1>3

LEMMA SerialApply ==
  ASSUME Typed, OneThread, SerialInv, NEW th \in Threads, ApplyStorage(th)
  PROVE  SerialInv'
<1>1. /\ thread[th].pc = "storage" /\ thread[th] \in ThreadLocal
      /\ next_txn' = next_txn /\ global_ts' = global_ts /\ history' = history
      /\ committed_writes' = committed_writes /\ active_txns' = active_txns
  BY ThreadType DEF ApplyStorage, At, Local, auxVars, logVars
<1>2. /\ thread'[th].pc \in {"storage", "finalize"} /\ thread'[th].txn = thread[th].txn
      /\ thread'[th].writes = thread[th].writes
  <2>1. CASE Goto(th, [thread[th] EXCEPT !.pc = "finalize"])
    <3>1. thread'[th] = [thread[th] EXCEPT !.pc = "finalize"]
      BY <2>1, GotoFacts
    <3> QED BY <1>1, <3>1 DEF ThreadLocal
  <2>2. CASE Goto(th, [thread[th] EXCEPT !.n = thread[th].n + 1])
    <3>1. thread'[th] = [thread[th] EXCEPT !.n = thread[th].n + 1]
      BY <2>2, GotoFacts
    <3> QED BY <1>1, <3>1 DEF ThreadLocal
  <2> QED BY <2>1, <2>2 DEF ApplyStorage, Step
<1>3. \A u \in Threads : u = th
  BY DEF OneThread
<1>4. HistoryPast' /\ LogCovers'
  BY <1>1, <1>2, <1>3 DEF SerialInv, HistoryPast, LogCovers, Live, Beginning
<1>5. Validated'
  BY <1>1, <1>2, <1>3 DEF SerialInv, Validated, WriteKeys
<1>6. TrimBound'
  BY <1>2, <1>3 DEF TrimBound
<1>7. FirstCommitterWins'
  BY <1>1 DEF SerialInv, FirstCommitterWins
<1> QED BY <1>4, <1>5, <1>6, <1>7 DEF SerialInv

LEMMA SerialFinalize ==
  ASSUME Typed, TxnInv, OneThread, SerialInv, NEW th \in Threads, Finalize(th)
  PROVE  SerialInv'
<1> DEFINE t == thread[th].txn
           keys == WriteKeys(th)
           h == [txn |-> t, snapshot |-> active_txns[t].snapshot_ts, commit |-> global_ts,
                 keys |-> keys]
<1>1. thread[th].pc = "finalize" /\ t \in TxnIds /\ thread[th] \in ThreadLocal
  BY ThreadType, LocalUpdates DEF Finalize, At, Local
<1>2. CASE active_txns[t].status # "validating"
  <2>1. thread'[th].pc = "idle"
    BY <1>2, GotoFacts DEF Finalize, Idle
  <2>2. Calm(th)
    BY <1>2, <2>1 DEF Finalize, Calm, logVars, Busy, Beginning
  <2> QED BY <2>2, CalmKeeps
<1>3. CASE active_txns[t].status = "validating"
  <2>1. /\ global_ts' = global_ts + 1 /\ history' = history \cup {h}
        /\ committed_writes' = committed_writes \cup
             {[txn |-> t, ts |-> global_ts, key |-> k] : k \in keys}
        /\ active_txns' = [active_txns EXCEPT ![t] = NoTxn] /\ next_txn' = next_txn
    BY <1>3 DEF Finalize, WriteKeys
  <2>2. \A u \in Threads : u = th /\ thread'[u].pc = "publish"
    <3> DEFINE l == [thread[th] EXCEPT !.pc = "publish", !.ts = global_ts]
    <3>1. Goto(th, l)
      BY <1>3 DEF Finalize
    <3>2. l.pc = "publish"
      BY <1>1 DEF ThreadLocal
    <3> HIDE DEF l
    <3> QED BY <3>1, <3>2, GotoFacts DEF OneThread
  <2>3. /\ active_txns'[t].status = "none"
        /\ \A u \in TxnIds : u # t => active_txns'[u] = active_txns[u]
    BY <1>1, <2>1 DEF Typed, TypeOK, TxnTypeOK, NoTxn
  <2>4. \A u \in TxnIds : active_txns'[u].status # "none" =>
          active_txns'[u] = active_txns[u] /\ Live(u)
    BY <2>3 DEF Live
  <2>5. /\ global_ts \in Nat /\ t < next_txn
        /\ \A g \in history : g.commit \in Nat /\ g.txn \in TxnIds /\ g.commit < global_ts
    <3>1. t < next_txn
      BY <1>1, <1>3 DEF TxnInv, SnapshotInv, IdsFresh, Live
    <3> QED BY <3>1, TsFacts DEF Typed, TypeOK, TxnTypeOK, SerialInv, HistoryPast
  <2> HIDE DEF keys
  <2>6. h.txn = t /\ h.commit = global_ts /\ h.keys = keys
        /\ h.snapshot = active_txns[t].snapshot_ts
    OBVIOUS
  <2> HIDE DEF h
  <2>7. HistoryPast'
    <3>1. \A g \in history' : /\ g.commit < global_ts' /\ g.txn < next_txn'
                              /\ active_txns'[g.txn].status = "none"
      BY <2>1, <2>3, <2>4, <2>5, <2>6 DEF SerialInv, HistoryPast, Live
    <3> QED BY <2>2, <2>4, <3>1 DEF SerialInv, HistoryPast, Live, Beginning
  <2>8. LogCovers'
    <3> SUFFICES ASSUME NEW g \in history', NEW k \in g.keys
                 PROVE  \/ [txn |-> g.txn, ts |-> g.commit, key |-> k] \in committed_writes'
                        \/ \A u \in TxnIds : active_txns'[u].status # "none" =>
                             g.commit <= active_txns'[u].snapshot_ts
      BY <2>2 DEF LogCovers, Live, Beginning
    <3>1. CASE g = h
      BY <2>1, <2>6, <3>1
    <3>2. CASE g \in history
      BY <2>1, <2>4, <3>2 DEF SerialInv, LogCovers
    <3> QED BY <2>1, <3>1, <3>2
  <2>9. Validated' /\ TrimBound'
    BY <2>2 DEF Validated, TrimBound
  <2>10. FirstCommitterWins'
    <3>1. \A g \in history : g.keys \cap h.keys # {} => g.commit <= h.snapshot
      BY <1>1, <1>3, <2>6 DEF SerialInv, Validated, keys
    <3> QED BY <2>1, <3>1 DEF SerialInv, FirstCommitterWins
  <2> QED BY <2>7, <2>8, <2>9, <2>10 DEF SerialInv
<1> QED BY <1>2, <1>3

LEMMA SerialTrim ==
  ASSUME Typed, TxnInv, OneThread, SerialInv, NEW th \in Threads,
         ReadOldest(th) \/ Trim(th) \/ Clear(th)
  PROVE  SerialInv'
<1>1. /\ next_txn' = next_txn /\ global_ts' = global_ts /\ history' = history
      /\ active_txns' = active_txns /\ thread[th] \in ThreadLocal
      /\ thread[th].pc \in {"watermark", "trim", "clear"}
  BY ThreadType DEF ReadOldest, Trim, Clear, auxVars, At, Local
<1>2. \A u \in Threads : u = th
  BY DEF OneThread
<1>3. \A t \in TxnIds : Live(t) => oldest_active_ts <= active_txns[t].snapshot_ts
  BY LowerBound DEF OldestBoundsSnapshots
<1>4. \A t \in TxnIds : Live(t) => active_txns[t].snapshot_ts \in Nat
                                   /\ active_txns[t].snapshot_ts <= MaxTs
  BY TsFacts DEF SerialInv, HistoryPast, Typed, TypeOK, TxnTypeOK, ActiveTxn
<1>5. FirstCommitterWins'
  BY <1>1 DEF SerialInv, FirstCommitterWins
<1>6. CASE ReadOldest(th)
  <2> DEFINE l == [thread[th] EXCEPT !.pc = "trim", !.oldest = oldest_active_ts]
  <2>1. Goto(th, l) /\ committed_writes' = committed_writes
    BY <1>6 DEF ReadOldest, logVars
  <2>2. l.pc = "trim" /\ l.oldest = oldest_active_ts
    BY <1>1 DEF ThreadLocal
  <2> HIDE DEF l
  <2>3. thread'[th] = l
    BY <2>1, GotoFacts
  <2>4. HistoryPast' /\ LogCovers'
    BY <1>1, <1>2, <2>1, <2>2, <2>3 DEF SerialInv, HistoryPast, LogCovers, Live, Beginning
  <2>5. Validated'
    BY <1>2, <2>2, <2>3 DEF Validated
  <2>6. TrimBound'
    BY <1>1, <1>2, <1>3, <2>2, <2>3 DEF TrimBound, Live
  <2> QED BY <1>5, <2>4, <2>5, <2>6 DEF SerialInv
<1>7. CASE Trim(th)
  <2> DEFINE pc == IF thread[th].oldest = TS_MAX THEN "clear" ELSE "collect"
             l == [thread[th] EXCEPT !.pc = pc]
  <2>1. /\ Goto(th, l) /\ thread[th].pc = "trim"
        /\ committed_writes' = {cw \in committed_writes : cw.ts >= thread[th].oldest}
    BY <1>7 DEF Trim, Step, At
  <2>2. pc \in {"clear", "collect"} /\ (pc = "clear" => thread[th].oldest = TS_MAX)
    OBVIOUS
  <2> HIDE DEF pc
  <2>3. l.pc = pc
    BY <1>1 DEF ThreadLocal
  <2> HIDE DEF l
  <2>4. thread'[th] = l
    BY <2>1, GotoFacts
  <2>5. HistoryPast'
    BY <1>1, <1>2, <2>2, <2>3, <2>4 DEF SerialInv, HistoryPast, Live, Beginning
  <2>6. \A t \in TxnIds : Live(t) => thread[th].oldest <= active_txns[t].snapshot_ts
    BY <2>1 DEF SerialInv, TrimBound
  <2>7. LogCovers'
    <3> SUFFICES ASSUME NEW g \in history, NEW k \in g.keys, NEW t \in TxnIds, Live(t),
                        ~(g.commit <= active_txns[t].snapshot_ts)
                 PROVE  [txn |-> g.txn, ts |-> g.commit, key |-> k] \in committed_writes'
      BY <1>1, <1>2, <2>2, <2>3, <2>4 DEF LogCovers, Live, Beginning
    <3>1. [txn |-> g.txn, ts |-> g.commit, key |-> k] \in committed_writes
      BY DEF SerialInv, LogCovers
    <3>2. g.commit \in Nat /\ thread[th].oldest \in Nat
      BY LocalUpdates, TsFacts DEF Typed, TypeOK, TxnTypeOK
    <3>3. g.commit >= thread[th].oldest
      BY <1>4, <2>6, <3>2
    <3> QED BY <2>1, <3>1, <3>3
  <2>8. Validated'
    BY <1>2, <2>2, <2>3, <2>4 DEF Validated
  <2>9. TrimBound'
    <3>1. pc = "clear" => \A t \in TxnIds : ~Live(t)
      BY <1>4, <2>2, <2>6, ConstFacts DEF TS_MAX
    <3> QED BY <1>1, <1>2, <2>2, <2>3, <2>4, <3>1 DEF TrimBound, Live
  <2> QED BY <1>5, <2>5, <2>7, <2>8, <2>9 DEF SerialInv
<1>8. CASE Clear(th)
  <2> DEFINE l == [thread[th] EXCEPT !.pc = "collect"]
  <2>1. Goto(th, l) /\ thread[th].pc = "clear"
    BY <1>8 DEF Clear, Step, At
  <2>2. l.pc = "collect"
    BY <1>1 DEF ThreadLocal
  <2> HIDE DEF l
  <2>3. thread'[th] = l
    BY <2>1, GotoFacts
  <2>4. \A t \in TxnIds : ~Live(t)
    BY <2>1 DEF SerialInv, TrimBound
  <2>5. HistoryPast' /\ LogCovers'
    BY <1>1, <1>2, <2>2, <2>3, <2>4 DEF SerialInv, HistoryPast, LogCovers, Live, Beginning
  <2>6. Validated' /\ TrimBound'
    BY <1>2, <2>2, <2>3 DEF Validated, TrimBound, Live
  <2> QED BY <1>5, <2>5, <2>6 DEF SerialInv
<1> QED BY <1>6, <1>7, <1>8

Frozen == UNCHANGED <<history, committed_writes, next_txn, global_ts, active_txns>>

LEMMA FrozenKeeps ==
  ASSUME Typed, OneThread, SerialInv, NEW th \in Threads, Frozen,
         NEW l, Goto(th, l), l.pc \notin Busy
  PROVE  SerialInv'
<1>1. thread'[th] = l
  BY GotoFacts
<1>2. Calm(th)
  BY <1>1 DEF Calm, Frozen
<1> QED BY <1>2, CalmKeeps

LEMMA FrozenStep ==
  ASSUME Typed, OneThread, SerialInv, NEW th \in Threads, Frozen,
         NEW pc, Step(th, pc), pc \notin Busy
  PROVE  SerialInv'
<1> DEFINE l == [thread[th] EXCEPT !.pc = pc]
<1>1. l.pc = pc
  <2>1. thread[th] \in ThreadLocal
    BY ThreadType DEF Local
  <2> QED BY <2>1 DEF ThreadLocal
<1>2. Goto(th, l)
  BY DEF Step
<1> HIDE DEF l
<1> QED BY <1>1, <1>2, FrozenKeeps

LEMMA AbortKeeps ==
  ASSUME Typed, OneThread, SerialInv, NEW th \in Threads, NEW T, AbortTxns(T),
         UNCHANGED <<history, next_txn, global_ts>>,
         NEW l, Goto(th, l), l.pc \notin Busy
  PROVE  SerialInv'
<1>1. thread'[th] = l
  BY GotoFacts
<1>2. Calm(th)
  BY <1>1, AbortIsCalm DEF Calm
<1> QED BY <1>2, CalmKeeps

\* A transaction's record changes, not its snapshot.
LEMMA RecordKeeps ==
  ASSUME Typed, OneThread, SerialInv, NEW th \in Threads, NEW t \in TxnIds, NEW a,
         active_txns' = [active_txns EXCEPT ![t] = a],
         active_txns[t].status # "none", a.snapshot_ts = active_txns[t].snapshot_ts,
         UNCHANGED <<history, committed_writes, next_txn, global_ts>>,
         thread'[th].pc \notin Busy
  PROVE  SerialInv'
<1>1. Calm(th)
  BY DEF Calm, Typed, TypeOK, TxnTypeOK
<1> QED BY <1>1, CalmKeeps

LEMMA SerialCall ==
  ASSUME Typed, TxnInv, OneThread, SerialInv, NEW th \in Threads, Call(th)
  PROVE  SerialInv'
<1>1. CASE Begin(th) \/ BeginReadOnly(th)
  BY <1>1, SerialBegin
<1>2. ASSUME NEW t \in TxnIds, Rollback(th, t) \/ ContextTimeout(th, t) PROVE SerialInv'
  <2> DEFINE l == [Idle EXCEPT !.pc = "release", !.txn = t]
  <2>1. AbortTxns({t}) /\ Goto(th, l) /\ UNCHANGED <<history, next_txn, global_ts>>
    BY <1>2 DEF Rollback, ContextTimeout, auxVars
  <2>2. l.pc \notin Busy
    BY DEF Idle, Busy, Beginning
  <2> HIDE DEF l
  <2> QED BY <2>1, <2>2, AbortKeeps
<1>3. ASSUME NEW t \in TxnIds, Prepare(th, t) PROVE SerialInv'
  BY <1>3, SerialPrepare
<1>4. ASSUME NEW t \in TxnIds, NEW k \in Key, RecordRead(th, t, k) PROVE SerialInv'
  <2> DEFINE a == [active_txns[t] EXCEPT !.read_set = @ \cup {k}]
  <2>1. active_txns' = [active_txns EXCEPT ![t] = a]
    BY <1>4 DEF RecordRead
  <2>2. a.snapshot_ts = active_txns[t].snapshot_ts
    <3>1. active_txns[t] \in ActiveTxn
      BY DEF Typed, TypeOK, TxnTypeOK
    <3> QED BY <3>1 DEF ActiveTxn
  <2> HIDE DEF a
  <2>3. /\ active_txns[t].status # "none" /\ thread'[th].pc \notin Busy
        /\ UNCHANGED <<history, committed_writes, next_txn, global_ts>>
    BY <1>4 DEF RecordRead, At, Busy, Beginning, auxVars, logVars
  <2> QED BY <2>1, <2>2, <2>3, RecordKeeps
<1>5. ASSUME NEW t \in TxnIds, NEW k \in Key, SelectScan(th, t, k) PROVE SerialInv'
  <2> DEFINE l == [Idle EXCEPT !.pc = "overlay", !.txn = t, !.key = k, !.row = rows[k]]
  <2>1. Goto(th, l) /\ Frozen
    BY <1>5 DEF SelectScan, Frozen, auxVars, logVars
  <2>2. l.pc \notin Busy
    BY DEF Idle, Busy, Beginning
  <2> HIDE DEF l
  <2> QED BY <2>1, <2>2, FrozenKeeps
<1>6. ASSUME NEW kind, NEW k, NEW cols, Autocommit(th, kind, k, cols) PROVE SerialInv'
  <2>1. Calm(th)
    BY <1>6 DEF Autocommit, Calm, At, Busy, Beginning, auxVars, logVars
  <2> QED BY <2>1, CalmKeeps
<1>7. ASSUME NEW t \in TxnIds, NEW kind, NEW k, NEW cols, Lookup(th, t, kind, k, cols)
      PROVE SerialInv'
  <2> DEFINE w == [kind |-> kind, key |-> k, new |-> WriteData(t, kind, cols),
                   old |-> IF kind = "insert" THEN NoData ELSE rows[k]]
             l == [Idle EXCEPT !.pc = "buffer", !.txn = t, !.n = InsertBase(t, k[1]),
                               !.writes = <<w>>]
  <2>1. Goto(th, l) /\ Frozen
    BY <1>7 DEF Lookup, Frozen, auxVars, logVars
  <2> HIDE DEF w
  <2>2. l.pc \notin Busy
    BY DEF Idle, Busy, Beginning
  <2> HIDE DEF l
  <2> QED BY <2>1, <2>2, FrozenKeeps
<1> QED BY <1>1, <1>2, <1>3, <1>4, <1>5, <1>6, <1>7 DEF Call

LEMMA SerialStatement ==
  ASSUME Typed, OneThread, SerialInv, NEW th \in Threads,
         BufferWrite(th) \/ SelectOverlay(th) \/ Sweep(th) \/ Release(th) \/ StorageFails(th)
  PROVE  SerialInv'
<1> DEFINE t == thread[th].txn
<1>0. Idle.pc \notin Busy
  BY DEF Idle, Busy, Beginning
<1>1. CASE BufferWrite(th)
  <2> DEFINE w == Head(thread[th].writes)
             a == Buffered(active_txns[t], w, thread[th].n)
  <2> HIDE DEF w, a
  <2>1. /\ Goto(th, Idle) /\ UNCHANGED <<history, committed_writes, next_txn, global_ts>>
        /\ thread[th].pc = "buffer"
    BY <1>1 DEF BufferWrite, At, logVars, auxVars
  <2>2. CASE UNCHANGED active_txns
    BY <1>0, <2>1, <2>2, FrozenKeeps DEF Frozen
  <2>3. CASE ~UNCHANGED active_txns
    <3>1. active_txns[t].status = "active" /\ active_txns' = [active_txns EXCEPT ![t] = a]
      BY <1>1, <2>3 DEF BufferWrite, w, a
    <3>2. t \in TxnIds /\ w \in TxnWrite /\ thread[th].n \in Nat
      BY <2>1, LocalUpdates, HeadType DEF w
    <3>3. active_txns[t] \in ActiveTxn
      BY <3>2 DEF Typed, TypeOK, TxnTypeOK
    <3>4. a.snapshot_ts = active_txns[t].snapshot_ts
      BY <3>2, <3>3, BufferedType DEF a
    <3>5. thread'[th] = Idle
      BY <2>1, GotoFacts
    <3> HIDE DEF t
    <3> QED BY <1>0, <2>1, <3>1, <3>2, <3>4, <3>5, RecordKeeps
  <2> QED BY <2>2, <2>3
<1>2. CASE SelectOverlay(th) \/ Release(th)
  <2>1. Goto(th, Idle) /\ Frozen
    BY <1>2 DEF SelectOverlay, Release, Frozen, logVars, auxVars
  <2> QED BY <1>0, <2>1, FrozenKeeps
<1>3. CASE Sweep(th)
  <2>1. PICK T : AbortTxns(T)
    BY <1>3 DEF Sweep
  <2>2. Goto(th, Idle) /\ UNCHANGED <<history, next_txn, global_ts>>
    BY <1>3 DEF Sweep, auxVars
  <2> QED BY <1>0, <2>1, <2>2, AbortKeeps
<1>4. CASE StorageFails(th)
  <2> DEFINE l == [Idle EXCEPT !.pc = "release", !.txn = t]
  <2>1. /\ \/ AbortTxns({t}) /\ Goto(th, l)
           \/ UNCHANGED <<active_txns, committed_writes>> /\ Goto(th, Idle)
        /\ UNCHANGED <<history, next_txn, global_ts>>
    BY <1>4 DEF StorageFails, auxVars, logVars
  <2>2. l.pc \notin Busy
    BY DEF Idle, Busy, Beginning
  <2> HIDE DEF l, t
  <2>3. CASE AbortTxns({t}) /\ Goto(th, l)
    BY <2>1, <2>2, <2>3, AbortKeeps
  <2>4. CASE UNCHANGED <<active_txns, committed_writes>> /\ Goto(th, Idle)
    BY <1>0, <2>1, <2>4, FrozenKeeps DEF Frozen
  <2> QED BY <2>1, <2>3, <2>4
<1> QED BY <1>1, <1>2, <1>3, <1>4

LEMMA SerialPublish ==
  ASSUME Typed, OneThread, SerialInv, NEW th \in Threads,
         \/ PublishOpen(th) \/ PublishBase(th) \/ PublishOld(th) \/ PublishPush(th)
         \/ PublishDone(th) \/ Collect(th) \/ GcRun(th) \/ Prune(th)
         \/ \E tb \in Tables : GcSkip(th, tb) \/ GcStart(th, tb)
  PROVE  SerialInv'
<1>1. Frozen /\ thread[th] \in ThreadLocal
  BY ThreadType DEF PublishOpen, PublishBase, PublishOld, PublishPush, PublishDone, Collect,
       GcRun, Prune, GcSkip, GcStart, Frozen, logVars, auxVars, Local
<1>2. ASSUME NEW l, Goto(th, l), l.pc \in {"idle", "push", "base", "publish", "gc", "gc_run"}
      PROVE  SerialInv'
  <2>1. l.pc \notin Busy
    BY <1>2 DEF Busy, Beginning
  <2> QED BY <1>1, <1>2, <2>1, FrozenKeeps
<1>3. CASE PublishBase(th) \/ PublishOld(th) \/ PublishDone(th)
  <2>1. Step(th, "insert_base") \/ Step(th, "push") \/ Step(th, "watermark")
    BY <1>3 DEF PublishBase, PublishOld, PublishDone
  <2> QED BY <1>1, <2>1, FrozenStep DEF Busy, Beginning
<1>4. CASE PublishOpen(th)
  <2> DEFINE w == Head(thread[th].writes)
             pc == IF w.kind = "insert" THEN "push" ELSE "base"
             l == [thread[th] EXCEPT !.pc = pc, !.store = version_stores'[w.key[1]]]
  <2>1. Goto(th, l) /\ pc \in {"push", "base"}
    BY <1>4 DEF PublishOpen
  <2> HIDE DEF pc, w
  <2>2. l.pc = pc
    BY <1>1 DEF ThreadLocal
  <2> HIDE DEF l
  <2> QED BY <1>2, <2>1, <2>2
<1>5. CASE PublishPush(th)
  <2> DEFINE l == [thread[th] EXCEPT !.pc = "publish", !.store = 0,
                                     !.writes = Tail(thread[th].writes)]
  <2>1. Goto(th, l) /\ l.pc = "publish"
    BY <1>1, <1>5 DEF PublishPush, ThreadLocal
  <2> HIDE DEF l
  <2> QED BY <1>2, <2>1
<1>6. CASE Collect(th)
  <2> DEFINE l == [Idle EXCEPT !.pc = "gc", !.todo = {tb \in Tables : version_stores[tb] # 0}]
  <2>1. Goto(th, l) /\ l.pc = "gc"
    BY <1>6 DEF Collect, Idle
  <2> HIDE DEF l
  <2> QED BY <1>2, <2>1
<1>7. CASE GcRun(th)
  <2> DEFINE l == [thread[th] EXCEPT !.pc = "gc", !.store = 0, !.oldest = 0]
  <2>1. Goto(th, l) /\ l.pc = "gc"
    BY <1>1, <1>7 DEF GcRun, ThreadLocal
  <2> HIDE DEF l
  <2> QED BY <1>2, <2>1
<1>8. CASE Prune(th)
  BY <1>2, <1>8 DEF Prune, Idle
<1>9. ASSUME NEW tb \in Tables, GcSkip(th, tb) PROVE SerialInv'
  <2> DEFINE l == [thread[th] EXCEPT !.todo = thread[th].todo \ {tb}]
  <2>1. Goto(th, l) /\ l.pc = "gc"
    BY <1>1, <1>9 DEF GcSkip, ThreadLocal, At
  <2> HIDE DEF l
  <2> QED BY <1>2, <2>1
<1>10. ASSUME NEW tb \in Tables, GcStart(th, tb) PROVE SerialInv'
  <2> DEFINE l == [thread[th] EXCEPT !.pc = "gc_run", !.store = version_stores[tb],
                     !.oldest = oldest_active_ts, !.todo = thread[th].todo \ {tb}]
  <2>1. Goto(th, l) /\ l.pc = "gc_run"
    BY <1>1, <1>10 DEF GcStart, ThreadLocal
  <2> HIDE DEF l
  <2> QED BY <1>2, <2>1
<1> QED BY <1>3, <1>4, <1>5, <1>6, <1>7, <1>8, <1>9, <1>10

LEMMA SerialInit == Init => SerialInv
<1> SUFFICES ASSUME Init PROVE SerialInv
  OBVIOUS
<1>1. /\ \A t \in TxnIds : active_txns[t] = NoTxn
      /\ \A th \in Threads : thread[th].pc = "idle"
      /\ history = {}
  BY DEF Init, Idle
<1>2. NoTxn.status = "none"
  BY DEF NoTxn
<1> QED BY <1>1, <1>2 DEF SerialInv, HistoryPast, LogCovers, Validated, TrimBound,
                          FirstCommitterWins, Live, Beginning

LEMMA SerialNext ==
  ASSUME OneThread
  PROVE  Typed /\ TxnInv /\ SerialInv /\ [Next]_vars => SerialInv'
<1> SUFFICES ASSUME Typed, TxnInv, SerialInv, [Next]_vars PROVE SerialInv'
  OBVIOUS
<1>1. CASE UNCHANGED vars
  <2>1. /\ history' = history /\ committed_writes' = committed_writes /\ next_txn' = next_txn
        /\ global_ts' = global_ts /\ active_txns' = active_txns /\ thread' = thread
    BY <1>1 DEF vars
  <2>2. HistoryPast'
    BY <2>1 DEF SerialInv, HistoryPast, Live
  <2>3. LogCovers'
    BY <2>1 DEF SerialInv, LogCovers, Live
  <2>4. Validated'
    BY <2>1 DEF SerialInv, Validated, Live, WriteKeys
  <2>5. TrimBound' /\ FirstCommitterWins'
    BY <2>1 DEF SerialInv, TrimBound, FirstCommitterWins, Live
  <2> QED BY <2>2, <2>3, <2>4, <2>5 DEF SerialInv
<1>2. ASSUME NEW th \in Threads, Call(th) PROVE SerialInv'
  BY <1>2, SerialCall
<1>3. ASSUME NEW th \in Threads, Continue(th) PROVE SerialInv'
  <2>1. CASE Register(th) \/ FetchMin(th)
    BY <2>1, SerialRegister
  <2>2. CASE Enter(th)
    BY <2>2, SerialEnter
  <2>3. CASE BufferWrite(th) \/ SelectOverlay(th) \/ Sweep(th) \/ Release(th) \/ StorageFails(th)
    BY <2>3, SerialStatement
  <2>4. CASE ApplyStorage(th)
    BY <2>4, SerialApply
  <2>5. CASE Finalize(th)
    BY <2>5, SerialFinalize
  <2>6. CASE ReadOldest(th) \/ Trim(th) \/ Clear(th)
    BY <2>6, SerialTrim
  <2> QED BY <1>3, <2>1, <2>2, <2>3, <2>4, <2>5, <2>6, SerialPublish DEF Continue
<1> QED BY <1>1, <1>2, <1>3 DEF Next

\* When API calls do not overlap, first committer wins: of two transactions that
\* committed a write of the same row, the second took its snapshot after the first
\* had committed, although every commit trims the conflict log and an empty
\* snapshot set clears it (finalize_commit, advance_watermark).
THEOREM FirstCommitter ==
  ASSUME OneThread
  PROVE  Spec => []FirstCommitterWins
<1>1. Init => SerialInv
  BY SerialInit
<1>2. Typed /\ TxnInv /\ SerialInv /\ [Next]_vars => SerialInv'
  BY SerialNext
<1>3. SerialInv => FirstCommitterWins
  BY DEF SerialInv
<1> QED BY <1>1, <1>2, <1>3, TxnInvariant, PTL DEF Spec

=============================================================================
