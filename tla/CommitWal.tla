----------------------------- MODULE CommitWal -----------------------------
(***************************************************************************)
(* COMMIT of a transaction on one table with a write-ahead log, and the     *)
(* recovery that every safe/max write open and every read open of the table *)
(* runs (storage_core.rs, coordination.rs, incremental.rs).                 *)
(*                                                                          *)
(* The table is its files: the base file, the append-only .delta file       *)
(* (batches of rows), the .deltastore (updated cells, deleted rows), the    *)
(* WAL and the sidecar holding the WAL length known to be applied.  A       *)
(* crash keeps the files and loses every call in progress.  All records     *)
(* have length one, so a file offset is a number of records.                *)
(***************************************************************************)
EXTENDS Naturals, Sequences, FiniteSets, TLC

CONSTANTS
    Threads,   \* threads of the process; one thread: calls never overlap
    BaseRows,  \* ids of the rows of the base file when the log is created
    Shapes,    \* write sets of transactions, as sequences of operations
    Ops,       \* the calls and faults of this instance, a subset of AllOps
    MaxTxn,    \* bound: data versions ever written
    MaxCrash   \* bound: crashes

AllOps == {"crash", "torn", "spill", "log_fails", "apply_fails", "mark_fails",
           "auto", "checkpoint", "read"}

ASSUME BaseRowsAssumption == BaseRows \subseteq Nat \ {0} /\ IsFiniteSet(BaseRows) /\ BaseRows # {}
ASSUME ShapesAssumption == Shapes \subseteq Seq({"insert", "update", "delete"}) \ {<<>>}
ASSUME OpsAssumption == Ops \subseteq AllOps
ASSUME BoundsAssumption == MaxTxn \in Nat /\ MaxCrash \in Nat

VARIABLES
    wal,        \* records of the WAL file
    applied,    \* WAL length in the .wal.meta sidecar, 0 when absent
    base,       \* rows of the base file
    base_next,  \* its next_id
    delta,      \* batches of the .delta file, each a set of rows
    upd,        \* .deltastore: updated rows, a function on row ids
    del,        \* .deltastore: deleted row ids
    next_txn,   \* transaction ids of this process restart at 1
    th,         \* what each thread is doing
    begun,      \* number of data versions written so far; each write set has its own
    crashes,    \* number of crashes so far
    expect,     \* history: the rows that the durable commits so far produce
    dead,       \* history: versions of transactions that ended without a marker
    log_gen,    \* history: which incarnation of the WAL file this is
    mark_gen,   \* history: the incarnation the sidecar was written for
    boot,       \* history: the length of the WAL when this process started
    sound       \* history: no open so far has read an anomalous log

ghost == <<expect, dead, log_gen, mark_gen, boot, sound>>
files == <<wal, applied, base, base_next, delta, upd, del>>
vars == <<files, next_txn, th, begun, crashes, ghost>>

MaxOf(S) == IF S = {} THEN 0 ELSE CHOOSE n \in S : \A m \in S : m <= n
IdsOf(rows) == {r.id : r \in rows}
Elems(s) == {s[i] : i \in DOMAIN s}

Rec(k, txn, id, val) == [k |-> k, txn |-> txn, id |-> id, val |-> val]
Torn == Rec("torn", 0, 0, 0)

----------------------------------------------------------------------------
(* The contents of the table. *)

DeltaRows(d) == UNION Elems(d)
DeltaMax(d) == MaxOf(IdsOf(DeltaRows(d)))

\* Rows a reader is given: base and delta rows under the .deltastore overlay.
Merged(b, d, u, x) ==
    {[id |-> r.id, val |-> IF r.id \in DOMAIN u THEN u[r.id] ELSE r.val] :
        r \in {q \in b \cup DeltaRows(d) : q.id \notin x}}
Visible == Merged(base, delta, upd, del)

\* A row stored twice is read twice.
Duplicated(b, d) ==
    \E n \in DOMAIN d : \/ IdsOf(d[n]) \cap IdsOf(b) # {}
                        \/ \E m \in 1 .. n - 1 : IdsOf(d[n]) \cap IdsOf(d[m]) # {}

\* next_id of a fast open, which ids of buffered and applied inserts come from.
NextId == MaxOf({base_next, DeltaMax(delta) + 1})

\* What a write set does to a set of rows; an update of a missing row is empty.
Effect(rows, ws) ==
    {r \in rows : \A i \in DOMAIN ws : ws[i].k # "insert" => ws[i].id # r.id}
    \cup {[id |-> w.id, val |-> w.val] :
            w \in {v \in Elems(ws) : v.k = "insert" \/ (v.k = "update" /\ v.id \in IdsOf(rows))}}

----------------------------------------------------------------------------
(* Reading the log. *)

\* WalReader: the records up to the first that does not parse.
Readable(log) ==
    LET bad == {i \in DOMAIN log : log[i].k = "torn"}
    IN  IF bad = {} THEN log
        ELSE SubSeq(log, 1, (CHOOSE i \in bad : \A j \in bad : i <= j) - 1)

wal_applied_offset == IF applied <= Len(wal) THEN applied ELSE 0
\* Mutant: a sidecar of any length is taken to cover the whole log.
AnySidecarCovers == wal # <<>> /\ wal_applied_offset = 0

wal_needs_recovery == wal # <<>> /\ wal_applied_offset # Len(wal)

\* The offset counts only where a record starts or the file ends.
ScanOffset(log) ==
    IF wal_applied_offset = Len(wal) \/ wal_applied_offset < Len(log)
    THEN wal_applied_offset ELSE 0

Committed(log) == {log[i].txn : i \in {j \in DOMAIN log : log[j].k = "commit"}}

\* Record i lies between a Begin and a Commit of its transaction id.
Paired(log, i) ==
    \E b \in 1 .. i - 1, c \in i + 1 .. Len(log) :
        /\ log[b].k = "begin" /\ log[c].k = "commit"
        /\ log[b].txn = log[i].txn /\ log[c].txn = log[i].txn
        /\ \A m \in b + 1 .. c - 1 :
              log[m].txn = log[i].txn => log[m].k \notin {"begin", "commit"}

\* Begin..Commit intervals, the rule for updates: the last one of a row wins.
CommittedUpdates(log, off, live) ==
    LET hits(id) == {i \in off + 1 .. Len(log) :
                        /\ log[i].k = "update" /\ log[i].id = id
                        /\ log[i].txn \notin live /\ Paired(log, i)}
        ids == {id \in {log[i].id : i \in DOMAIN log} : hits(id) # {}}
    IN  [id \in ids |-> log[MaxOf(hits(id))].val]

scan_wal_for_recovery(log, off, live) ==
    LET of(kinds, ok) == {i \in DOMAIN log : log[i].k \in kinds /\ log[i].txn \notin live
                                             /\ (ok <=> log[i].txn \in Committed(log) \cup {0})}
    IN  [uncommitted_insert_ids |-> {log[i].id : i \in of({"insert"}, FALSE)},
         inserts |-> {[id |-> log[i].id, val |-> log[i].val] : i \in of({"insert"}, TRUE)},
         committed_delete_ids |-> {log[i].id : i \in of({"delete"}, TRUE)},
         committed_updates |-> CommittedUpdates(log, off, live),
         next |-> base_next]

----------------------------------------------------------------------------
(* recover_committed_records. *)

\* 1) Trailing batches all of whose rows belong to uncommitted transactions go.
CutTail(d, ids) ==
    LET keep == {n \in 1 .. Len(d) : ~ (IdsOf(d[n]) \subseteq ids)}
    IN  SubSeq(d, 1, MaxOf(keep))

\* Mutant: rows the delta already holds are appended again.
NoDedupRecoveredDelta(d, scan) ==
    LET cut == CutTail(d, scan.uncommitted_insert_ids)
        candidates == {r \in scan.inserts : r.id >= scan.next}
    IN  IF candidates # {} THEN Append(cut, candidates) ELSE cut

\* 2) Committed inserts above both high-water marks that the delta lacks.
RecoveredDelta(d, scan) ==
    LET cut == CutTail(d, scan.uncommitted_insert_ids)
        candidates == {r \in scan.inserts : r.id >= scan.next}
        missing == {r \in candidates : r.id \notin IdsOf(DeltaRows(cut))}
    IN  IF /\ candidates # {} /\ missing # {}
           /\ MaxOf(IdsOf(scan.inserts)) > MaxOf({DeltaMax(cut), scan.next - 1})
        THEN Append(cut, missing) ELSE cut

\* 3) and 4) Committed updates, then committed deletes of rows still active.
RecoveredUpd(u, scan) == scan.committed_updates @@ u
RecoveredDel(x, scan) == x \cup (scan.committed_delete_ids \cap IdsOf(base))

----------------------------------------------------------------------------
(* Conditions under which the log no longer says what happened (history).   *)

\* Transactions of this process that is_live_txn reports.
Live == {th[t].txn : t \in {u \in Threads : th[u].goal = "commit" /\ th[u].pc # "watermark"}}

\* An insert or delete of a transaction id that also committed elsewhere.
GhostRecord(log) ==
    \E i \in DOMAIN log : /\ log[i].k \in {"insert", "delete"} /\ log[i].txn # 0
                          /\ log[i].txn \in Committed(log) /\ ~ Paired(log, i)
\* Two insert records with one row id.
ReusedRowId(log) ==
    \E i, j \in DOMAIN log : /\ i # j /\ log[i].k = "insert" /\ log[j].k = "insert"
                             /\ log[i].id = log[j].id
\* Records behind one that does not parse.
HiddenRecords == Len(Readable(wal)) + 1 < Len(wal)
\* A sidecar of a truncated log that falls inside the present one.
StaleSidecar == mark_gen # log_gen /\ applied \in 1 .. Len(wal)
\* Unapplied records of a dead process under the id of a live transaction.
AliasedTxnId ==
    wal_needs_recovery /\ \E i \in 1 .. boot : wal[i].txn \in Live

Anomalous == \/ GhostRecord(Readable(wal)) \/ ReusedRowId(Readable(wal))
             \/ HiddenRecords \/ StaleSidecar \/ AliasedTxnId

----------------------------------------------------------------------------
(* Threads. *)

NoScan == [uncommitted_insert_ids |-> {}, inserts |-> {}, committed_delete_ids |-> {},
           committed_updates |-> <<>>, next |-> 0]
Idle == [pc |-> "idle", goal |-> "none", txn |-> 0, writes |-> <<>>, pos |-> 0,
         buf |-> <<>>, todo |-> <<>>, scan |-> NoScan]

\* Rows with a write intent.
Intents == UNION {IdsOf(Elems(th[t].writes)) : t \in {u \in Threads : th[u].pc # "watermark"}}

\* A write at a file position: WalWriter has no append mode.
WriteAt(log, pos, recs) ==
    [i \in 1 .. MaxOf({Len(log), pos + Len(recs)}) |->
        IF i > pos /\ i <= pos + Len(recs) THEN recs[i - pos]
        ELSE IF i <= Len(log) THEN log[i] ELSE Torn]

Init ==
    /\ wal = <<>> /\ applied = 0 /\ delta = <<>> /\ upd = <<>> /\ del = {}
    /\ base = {[id |-> r, val |-> 0] : r \in BaseRows}
    /\ base_next = MaxOf(BaseRows) + 1
    /\ next_txn = 1 /\ th = [t \in Threads |-> Idle]
    /\ begun = 0 /\ crashes = 0 /\ expect = base /\ dead = {}
    /\ log_gen = 0 /\ mark_gen = 0 /\ boot = 0 /\ sound = TRUE

Goto(t, ctx) == th' = [th EXCEPT ![t] = ctx]

\* BEGIN, the buffered statements and prepare_commit: ids come from a fast open.
Begin(t) ==
    /\ th[t].pc = "idle" /\ begun < MaxTxn
    /\ \E shape \in Shapes, r \in BaseRows :
         LET w(i) == [k |-> shape[i], val |-> begun + 1,
                      id |-> IF shape[i] = "insert"
                             THEN NextId + Cardinality({j \in 1 .. i - 1 : shape[j] = "insert"})
                             ELSE r]
             ws == [i \in DOMAIN shape |-> w(i)]
         IN  /\ \A i \in DOMAIN ws : ws[i].k # "insert" => r \in IdsOf(Visible)
             /\ IdsOf(Elems(ws)) \cap Intents = {}
             /\ Goto(t, [Idle EXCEPT !.pc = "open", !.goal = "commit", !.txn = next_txn,
                                     !.writes = ws])
    /\ next_txn' = next_txn + 1 /\ begun' = begun + 1
    /\ UNCHANGED <<files, crashes, ghost>>

\* The other calls that open the table: a read, an autocommit INSERT, a checkpoint.
Call(t, goal) ==
    /\ goal \in Ops /\ th[t].pc = "idle"
    /\ goal = "auto" => begun < MaxTxn
    /\ goal = "read" => wal_needs_recovery
    /\ goal = "checkpoint" => wal # <<>>
    /\ Goto(t, [Idle EXCEPT !.pc = "open", !.goal = goal])
    /\ UNCHANGED <<files, next_txn, begun, crashes, ghost>>

\* Where a call goes once its open is complete.
AfterOpen(goal) ==
    CASE goal = "commit" -> "log" [] goal = "auto" -> "auto"
      [] goal = "checkpoint" -> "rewrite" [] OTHER -> "idle"
Opened(c) == IF c.goal = "read" THEN Idle ELSE [c EXCEPT !.pc = AfterOpen(c.goal), !.scan = NoScan]

\* open_with_durability / open_for_read_with_file: scan, then seek to the end.
Open(t) ==
    LET c == [th[t] EXCEPT !.pos = Len(wal)]
        log == Readable(wal)
    IN  /\ th[t].pc = "open"
        /\ IF wal_needs_recovery
           THEN Goto(t, [c EXCEPT !.pc = "rows",
                                  !.scan = scan_wal_for_recovery(log, ScanOffset(log), Live)])
           ELSE Goto(t, Opened(c))
        /\ sound' = (sound /\ ~ Anomalous)
        /\ UNCHANGED <<files, next_txn, begun, crashes, expect, dead, log_gen, mark_gen, boot>>

RecoverRows(t) ==
    /\ th[t].pc = "rows"
    /\ delta' = RecoveredDelta(delta, th[t].scan)
    /\ Goto(t, [th[t] EXCEPT !.pc = "cells"])
    /\ UNCHANGED <<wal, applied, base, base_next, upd, del, next_txn, begun, crashes,
                   ghost>>

RecoverCells(t) ==
    /\ th[t].pc = "cells"
    /\ upd' = RecoveredUpd(upd, th[t].scan)
    /\ del' = RecoveredDel(del, th[t].scan)
    /\ Goto(t, [th[t] EXCEPT !.pc = "recovered"])
    /\ UNCHANGED <<wal, applied, base, base_next, delta, next_txn, begun, crashes,
                   ghost>>

\* write_wal_marker: the present length of the WAL, whatever the scan read.
write_wal_marker ==
    IF wal = <<>> THEN UNCHANGED <<applied, mark_gen>>
    ELSE applied' = Len(wal) /\ mark_gen' = log_gen

RecoverMark(t) ==
    /\ th[t].pc = "recovered"
    /\ write_wal_marker
    /\ Goto(t, Opened(th[t]))
    /\ UNCHANGED <<wal, base, base_next, delta, upd, del, next_txn, begun, crashes,
                   expect, dead, log_gen, boot, sound>>

----------------------------------------------------------------------------
(* execute_commit_txn. *)

\* Phases 1 and 2: Begin and the write set go to the writer's buffer.
Log(t) ==
    LET c == th[t]
        dml == [i \in DOMAIN c.writes |->
                  Rec(c.writes[i].k, c.txn, c.writes[i].id,
                      IF c.writes[i].k = "delete" THEN 0 ELSE c.writes[i].val)]
    IN  /\ c.pc = "log"
        /\ Goto(t, [c EXCEPT !.pc = "marker", !.buf = <<Rec("begin", c.txn, 0, 0)>> \o dml])
        /\ UNCHANGED <<files, next_txn, begun, crashes, ghost>>

\* A full buffer is written out before the marker.
Spill(t) ==
    /\ "spill" \in Ops /\ th[t].pc = "marker" /\ th[t].buf # <<>>
    /\ wal' = WriteAt(wal, th[t].pos, th[t].buf)
    /\ Goto(t, [th[t] EXCEPT !.pos = @ + Len(th[t].buf), !.buf = <<>>])
    /\ UNCHANGED <<applied, base, base_next, delta, upd, del, next_txn, begun, crashes,
                   ghost>>

\* A write, the stale-index mark or the flush fails: rollback, and dropping
\* the writer flushes what it still can of the buffer.
LogFails(t) ==
    /\ "log_fails" \in Ops /\ th[t].pc = "marker"
    /\ \E n \in 0 .. Len(th[t].buf) :
          wal' = WriteAt(wal, th[t].pos, SubSeq(th[t].buf, 1, n))
    /\ dead' = dead \cup {th[t].writes[1].val}
    /\ Goto(t, Idle)
    /\ UNCHANGED <<applied, base, base_next, delta, upd, del, next_txn, begun, crashes,
                   expect, log_gen, mark_gen, boot, sound>>

\* Phase 3: the commit point.
Marker(t) ==
    LET c == th[t] IN
    /\ c.pc = "marker"
    /\ wal' = WriteAt(wal, c.pos, Append(c.buf, Rec("commit", c.txn, 0, 0)))
    /\ expect' = Effect(expect, c.writes)
    /\ Goto(t, [c EXCEPT !.pc = "apply", !.todo = c.writes, !.buf = <<>>])
    /\ UNCHANGED <<applied, base, base_next, delta, upd, del, next_txn, begun, crashes,
                   dead, log_gen, mark_gen, boot, sound>>

\* The leading inserts of a write list, which apply_txn_writes takes as one batch.
InsertRun(ws) == MaxOf({n \in 0 .. Len(ws) : \A i \in 1 .. n : ws[i].k = "insert"})

\* Phase 4: one batch of inserts, or one update or delete.
ApplyWrite(t) ==
    LET c == th[t]
        n == InsertRun(c.todo)
        w == Head(c.todo)
        drop(k) == [c EXCEPT !.todo = SubSeq(@, k + 1, Len(@))]
    IN  /\ c.pc = "apply" /\ c.todo # <<>>
        /\ \/ /\ n > 0
              /\ delta' = Append(delta, {[id |-> NextId + i - 1, val |-> c.todo[i].val] : i \in 1 .. n})
              /\ Goto(t, drop(n)) /\ UNCHANGED <<upd, del>>
           \/ /\ w.k = "update"
              /\ upd' = IF w.id \in IdsOf(base) \ del THEN (w.id :> w.val) @@ upd ELSE upd
              /\ Goto(t, drop(1)) /\ UNCHANGED <<delta, del>>
           \/ /\ w.k = "delete"
              /\ del' = del \cup {w.id}
              /\ Goto(t, drop(1)) /\ UNCHANGED <<delta, upd>>
        /\ UNCHANGED <<wal, applied, base, base_next, next_txn, begun, crashes,
                       ghost>>

\* A failed apply rolls the transaction back in memory; the marker stays.
ApplyFails(t) ==
    /\ "apply_fails" \in Ops /\ th[t].pc = "apply" /\ th[t].todo # <<>>
    /\ Goto(t, Idle)
    /\ UNCHANGED <<files, next_txn, begun, crashes, ghost>>

\* finalize_commit: from here on the transaction is no longer live.
Finalize(t) ==
    /\ th[t].pc = "apply" /\ th[t].todo = <<>>
    /\ Goto(t, [th[t] EXCEPT !.pc = "watermark"])
    /\ UNCHANGED <<files, next_txn, begun, crashes, ghost>>

\* wal_mark_applied, the last step; its failure is reported after the commit.
MarkApplied(t) ==
    /\ th[t].pc = "watermark"
    /\ \/ write_wal_marker
       \/ "mark_fails" \in Ops /\ UNCHANGED <<applied, mark_gen>>
    /\ Goto(t, Idle)
    /\ UNCHANGED <<wal, base, base_next, delta, upd, del, next_txn, begun, crashes,
                   expect, dead, log_gen, boot, sound>>

----------------------------------------------------------------------------
(* Autocommit INSERT, checkpoint, crash. *)

\* A batch is logged under transaction id 0 first; a single row is not.
AutoLog(t) ==
    LET row == [k |-> "insert", id |-> NextId, val |-> begun + 1] IN
    /\ th[t].pc = "auto" /\ th[t].writes = <<>> /\ begun < MaxTxn
    /\ begun' = begun + 1
    /\ \/ /\ wal' = WriteAt(wal, th[t].pos, <<Rec("insert", 0, row.id, row.val)>>)
          /\ expect' = Effect(expect, <<row>>)
       \/ UNCHANGED <<wal, expect>>
    /\ Goto(t, [th[t] EXCEPT !.writes = <<row>>])
    /\ UNCHANGED <<applied, base, base_next, delta, upd, del, next_txn, crashes,
                   dead, log_gen, mark_gen, boot, sound>>

\* save: the rows are appended to the base file.
AutoSave(t) ==
    LET row == th[t].writes[1] IN
    /\ th[t].pc = "auto" /\ th[t].writes # <<>>
    /\ base' = base \cup {[id |-> row.id, val |-> row.val]}
    /\ base_next' = row.id + 1
    /\ expect' = Effect(expect, th[t].writes)
    /\ Goto(t, Idle)
    /\ UNCHANGED <<wal, applied, delta, upd, del, next_txn, begun, crashes,
                   dead, log_gen, mark_gen, boot, sound>>

\* save_full: rewrite the base, drop the sidecars, recreate the WAL.  The
\* applied-length sidecar keeps the length of the old log.
Checkpoint(t) ==
    /\ th[t].pc = "rewrite"
    /\ base' = Visible /\ base_next' = NextId
    /\ delta' = <<>> /\ upd' = <<>> /\ del' = {}
    /\ wal' = <<>> /\ log_gen' = log_gen + 1 /\ boot' = 0
    /\ Goto(t, Idle)
    /\ UNCHANGED <<applied, next_txn, begun, crashes, expect, dead, mark_gen, sound>>

\* The process dies; part of a buffer may have reached the file, its last
\* record possibly in part.
Crash ==
    /\ "crash" \in Ops /\ crashes < MaxCrash
    /\ \/ wal' = wal
       \/ \E t \in Threads, torn \in {"torn"} \cap Ops :
            /\ th[t].pc = "marker"
            /\ \E n \in 0 .. Len(th[t].buf) :
                  wal' = WriteAt(wal, th[t].pos, Append(SubSeq(th[t].buf, 1, n), Torn))
    /\ dead' = dead \cup {th[t].writes[1].val :
                            t \in {u \in Threads : th[u].goal = "commit"
                                     /\ th[u].pc \notin {"apply", "watermark"}}}
    /\ crashes' = crashes + 1 /\ boot' = Len(wal')
    /\ next_txn' = 1 /\ th' = [t \in Threads |-> Idle]
    /\ UNCHANGED <<applied, base, base_next, delta, upd, del, begun, expect,
                   log_gen, mark_gen, sound>>

Step(t) ==
    \/ Begin(t) \/ Open(t) \/ RecoverRows(t) \/ RecoverCells(t) \/ RecoverMark(t)
    \/ Log(t) \/ Spill(t) \/ LogFails(t) \/ Marker(t)
    \/ ApplyWrite(t) \/ ApplyFails(t) \/ Finalize(t) \/ MarkApplied(t)
    \/ AutoLog(t) \/ AutoSave(t) \/ Checkpoint(t)
    \/ \E goal \in {"read", "auto", "checkpoint"} : Call(t, goal)

Next == Crash \/ \E t \in Threads : Step(t)

Spec == Init /\ [][Next]_vars

----------------------------------------------------------------------------
(* Properties. *)

Rows == [id : Nat \ {0}, val : 0 .. MaxTxn]

\* Every file holds what its format allows: rows below the ids they claim, a
\* sidecar offset of some log, updates and deletions of rows that exist.
TypeOK ==
    /\ wal \in Seq([k : {"begin", "insert", "update", "delete", "commit", "torn"},
                    txn : Nat, id : Nat, val : Nat])
    /\ applied \in Nat
    /\ base \subseteq Rows /\ \A r \in base : r.id < base_next
    /\ \A n \in DOMAIN delta : delta[n] \subseteq Rows
    /\ DOMAIN upd \subseteq IdsOf(base) /\ del \subseteq IdsOf(base)
    /\ expect \subseteq Rows /\ dead \subseteq 1 .. MaxTxn
    /\ \A t \in Threads : th[t].pos \in Nat

\* No call in progress, and the next open will not run recovery.
Settled == (\A t \in Threads : th[t].pc = "idle") /\ ~ wal_needs_recovery
Trusted == sound /\ ~ Anomalous

\* Once the log and the table agree that there is nothing to recover, readers
\* see exactly the durable commits, each entirely and no row twice
\* (recover_committed_records), unless the log was or is anomalous in one of the ways named above.
RecoveryExact == Settled /\ Trusted => Visible = expect /\ ~ Duplicated(base, delta)

\* Recovery run again over the whole log, as after the loss of the sidecar
\* ("Absent, short, or stale means the WAL needs a scan"), changes nothing.
RecoveryIdempotent ==
    Settled /\ Trusted =>
        LET scan == scan_wal_for_recovery(Readable(wal), 0, {})
            rows == RecoveredDelta(delta, scan)
        IN  /\ Merged(base, rows, RecoveredUpd(upd, scan), RecoveredDel(del, scan)) = Visible
            /\ ~ Duplicated(base, rows)

\* A commit whose marker is in the WAL is visible once nothing is left to
\* recover (phase 3 of execute_commit_txn).
MarkedIsVisible == Settled => \A r \in expect : \E v \in Visible : v.val = r.val

=============================================================================
