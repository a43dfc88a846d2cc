---------------------------- MODULE TableEngine ----------------------------
(***************************************************************************)
(* One table file as the threads of several processes read and change it:  *)
(* the published epoch and the row-id mark in the table's sidecar (shared  *)
(* by the processes), the backends each process caches (the engine's read  *)
(* and write backend, its insert backend, the executor's read backend),    *)
(* and the deletes a process has acknowledged but not yet written.         *)
(*                                                                         *)
(* A row is its id.  A file is the set of its live rows, the inode, the    *)
(* offset of its footer (the number of rows stored, deleted ones included),*)
(* the largest id its row groups name and its modification stamp; "torn"   *)
(* between the moment an append has overwritten the old footer and the     *)
(* moment the header names the new one; not "ok" once the image of another *)
(* layout has been written into it, after which no call begins.  "old" are *)
(* the rows of the inodes that rewrites have replaced.                     *)
(* Writers hold the table's write locks (module WriteLocks) for the whole  *)
(* call; readers hold none.  "append" and "delete" are write_typed and     *)
(* delete_one as the bindings call them, under the cross-process lock;     *)
(* "sqldelete" and "deleteid" are SQL DELETE by a numeric range and by     *)
(* _id, under with_table_write_lock; "buffer" is store_one_memtable, which *)
(* keeps a row in memory, without a lock, and shows its backend to the     *)
(* executor; "read" and "sqlread" are the engine's and the executor's read *)
(* path.  Flushing buffered rows is left out: one thread of a process      *)
(* buffers, and from its first row on that process begins no other write.  *)
(***************************************************************************)
EXTENDS Integers, FiniteSetsExt, SequencesExt

CONSTANTS
    Threads, Procs, ProcOf,     \* threads and the process each belongs to
    Calls,                      \* the calls each thread may make
    StartRows,                  \* rows 1..StartRows are in the file at first
    MaxCalls,                   \* bound: calls made by all threads
    MaxQuits,                   \* bound: processes that end and start again
    None

ASSUME EngineAssumption ==
    /\ ProcOf \in [Threads -> Procs]
    /\ StartRows \in Nat \ {0}
    /\ None \notin Threads

VARIABLES
    file,       \* the table file; by: the process that changed it last
    epoch,      \* published generation of the table (sidecar slot 0)
    hw,         \* row-id high-water mark (sidecar slot 1)
    pend,       \* per process: the deferred delete, or NoPend
    ecache,     \* per process: StorageEngine::cache
    icache,     \* per process: StorageEngine::insert_cache
    scache,     \* per process: the executor's STORAGE_CACHE
    memtable,   \* per process: the backend that holds its buffered rows
    writer,     \* thread that holds the table's write locks
    rew,        \* per process: thread that holds the rewrite lock
    pc, loc,    \* per thread: place and locals
    calls, quits,
    issued,     \* ids handed out, in order
    acked,      \* appends that have returned
    targeted,   \* rows some delete call was made for
    gone,       \* rows whose delete was written and published, and returned
    forfeited,  \* rows whose acknowledged delete was thrown away
    overwrote   \* a deferred delete was written over a file changed since

disk == <<file, epoch, hw>>
caches == <<ecache, icache, scache, memtable>>
history == <<issued, acked, targeted, gone, forfeited, overwrote>>
vars == <<disk, pend, caches, writer, rew, pc, loc, calls, quits, history>>

Rows == 1 .. StartRows + MaxCalls
NoEntry == [rows |-> {}, data |-> FALSE, stamp |-> -1, epoch |-> -1, mem |-> FALSE]
NoMemtable == [rows |-> {}, next |-> 0, floor |-> {}, dead |-> {}]
NoInsert == [ino |-> -1, off |-> -1, next |-> 0, epoch |-> -1]
NoPend == [gone |-> {}, view |-> {}, ino |-> -1, off |-> -1, stamp |-> -1]
NoCall == [op |-> "none", row |-> 0, epoch |-> 0, stamp |-> 0, ino |-> 0,
           next |-> 0, mark |-> 0, view |-> {}, data |-> FALSE, then |-> "idle",
           floor |-> {}, dead |-> {}, fell |-> FALSE, mem |-> FALSE]

Init ==
    /\ file = [rows |-> 1 .. StartRows, ino |-> 0, off |-> StartRows,
               top |-> StartRows, stamp |-> 0, torn |-> FALSE, ok |-> TRUE,
               by |-> None, old |-> <<>>]
    /\ epoch = 0
    /\ hw = 0
    /\ pend = [p \in Procs |-> NoPend]
    /\ ecache = [p \in Procs |-> NoEntry]
    /\ icache = [p \in Procs |-> NoInsert]
    /\ scache = [p \in Procs |-> NoEntry]
    /\ memtable = [p \in Procs |-> NoMemtable]
    /\ writer = None
    /\ rew = [p \in Procs |-> None]
    /\ pc = [t \in Threads |-> "idle"]
    /\ loc = [t \in Threads |-> NoCall]
    /\ calls = 0
    /\ quits = 0
    /\ issued = <<>>
    /\ acked = {}
    /\ targeted = {}
    /\ gone = {}
    /\ forfeited = {}
    /\ overwrote = FALSE

Go(t, place) == pc' = [pc EXCEPT ![t] = place]
Set(t, changes) == loc' = [loc EXCEPT ![t] = changes]
At(t, place) == pc[t] = place

(***************************************************************************)
(* A call begins.  A writer first waits for the table's write locks.       *)
(***************************************************************************)
Deletes == {"delete", "sqldelete", "deleteid"}
Writers == Deletes \cup {"append"}
Readers == {"read", "sqlread"}

FirstPlace(op) ==
    CASE op \in Writers -> "lock"
      [] op = "buffer" -> "memtable"
      [] op \in Readers -> "epoch"

Begin(t) ==
    /\ At(t, "idle") /\ calls < MaxCalls /\ file.ok
    /\ \E op \in Calls[t] :
       \E r \in IF op \in Deletes THEN file.rows \ {1} ELSE {0} :
          /\ op \in Writers => memtable[ProcOf[t]] = NoMemtable
          /\ loc' = [loc EXCEPT ![t] =
                [NoCall EXCEPT !.op = op, !.row = r,
                               !.floor = acked \cup 1 .. StartRows,
                               !.dead = gone]]
          /\ Go(t, FirstPlace(op))
          /\ targeted' = IF op \in Deletes THEN targeted \cup {r} ELSE targeted
    /\ calls' = calls + 1
    /\ UNCHANGED <<disk, pend, caches, writer, rew, quits, issued, acked, gone,
                   forfeited, overwrote>>

(* Mutant of Lock: DELETE by row id does not wait for the write locks.     *)
LockNotById(t) ==
    /\ At(t, "lock") /\ (loc[t].op = "deleteid" \/ writer = None)
    /\ writer' = IF loc[t].op = "deleteid" THEN writer ELSE t
    /\ Go(t, "apply")
    /\ Set(t, [loc[t] EXCEPT !.then =
                 CASE loc[t].op = "append" -> "insertbe"
                   [] loc[t].op = "delete" -> "clear"
                   [] OTHER -> "open"])
    /\ UNCHANGED <<disk, pend, caches, rew, calls, quits, history>>

(* Mutant of Lock: a writer does not apply the deferred delete first.      *)
LockNoApply(t) ==
    /\ At(t, "lock") /\ writer = None
    /\ writer' = t
    /\ Go(t, CASE loc[t].op = "append" -> "insertbe"
               [] loc[t].op = "delete" -> "clear"
               [] OTHER -> "open")
    /\ UNCHANGED <<disk, pend, caches, rew, loc, calls, quits, history>>

Lock(t) ==
    /\ At(t, "lock") /\ writer = None
    /\ writer' = t
    /\ Go(t, "apply")
    /\ Set(t, [loc[t] EXCEPT !.then =
                 CASE loc[t].op = "append" -> "insertbe"
                   [] loc[t].op = "delete" -> "clear"
                   [] OTHER -> "open"])
    /\ UNCHANGED <<disk, pend, caches, rew, calls, quits, history>>

(* The call returns; whatever locks it held are released.                  *)
Return(t) ==
    /\ Go(t, "idle")
    /\ loc' = [loc EXCEPT ![t] = NoCall]
    /\ writer' = IF writer = t THEN None ELSE writer

(***************************************************************************)
(* apply_pending_deletes: under this process's rewrite lock, compare the   *)
(* file with the one the deferred delete was computed from; write the      *)
(* recorded deletion vectors and footer back, or discard them.             *)
(***************************************************************************)
Describes(d) == <<d.ino, d.off, d.stamp>> = <<file.ino, file.off, file.stamp>>

(* Mutant of ApplyCheck: the rewrite lock is not taken.                    *)
ApplyCheckUnlocked(t) ==
    LET p == ProcOf[t] IN
    /\ At(t, "apply")
    /\ \/ /\ pend[p] # NoPend /\ Describes(pend[p])
          /\ Go(t, "applying")
          /\ UNCHANGED <<pend, forfeited>>
       \/ /\ ~(pend[p] # NoPend /\ Describes(pend[p]))
          /\ forfeited' = forfeited \cup pend[p].gone
          /\ pend' = [pend EXCEPT ![p] = NoPend]
          /\ Go(t, loc[t].then)
    /\ UNCHANGED <<disk, caches, writer, rew, loc, calls, quits, issued, acked,
                   targeted, gone, overwrote>>

ApplyCheck(t) ==
    LET p == ProcOf[t] IN
    /\ At(t, "apply") /\ rew[p] = None
    /\ \/ /\ pend[p] # NoPend /\ Describes(pend[p])
          /\ rew' = [rew EXCEPT ![p] = t]
          /\ Go(t, "applying")
          /\ UNCHANGED <<pend, forfeited>>
       \/ /\ ~(pend[p] # NoPend /\ Describes(pend[p]))
          /\ forfeited' = forfeited \cup pend[p].gone
          /\ pend' = [pend EXCEPT ![p] = NoPend]
          /\ Go(t, loc[t].then)
          /\ UNCHANGED rew
    /\ UNCHANGED <<disk, caches, writer, loc, calls, quits, issued, acked,
                   targeted, gone, overwrote>>

(* The file is opened by path again and written at the recorded offsets:   *)
(* deletion vectors and footer become those of the recorded view.          *)
Applied(d, p) ==
    IF <<d.ino, d.off, FALSE>> = <<file.ino, file.off, file.torn>>
    THEN [file EXCEPT !.rows = d.view, !.stamp = @ + 1, !.by = p]
    ELSE [file EXCEPT !.ok = FALSE, !.stamp = @ + 1, !.by = p]

ApplyWrite(t) ==
    LET p == ProcOf[t] IN
    /\ At(t, "applying")
    /\ file' = Applied(pend[p], p)
    /\ overwrote' = (overwrote \/ ~Describes(pend[p]))
    /\ pend' = [pend EXCEPT ![p] = NoPend]
    /\ rew' = [rew EXCEPT ![p] = None]
    /\ Go(t, loc[t].then)
    /\ UNCHANGED <<epoch, hw, caches, writer, loc, calls, quits, issued, acked,
                   targeted, gone, forfeited>>

(***************************************************************************)
(* write_typed: append a row group through the insert backend.             *)
(***************************************************************************)

(* Mutant of GetInsert: a warm backend is kept whatever the epoch.         *)
GetInsertWarm(t) ==
    LET p == ProcOf[t]
        be == IF icache[p] # NoInsert THEN icache[p]
              ELSE [ino |-> file.ino, off |-> file.off, next |-> file.top + 1,
                    epoch |-> epoch]
    IN  /\ At(t, "insertbe")
        /\ icache' = [icache EXCEPT ![p] = be]
        /\ Set(t, [loc[t] EXCEPT !.next = be.next])
        /\ Go(t, "ids")
        /\ UNCHANGED <<disk, pend, ecache, scache, memtable, writer, rew, calls,
                       quits, history>>

(* get_insert_backend: the cached one is kept while its epoch is current.  *)
GetInsert(t) ==
    LET p == ProcOf[t]
        be == IF icache[p].epoch = epoch THEN icache[p]
              ELSE [ino |-> file.ino, off |-> file.off, next |-> file.top + 1,
                    epoch |-> epoch]
    IN  /\ At(t, "insertbe")
        /\ icache' = [icache EXCEPT ![p] = be]
        /\ Set(t, [loc[t] EXCEPT !.next = be.next])
        /\ Go(t, "ids")
        /\ UNCHANGED <<disk, pend, ecache, scache, memtable, writer, rew, calls,
                       quits, history>>

(* reserve_row_ids: load the mark, then compare-and-swap it.               *)
IdLoad(t) ==
    /\ At(t, "ids")
    /\ Set(t, [loc[t] EXCEPT !.mark = hw])
    /\ Go(t, "cas")
    /\ UNCHANGED <<disk, pend, caches, writer, rew, calls, quits, history>>

(* Mutant of Larger: the caller's own next id is not considered.           *)
MarkOnly(a, b) == a

Larger(a, b) == IF a < b THEN b ELSE a

(* Mutant of IdCas: the mark is stored without comparing it.               *)
IdCasBlind(t) ==
    LET base == Larger(loc[t].mark, loc[t].next) IN
    /\ At(t, "cas")
    /\ hw' = base + 1
    /\ issued' = Append(issued, base)
    /\ Set(t, [loc[t] EXCEPT !.row = base])
    /\ Go(t, IF loc[t].op = "buffer" THEN "keep" ELSE "write")
    /\ UNCHANGED <<file, epoch, pend, caches, writer, rew, calls, quits, acked,
                   targeted, gone, forfeited, overwrote>>

IdCas(t) ==
    LET base == Larger(loc[t].mark, loc[t].next) IN
    /\ At(t, "cas")
    /\ \/ /\ hw # loc[t].mark
          /\ Go(t, "ids")
          /\ UNCHANGED <<hw, loc, issued>>
       \/ /\ hw = loc[t].mark
          /\ hw' = base + 1
          /\ issued' = Append(issued, base)
          /\ Set(t, [loc[t] EXCEPT !.row = base])
          /\ Go(t, IF loc[t].op = "buffer" THEN "keep" ELSE "write")
    /\ UNCHANGED <<file, epoch, pend, caches, writer, rew, calls, quits, acked,
                   targeted, gone, forfeited, overwrote>>

(* write_row_group_to_disk: the new row group overwrites the old footer ...*)
AppendTear(t) ==
    LET p == ProcOf[t] IN
    /\ At(t, "write") /\ rew[p] = None
    /\ rew' = [rew EXCEPT ![p] = t]
    /\ file' = [file EXCEPT !.torn = TRUE, !.stamp = @ + 1, !.by = p]
    /\ Go(t, "footer")
    /\ UNCHANGED <<epoch, hw, pend, caches, writer, loc, calls, quits, history>>

(* ... then the new footer and the header that names it are written.       *)
Appended(be, row) ==
    IF <<be.ino, be.off>> = <<file.ino, file.off>>
    THEN [file EXCEPT !.rows = @ \cup {row}, !.off = @ + 1,
                      !.top = Larger(@, row), !.torn = FALSE, !.stamp = @ + 1]
    ELSE [file EXCEPT !.ok = FALSE, !.torn = FALSE, !.stamp = @ + 1]

AppendFooter(t) ==
    LET p == ProcOf[t] IN
    /\ At(t, "footer")
    /\ file' = Appended(icache[p], loc[t].row)
    /\ icache' = [icache EXCEPT ![p].off = @ + 1, ![p].next = loc[t].row + 1]
    /\ rew' = [rew EXCEPT ![p] = None]
    /\ Go(t, "appended")
    /\ UNCHANGED <<epoch, hw, pend, ecache, scache, memtable, writer, loc, calls,
                   quits, history>>

(* invalidate_after_append keeps the insert backend warm.                  *)
InvalidateAfterAppend(t) ==
    /\ At(t, "appended")
    /\ ecache' = [ecache EXCEPT ![ProcOf[t]] = NoEntry]
    /\ Go(t, "publish")
    /\ UNCHANGED <<disk, pend, icache, scache, memtable, writer, rew, loc, calls,
                   quits, history>>

(* The outermost LogicalWrite scope ends: the new epoch is published.      *)
Publish(t) ==
    /\ At(t, "publish")
    /\ epoch' = epoch + 1
    /\ IF loc[t].op = "append"
       THEN /\ Go(t, "refresh")
            /\ UNCHANGED <<loc, writer, gone>>
       ELSE /\ gone' = IF loc[t].data THEN gone \cup {loc[t].row} ELSE gone
            /\ Return(t)
    /\ UNCHANGED <<file, hw, pend, caches, rew, calls, quits, issued, acked,
                   targeted, forfeited, overwrote>>

Refresh(t) ==
    LET p == ProcOf[t] IN
    /\ At(t, "refresh")
    /\ icache' = IF icache[p] = NoInsert THEN icache
                 ELSE [icache EXCEPT ![p].epoch = epoch]
    /\ acked' = acked \cup {loc[t].row}
    /\ Return(t)
    /\ UNCHANGED <<disk, pend, ecache, scache, memtable, rew, calls, quits, issued,
                   targeted, gone, forfeited, overwrote>>

(***************************************************************************)
(* store_one_memtable: the warm backend, opened once and then reused with  *)
(* the rows it saw (opening it applies the deferred delete and fails while *)
(* an append is being written) ...                                         *)
(***************************************************************************)
GetMemtable(t) ==
    LET mt == memtable[ProcOf[t]] IN
    /\ At(t, "memtable")
    /\ \/ /\ mt # NoMemtable
          /\ Set(t, [loc[t] EXCEPT !.next = mt.next])
          /\ Go(t, "ids")
       \/ /\ mt = NoMemtable
          /\ Set(t, [loc[t] EXCEPT !.then = "openmem"])
          /\ Go(t, "apply")
    /\ UNCHANGED <<disk, pend, caches, writer, rew, calls, quits, history>>

OpenMemtable(t) ==
    /\ At(t, "openmem")
    /\ \/ /\ file.torn
          /\ Return(t)
          /\ UNCHANGED memtable
       \/ /\ ~file.torn
          /\ memtable' = [memtable EXCEPT ![ProcOf[t]] =
                             [rows |-> file.rows, next |-> file.top + 1,
                              floor |-> acked \cup 1 .. StartRows, dead |-> gone]]
          /\ Set(t, [loc[t] EXCEPT !.next = file.top + 1])
          /\ Go(t, "ids")
          /\ UNCHANGED writer
    /\ UNCHANGED <<disk, pend, ecache, icache, scache, rew, calls, quits, history>>

(* ... takes the row and publishes an epoch, and is then put into the      *)
(* executor's cache with the file's stamp and the epoch of that moment, not*)
(* of the moment it was opened.                                            *)
Keep(t) ==
    /\ At(t, "keep")
    /\ memtable' = [memtable EXCEPT ![ProcOf[t]].rows = @ \cup {loc[t].row},
                                    ![ProcOf[t]].next = loc[t].row + 1]
    /\ epoch' = epoch + 1
    /\ Set(t, [loc[t] EXCEPT !.stamp = file.stamp])
    /\ Go(t, "register")
    /\ UNCHANGED <<file, hw, pend, ecache, icache, scache, writer, rew, calls, quits,
                   history>>

CacheBackend(t) ==
    /\ At(t, "register")
    /\ scache' = [scache EXCEPT ![ProcOf[t]] =
                     [NoEntry EXCEPT !.mem = TRUE, !.stamp = loc[t].stamp,
                                     !.epoch = epoch]]
    /\ Return(t)
    /\ UNCHANGED <<disk, pend, ecache, icache, memtable, rew, calls, quits, history>>

(***************************************************************************)
(* delete_one: mutate a backend that holds the table, and save it.         *)
(***************************************************************************)
Invalidate(t) ==
    LET p == ProcOf[t] IN
    /\ ecache' = [ecache EXCEPT ![p] = NoEntry]
    /\ icache' = [icache EXCEPT ![p] = NoInsert]
    /\ scache' = IF loc[t].op = "delete" THEN scache
                 ELSE [scache EXCEPT ![p] = NoEntry]
    /\ UNCHANGED memtable

Clear(t) ==
    /\ At(t, "clear")
    /\ Invalidate(t)
    /\ Go(t, "getwrite")
    /\ UNCHANGED <<disk, pend, writer, rew, loc, calls, quits, history>>

(* get_write_backend: a cached backend serves if it is current and holds   *)
(* the rows; one that only maps the file does not (and readers cache no    *)
(* other, so after Clear nothing serves here) ...                          *)
Current(entry, e, stamp) == entry.epoch = e /\ entry.stamp >= stamp

Takes(t, entry) ==
    Set(t, [loc[t] EXCEPT !.view = entry.rows, !.data = entry.data])

GetWrite(t) ==
    LET entry == ecache[ProcOf[t]]
        hit == Current(entry, epoch, file.stamp) /\ entry.data
    IN  /\ At(t, "getwrite")
        /\ IF hit THEN Takes(t, entry) ELSE UNCHANGED loc
        /\ Go(t, IF hit THEN "save" ELSE "recheck")
        /\ UNCHANGED <<disk, pend, caches, writer, rew, calls, quits, history>>

(* ... but under the materialize lock the cache is looked at once more, and*)
(* there any entry of the current epoch serves.                            *)
Recheck(t) ==
    LET entry == ecache[ProcOf[t]] IN
    /\ At(t, "recheck")
    /\ \/ entry.epoch = epoch /\ Takes(t, entry) /\ Go(t, "save")
       \/ entry.epoch # epoch /\ Go(t, "openw") /\ UNCHANGED loc
    /\ UNCHANGED <<disk, pend, caches, writer, rew, calls, quits, history>>

(* open_for_write loads the rows; what was deferred has been applied above.*)
OpenWrite(t) ==
    LET entry == [rows |-> file.rows, data |-> TRUE, stamp |-> file.stamp,
                  epoch |-> epoch, mem |-> FALSE]
    IN  /\ At(t, "openw")
        /\ ecache' = [ecache EXCEPT ![ProcOf[t]] = entry]
        /\ Takes(t, entry)
        /\ Go(t, "save")
        /\ UNCHANGED <<disk, pend, icache, scache, memtable, writer, rew, calls,
                       quits, history>>

(* save: in place up to half of the stored rows deleted, else a rewrite    *)
(* into a new inode; a backend without rows only writes its footer again.  *)
InPlace(rows, p) == [file EXCEPT !.rows = rows, !.stamp = @ + 1, !.by = p]

Rewritten(rows, p) ==
    [file EXCEPT !.rows = rows, !.stamp = @ + 1, !.by = p, !.ino = @ + 1,
                 !.off = Cardinality(rows), !.top = Max(rows),
                 !.old = Append(@, file.rows)]

Saved(c, p) ==
    LET left == c.view \ {c.row} IN
    CASE ~c.data -> InPlace(file.rows, p)
      [] c.data /\ 2 * (file.off - Cardinality(left)) <= file.off -> InPlace(left, p)
      [] OTHER -> Rewritten(left, p)

Save(t) ==
    LET p == ProcOf[t]
        found == loc[t].row \in loc[t].view
    IN  /\ At(t, "save")
        /\ \/ /\ found
              /\ file' = Saved(loc[t], p)
              /\ file'.ino # file.ino => rew[p] = None
              /\ Go(t, "saved")
           \/ ~found /\ Go(t, "missed") /\ UNCHANGED file
        /\ UNCHANGED <<epoch, hw, pend, caches, writer, rew, loc, calls, quits,
                       history>>

(* The caches are dropped again; only a delete that found its row commits. *)
ClearAfter(t) ==
    /\ \/ At(t, "saved") /\ Go(t, "publish") /\ UNCHANGED <<loc, writer>>
       \/ At(t, "missed") /\ Return(t)
    /\ Invalidate(t)
    /\ UNCHANGED <<disk, pend, rew, calls, quits, history>>

(***************************************************************************)
(* SQL DELETE: by row id the deletion vectors are written in place; by a   *)
(* numeric range the writes are deferred to the process's pending map, and *)
(* no epoch is published.                                                  *)
(***************************************************************************)
OpenDelete(t) ==
    /\ At(t, "open") /\ loc[t].op \in Deletes
    /\ Set(t, [loc[t] EXCEPT !.view = file.rows, !.data = TRUE])
    /\ Go(t, IF loc[t].row \notin file.rows THEN "none"
             ELSE IF loc[t].op = "sqldelete" THEN "defer" ELSE "inplace")
    /\ UNCHANGED <<disk, pend, caches, writer, rew, calls, quits, history>>

Defer(t) ==
    LET view == loc[t].view \ {loc[t].row} IN
    /\ At(t, "defer")
    /\ pend' = [pend EXCEPT ![ProcOf[t]] =
                   [gone |-> {loc[t].row}, view |-> view, ino |-> file.ino,
                    off |-> file.off, stamp |-> file.stamp]]
    /\ Go(t, "missed")
    /\ UNCHANGED <<disk, caches, writer, rew, loc, calls, quits, history>>

DeleteInPlace(t) ==
    /\ At(t, "inplace")
    /\ file' = InPlace(loc[t].view \ {loc[t].row}, ProcOf[t])
    /\ Go(t, "saved")
    /\ UNCHANGED <<epoch, hw, pend, caches, writer, rew, loc, calls, quits,
                   history>>

(* Nothing matched: the statement leaves the caches alone.                 *)
NothingDeleted(t) ==
    /\ At(t, "none")
    /\ Return(t)
    /\ UNCHANGED <<disk, pend, caches, rew, calls, quits, history>>

(***************************************************************************)
(* The two read paths: get_read_backend and the executor's                 *)
(* get_cached_backend.  The epoch is read before anything else.            *)
(***************************************************************************)
ReadEpoch(t) ==
    /\ At(t, "epoch")
    /\ Set(t, [loc[t] EXCEPT !.epoch = epoch])
    /\ Go(t, "stat")
    /\ UNCHANGED <<disk, pend, caches, writer, rew, calls, quits, history>>

CacheOf(t) == IF loc[t].op = "read" THEN ecache[ProcOf[t]] ELSE scache[ProcOf[t]]

(* The cached backend answers; one with buffered rows shows them as well.  *)
CachedRows(t) ==
    IF CacheOf(t).mem THEN memtable[ProcOf[t]].rows ELSE CacheOf(t).rows

Serves(t) ==
    Set(t, [loc[t] EXCEPT !.view = CachedRows(t), !.data = CacheOf(t).data,
                          !.mem = CacheOf(t).mem])

(* The executor trusts the epoch alone for half a second after an access.  *)
Hot(t) == loc[t].op = "sqlread" /\ CacheOf(t).epoch = loc[t].epoch

ReadCached(t) ==
    /\ At(t, "stat")
    /\ Hot(t) \/ Current(CacheOf(t), loc[t].epoch, file.stamp)
    /\ Serves(t)
    /\ Go(t, "done")
    /\ UNCHANGED <<disk, pend, caches, writer, rew, calls, quits, history>>

(* A backend with buffered rows is never given up for a newer epoch: it is *)
(* tagged with that epoch and serves on, with the rows it was opened with. *)
Adopts(t) == CacheOf(t).mem /\ CacheOf(t).epoch # loc[t].epoch

ReadAdopts(t) ==
    /\ At(t, "stat") /\ Adopts(t)
    /\ scache' = [scache EXCEPT ![ProcOf[t]].epoch = loc[t].epoch,
                                ![ProcOf[t]].stamp = file.stamp]
    /\ Serves(t)
    /\ Go(t, "done")
    /\ UNCHANGED <<disk, pend, ecache, icache, memtable, writer, rew, calls, quits,
                   history>>

(* The executor opens the file and reads its stamp here.                   *)
ReadMiss(t) ==
    /\ At(t, "stat")
    /\ ~Current(CacheOf(t), loc[t].epoch, file.stamp) /\ ~Adopts(t)
    /\ Set(t, [loc[t] EXCEPT !.stamp = file.stamp, !.ino = file.ino, !.then = "open"])
    /\ Go(t, "apply")
    /\ UNCHANGED <<disk, pend, caches, writer, rew, calls, quits, history>>

(* The inode this reader has open: the engine, and the executor when it    *)
(* tries again, open by path only now.                                     *)
Opens(t) == IF loc[t].op = "read" \/ At(t, "reopen") THEN file.ino ELSE loc[t].ino
Tearing(t) == file.torn /\ Opens(t) = file.ino

OpenRead(t) ==
    /\ pc[t] \in {"open", "reopen"} /\ loc[t].op \in Readers /\ ~Tearing(t)
    /\ Set(t, [loc[t] EXCEPT !.view = IF Opens(t) = file.ino THEN file.rows
                                      ELSE file.old[Opens(t) + 1]])
    /\ Go(t, "cache")
    /\ UNCHANGED <<disk, pend, caches, writer, rew, calls, quits, history>>

(* Footer and header disagree: the executor falls back on whatever it has  *)
(* cached, else opens the file once more before the call fails.            *)
OpenFails(t) ==
    /\ pc[t] \in {"open", "reopen"} /\ loc[t].op \in Readers /\ Tearing(t)
    /\ CASE loc[t].op = "sqlread" /\ At(t, "open") /\ CacheOf(t) # NoEntry ->
              /\ Set(t, [loc[t] EXCEPT !.view = CachedRows(t), !.fell = TRUE])
              /\ Go(t, "done")
              /\ UNCHANGED writer
         [] loc[t].op = "sqlread" /\ At(t, "open") /\ CacheOf(t) = NoEntry ->
              Go(t, "reopen") /\ UNCHANGED <<loc, writer>>
         [] OTHER -> Return(t)
    /\ UNCHANGED <<disk, pend, caches, rew, calls, quits, history>>

(* Mutant of Tag: the epoch is read again when the entry is stored.        *)
TagLate(t) == epoch

(* The entry is tagged with the epoch read at the start of the call.       *)
Tag(t) == loc[t].epoch

CacheRead(t) ==
    LET p == ProcOf[t]
        entry(stamp) == [rows |-> loc[t].view, data |-> FALSE, stamp |-> stamp,
                         epoch |-> Tag(t), mem |-> FALSE]
    IN  /\ At(t, "cache")
        /\ IF loc[t].op = "read"
           THEN /\ ecache' = [ecache EXCEPT ![p] = entry(file.stamp)]
                /\ UNCHANGED scache
           ELSE /\ scache' = [scache EXCEPT ![p] = entry(loc[t].stamp)]
                /\ UNCHANGED ecache
        /\ Go(t, "done")
        /\ UNCHANGED <<disk, pend, icache, memtable, writer, rew, loc, calls, quits,
                       history>>

Done(t) ==
    /\ At(t, "done")
    /\ Return(t)
    /\ UNCHANGED <<disk, pend, caches, rew, calls, quits, history>>

(* The process ends between calls; what was only in its memory is lost.    *)
Quit(p) ==
    /\ quits < MaxQuits
    /\ \A t \in Threads : ProcOf[t] = p => At(t, "idle")
    /\ ecache' = [ecache EXCEPT ![p] = NoEntry]
    /\ icache' = [icache EXCEPT ![p] = NoInsert]
    /\ scache' = [scache EXCEPT ![p] = NoEntry]
    /\ memtable' = [memtable EXCEPT ![p] = NoMemtable]
    /\ forfeited' = forfeited \cup pend[p].gone
    /\ pend' = [pend EXCEPT ![p] = NoPend]
    /\ quits' = quits + 1
    /\ UNCHANGED <<disk, writer, rew, pc, loc, calls, issued, acked, targeted,
                   gone, overwrote>>

Step(t) ==
    \/ Lock(t) \/ ApplyCheck(t) \/ ApplyWrite(t)
    \/ GetInsert(t) \/ IdLoad(t) \/ IdCas(t) \/ AppendTear(t) \/ AppendFooter(t)
    \/ InvalidateAfterAppend(t) \/ Publish(t) \/ Refresh(t)
    \/ GetMemtable(t) \/ OpenMemtable(t) \/ Keep(t) \/ CacheBackend(t)
    \/ Clear(t) \/ GetWrite(t) \/ Recheck(t) \/ OpenWrite(t) \/ Save(t)
    \/ ClearAfter(t) \/ OpenDelete(t) \/ Defer(t) \/ DeleteInPlace(t)
    \/ NothingDeleted(t)
    \/ ReadEpoch(t) \/ ReadCached(t) \/ ReadAdopts(t) \/ ReadMiss(t)
    \/ OpenRead(t) \/ OpenFails(t) \/ CacheRead(t) \/ Done(t)

Next ==
    \/ \E t \in Threads : Begin(t) \/ Step(t)
    \/ \E p \in Procs : Quit(p)

Spec == Init /\ [][Next]_vars

(***************************************************************************)
(* Properties.                                                             *)
(***************************************************************************)
Stamps == 0 .. 3 * MaxCalls
Epochs == 0 .. MaxCalls
Entries == [rows : SUBSET Rows, data : BOOLEAN, stamp : Stamps \cup {-1},
            epoch : Epochs \cup {-1}, mem : BOOLEAN]

(* Type invariant: the stamp moves at most three times per call (a deferred*)
(* delete and the two writes of an append), the epoch at most once.        *)
TypeOK ==
    /\ file.rows \subseteq Rows /\ file.rows # {}
    /\ file.stamp \in Stamps /\ file.by \in Procs \cup {None}
    /\ epoch \in Epochs /\ hw \in 0 .. StartRows + MaxCalls + 1
    /\ ecache \in [Procs -> Entries] /\ scache \in [Procs -> Entries]
    /\ \A p \in Procs : memtable[p].rows \subseteq Rows
    /\ writer \in Threads \cup {None} /\ rew \in [Procs -> Threads \cup {None}]
    /\ \A t \in Threads : loc[t].view \subseteq Rows

(* The footer offset and inode a warm insert backend remembers are those of*)
(* the file whenever a row group is about to overwrite that footer: no     *)
(* other process's append, rewrite or delete goes unnoticed                *)
(* (get_insert_backend trusts its entry on the epoch alone).               *)
AppendFindsFooter ==
    \A t \in Threads : pc[t] \in {"write", "footer"} =>
        <<icache[ProcOf[t]].ino, icache[ProcOf[t]].off>> = <<file.ino, file.off>>

(* A row whose insert returned, and a row of the original table, stays in  *)
(* the file until some delete names it, whatever other processes append,   *)
(* rewrite or apply late; the one exception is a deferred delete written   *)
(* over a file that another process changed after the snapshot check.      *)
CommittedRowsKept ==
    overwrote \/ (file.ok /\ (acked \cup 1 .. StartRows) \ targeted \subseteq file.rows)

(* What the backend that served a read owes it: what had returned before    *)
(* the read began, or before a backend with buffered rows was opened.      *)
Owed(t) == IF loc[t].mem THEN memtable[ProcOf[t]] ELSE loc[t]

(* A read that begins after an append returned, in whichever process,      *)
(* serves the appended row, and one that begins after a written delete     *)
(* returned does not serve the deleted row: no cached backend of either    *)
(* read path is out of date, though its process was never told to drop it. *)
(* Two reads of the executor (get_cached_backend) are owed less.  One that *)
(* found the file in the middle of an append may fall back on any cached   *)
(* backend.  One served by a backend that holds buffered rows, which is    *)
(* kept across epochs, sees the table as it was when its process opened    *)
(* that backend.  A deferred delete written over another process's change  *)
(* (overwrote) ends what is promised here, as it does above, and a row that*)
(* some delete names, finished or not, need not be served.                 *)
ReadsAreCurrent ==
    \A t \in Threads : At(t, "done") /\ ~loc[t].fell /\ ~overwrote =>
        /\ Owed(t).floor \ targeted \subseteq loc[t].view
        /\ (Owed(t).dead \ Range(issued)) \cap loc[t].view = {}

(* reserve_row_ids never hands out an id twice, to appends of two processes*)
(* or to rows buffered without a lock.  Each id is reserved by itself: the *)
(* block that one backend reserves ahead (ensure_id_block) is left out.    *)
UniqueIds == IsInjective(issued)

(* The id of a row that predates the shared mark (a table written before the*)
(* sidecar existed) is handed out only if that row was deleted: the caller's*)
(* own next id is the floor of every reservation.                          *)
IdsAboveTable == Range(issued) \cap 1 .. StartRows \subseteq targeted

(* While a thread writes a deferred delete back, no thread of its own      *)
(* process has changed the file since the snapshot check: the rewrite lock *)
(* of apply_pending_deletes and write_row_group_to_disk.                   *)
OwnWritesNotOverwritten ==
    \A t \in Threads : At(t, "applying") =>
        Describes(pend[ProcOf[t]]) \/ file.by # ProcOf[t]

(* A deferred delete is thrown away only when its process ends or when     *)
(* another process was the last to change the file: every change made by   *)
(* the process itself applies it first.                                    *)
OwnDeferredDeletesApplied ==
    [][forfeited' # forfeited =>
         \/ quits' # quits
         \/ \E p \in Procs : pend'[p] # pend[p] /\ file.by # p]_vars

(* Stated by the comment in get_write_backend and by the release notes: a  *)
(* writer never mutates a backend that only maps the file.                 *)
WriterHoldsData == \A t \in Threads : At(t, "save") => loc[t].data

=============================================================================
