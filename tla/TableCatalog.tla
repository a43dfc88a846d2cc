---------------------------- MODULE TableCatalog ----------------------------
(***************************************************************************)
(* The registry of a database directory's tables: the memory-mapped slots  *)
(* of .apex_tables, the lock file .apex_tables.lock, the lazy schemas of   *)
(* .apex_schemas and the deferred deletion of dropped table files          *)
(* (storage/table_catalog.rs), driven by CREATE TABLE, CREATE TABLE AS     *)
(* SELECT, DROP TABLE, first accesses and client closes.                   *)
(*                                                                         *)
(* Processes share the files.  The threads of one process share its        *)
(* mapping, the descriptor of the lock file in it and the registry cache.  *)
(* The file lock belongs to the open file description, so it is named      *)
(* after the mapping that owns the descriptor: a second lock through the   *)
(* same mapping succeeds at once, and one unlock frees it.                 *)
(*                                                                         *)
(* Writing through the mapping may move the file's mtime or not (one clock *)
(* tick may cover both), so a write makes every mapping stale or none.     *)
(***************************************************************************)
EXTENDS Integers, FiniteSets, FiniteSetsExt

CONSTANTS
    Processes,
    Threads,
    ProcessOf,      \* the process of a thread
    Calls,          \* the statements a thread issues
    Names,          \* table names
    Capacity,       \* slots of the catalog (DEFAULT_CAPACITY)
    Backlog,        \* queued deletions that trigger a drain
    Mappings,       \* open descriptions of the lock file, each with its mapping
    StartTables,    \* tables at the start
    MaxCalls,       \* statements in all
    MaxFiles,       \* table files created
    Mortal,         \* the processes that may die
    MaxDeaths,      \* deaths in all
    None

ASSUME CatalogAssumption ==
    /\ ProcessOf \in [Threads -> Processes]
    /\ Calls \in [Threads -> SUBSET {"create", "ctas", "drop", "drop_table", "access",
                                     "close"}]
    /\ None \notin Names \union Mappings
    /\ Capacity \in Nat \ {0} /\ Backlog \in Nat \ {0}
    /\ StartTables \in Nat /\ Mortal \subseteq Processes
    /\ MaxCalls \in Nat /\ MaxFiles \in Nat /\ MaxDeaths \in Nat

VARIABLES
    pc,        \* where a thread stands
    call,      \* its statement, the table it names and the table it selects from
    m,         \* the mapping whose lock it takes or holds
    outer,     \* the mapping a CREATE ... AS holds while its SELECT looks a table up
    found,     \* insert: the tables seen, the slot found and the new last slot
    target,    \* drain: the table whose file is about to be unlinked
    made,      \* .apex_tables exists
    slots, lastSlot, count, generation,
    schemas,   \* the tables with a record in .apex_schemas
    files,     \* per table: the file (0: none; a new file is a new number)
    lock,      \* the mapping that has the lock on .apex_tables.lock
    mapped,    \* per process: CATALOGS
    cache,     \* per process: REGISTRY_CACHE
    pending,   \* per process: PENDING_DELETIONS, a file per table
    stale,     \* the mappings whose mtime differs from the file's
    adopts,    \* the mapping with adopt_existing_files
    calls, deaths,
    overlap,   \* two threads were inside the registry lock at once, neither a lookup
    torn,      \* a process died between a slot and the header
    promised,  \* the statement that created a table and has returned
    dropped,   \* the tables whose DROP has returned, not created since
    bare,      \* the directory came without a catalog
    legacy,    \* the tables it came with then
    raced      \* drains whose file another process removed since they checked it

threadVars == <<pc, call, m, outer, found, target, raced>>
catalogVars == <<made, slots, lastSlot, count, generation>>
mappingVars == <<lock, mapped, stale, adopts>>
historyVars == <<overlap, torn, promised, dropped, bare, legacy>>
vars == <<threadVars, catalogVars, schemas, files, mappingVars, cache, pending, calls,
          deaths, historyVars>>

P(t) == ProcessOf[t]

At(t, where) == pc[t] = where

Goto(t, where) == pc' = [pc EXCEPT ![t] = where]

Kind(t) == call[t].kind

Table(t) == call[t].table

Index == 0 .. Capacity - 1

NoCall == [kind |-> "close", table |-> None, source |-> None]

NoTables == [tables |-> {}, slot |-> 0, last |-> 0]

NoCache == [map |-> None, generation |-> 0, tables |-> {}]

\* The next file of a table: its fingerprint differs from those in use or queued.
NewFile(n) ==
    CHOOSE f \in 1 .. MaxFiles : f # files[n] /\ \A p \in Processes : pending[p][n] # f

(***************************************************************************)
(* A directory with a catalog, its tables created with a file and a        *)
(* schema, or a directory of a build without catalogs, whose table files   *)
(* are the only list of its tables.                                        *)
(***************************************************************************)
Init ==
    /\ pc = [t \in Threads |-> "idle"]
    /\ call = [t \in Threads |-> NoCall]
    /\ m = [t \in Threads |-> None]
    /\ outer = [t \in Threads |-> None]
    /\ found = [t \in Threads |-> NoTables]
    /\ target = [t \in Threads |-> None]
    /\ made \in BOOLEAN
    /\ \E start \in SUBSET Names, place \in [Index -> Names \union {None}] :
         /\ Cardinality(start) <= StartTables
         /\ files = [n \in Names |-> IF n \in start THEN 1 ELSE 0]
         /\ schemas = IF made THEN start ELSE {}
         /\ \A i \in Index : place[i] # None <=> i < Cardinality(schemas)
         /\ {place[i] : i \in Index} \ {None} = schemas
         /\ slots = place
    /\ lastSlot = Max({0, Cardinality(schemas) - 1})
    /\ count = Cardinality(schemas) /\ generation = count
    /\ lock = None
    /\ mapped = [p \in Processes |-> None]
    /\ cache = [p \in Processes |-> NoCache]
    /\ pending = [p \in Processes |-> [n \in Names |-> 0]]
    /\ stale = {} /\ adopts = None
    /\ calls = 0 /\ deaths = 0
    /\ overlap = FALSE /\ torn = FALSE
    /\ promised = [n \in Names |-> IF n \in schemas THEN "create" ELSE "no"]
    /\ dropped = {}
    /\ bare = ~made
    /\ legacy = {n \in Names : bare /\ files[n] # 0}
    /\ raced = {}

-----------------------------------------------------------------------------
(* The mapped slots. *)

\* MappedCatalog::scan: the names in the slots up to last_slot.
Scan == {slots[i] : i \in {j \in Index : j <= lastSlot}} \ {None}

\* snapshot_from_catalog: the cached names while generation and mapping agree.
Cached(t) == cache[P(t)].map = m[t] /\ cache[P(t)].generation = generation

Snapshot(t) == IF Cached(t) THEN cache[P(t)].tables ELSE Scan

Remember(t, g, tables) ==
    [cache EXCEPT ![P(t)] = [map |-> m[t], generation |-> g, tables |-> tables]]

\* find_free_slot, or the slot after the last one; None when the catalog is full.
FindSlot(used, last) ==
    LET free == {i \in Index : i <= last /\ used[i] = None}
    IN  IF free # {} THEN Min(free)
        ELSE IF last + 1 \in Index THEN last + 1 ELSE None

\* Mutant: a backfilled name is not counted.
PlaceSlotUncounted(name, st) ==
    LET slot == FindSlot(st.slots, st.last)
    IN  IF st.full \/ slot = None THEN [st EXCEPT !.full = TRUE]
        ELSE [st EXCEPT !.slots[slot] = name, !.last = Max({@, slot})]

\* The slots and the header after one name is placed; full is the error exit.
PlaceSlot(name, st) ==
    LET slot == FindSlot(st.slots, st.last)
    IN  IF st.full \/ slot = None THEN [st EXCEPT !.full = TRUE]
        ELSE [st EXCEPT !.slots[slot] = name, !.last = Max({@, slot}), !.count = @ + 1]

(***************************************************************************)
(* persist_tables: the backfilled names are written to the slots; the      *)
(* header follows unless the catalog ran full, and an empty backfill       *)
(* writes nothing.                                                         *)
(***************************************************************************)
Persisted(names) ==
    FoldSet(PlaceSlot, [slots |-> slots, last |-> lastSlot, count |-> count, full |-> FALSE],
            names)

\* scan_apex_files.
OnDisk == {n \in Names : files[n] # 0}

\* Mutant: an empty registry always adopts the table files.
BackfillsWhenEmpty(t) == Snapshot(t) = {}

\* An empty registry that this process has created adopts the table files.
Backfills(t) == Snapshot(t) = {} /\ adopts = m[t]

\* CatalogLock::remove shrinks last_slot past trailing empty slots.
Shrunk(used, last) == Max({0} \union {i \in Index : i <= last /\ used[i] # None})

\* A write through the mapping: it moves the mtime of the file, or does not.
Live == {m[t] : t \in Threads} \union {outer[t] : t \in Threads}
        \union {mapped[p] : p \in Processes} \union {cache[p].map : p \in Processes}
        \union {lock}

Written == stale' \in {stale, Live \ {None}}

-----------------------------------------------------------------------------
(* The registry lock. *)

Fresh == CHOOSE d \in Mappings : d \notin Live

Usable(p) == mapped[p] # None /\ mapped[p] \notin stale

\* A thread inside the lock: it has a CatalogLock, or a CREATE ... AS believes so.
Inside(t) == outer[t] # None \/ (m[t] # None /\ pc[t] \notin {"flock", "open"})

\* The lock is granted: a lookup reads the registry, a statement checks its name.
Entered(t) ==
    /\ Goto(t, IF Kind(t) = "access" \/ outer[t] # None THEN "resolve" ELSE "check")
    /\ overlap' = (overlap \/ (/\ Kind(t) # "access"
                               /\ \E u \in Threads \ {t} : Inside(u) /\ Kind(u) # "access"))

\* A statement starts.  An access to a table with a file never asks the registry.
Begin(t) ==
    /\ At(t, "idle")
    /\ calls < MaxCalls
    /\ calls' = calls + 1
    /\ \E kind \in Calls[t], n, s \in Names \union {None} :
         /\ n = None <=> kind = "close"
         /\ s # None => kind = "ctas" /\ s # n
         /\ kind = "access" => made /\ files[n] = 0
         /\ call' = [call EXCEPT ![t] = [kind |-> kind, table |-> n, source |-> s]]
         /\ Goto(t, IF kind = "close" THEN "drain" ELSE "pick")
    /\ UNCHANGED <<m, outer, found, target, raced, catalogVars, schemas, files, mappingVars,
                   cache, pending, deaths, historyVars>>

\* lock: the cached mapping while its file is unchanged, or a new descriptor.
Pick(t) ==
    /\ At(t, "pick")
    /\ \/ /\ Usable(P(t))
          /\ m' = [m EXCEPT ![t] = mapped[P(t)]]
          /\ Goto(t, "flock")
          /\ UNCHANGED stale
       \/ /\ ~Usable(P(t))
          /\ m' = [m EXCEPT ![t] = Fresh]
          /\ stale' = stale \ {Fresh}
          /\ Goto(t, "open")
    /\ UNCHANGED <<call, outer, found, target, raced, catalogVars, schemas, files, lock, mapped,
                   adopts, cache, pending, calls, deaths, historyVars>>

\* CatalogLock::new: the descriptor of the mapping already has the lock, or gets it.
Flock(t) ==
    /\ At(t, "flock")
    /\ lock \in {None, m[t]}
    /\ lock' = m[t]
    /\ Entered(t)
    /\ UNCHANGED <<call, m, outer, found, target, raced, catalogVars, schemas, files, mapped,
                   stale, adopts, cache, pending, calls, deaths, torn, promised, dropped,
                   bare, legacy>>

(***************************************************************************)
(* The new descriptor gets the lock.  A mapping made meanwhile is used     *)
(* instead; otherwise ensure_mapped maps the catalog, which it creates     *)
(* when the directory has none: then its table files may be adopted.       *)
(***************************************************************************)
Open(t) ==
    /\ At(t, "open")
    /\ lock = None
    /\ \/ /\ Usable(P(t))
          /\ m' = [m EXCEPT ![t] = mapped[P(t)]]
          /\ Goto(t, "flock")
          /\ UNCHANGED <<made, lock, mapped, adopts, cache, overlap>>
       \/ /\ ~Usable(P(t))
          /\ lock' = m[t]
          /\ mapped' = [mapped EXCEPT ![P(t)] = m[t]]
          /\ cache' = IF mapped[P(t)] = None THEN cache ELSE [cache EXCEPT ![P(t)] = NoCache]
          /\ made' = TRUE
          /\ adopts' = IF ~made THEN m[t] ELSE IF adopts = m[t] THEN None ELSE adopts
          /\ Entered(t)
          /\ UNCHANGED m
    /\ UNCHANGED <<call, outer, found, target, raced, slots, lastSlot, count, generation,
                   schemas, files, stale, pending, calls, deaths, torn, promised, dropped,
                   bare, legacy>>

\* Mutant: the guard of a failed statement keeps the lock.
UnlockLeaks(t) ==
    /\ pc[t] \in {"unlock", "commit", "leave", "giveup"}
    /\ lock' = IF lock = m[t] /\ ~At(t, "unlock") THEN None ELSE lock
    /\ m' = [m EXCEPT ![t] = outer[t]]
    /\ outer' = [outer EXCEPT ![t] = None]
    /\ Goto(t, CASE At(t, "leave") -> "make" [] At(t, "giveup") -> "unlock" [] OTHER -> "idle")
    /\ call' = IF pc'[t] = "idle" THEN [call EXCEPT ![t] = NoCall] ELSE call
    /\ UNCHANGED <<found, target, raced, catalogVars, schemas, files, mapped, stale,
                   adopts, cache, pending, calls, deaths, historyVars>>

(***************************************************************************)
(* The guard is dropped, whoever else is inside through the same mapping.  *)
(* A lookup goes on with its table, a statement returns.                   *)
(***************************************************************************)
Unlock(t) ==
    /\ pc[t] \in {"unlock", "commit", "leave", "giveup"}
    /\ lock' = IF lock = m[t] THEN None ELSE lock
    /\ m' = [m EXCEPT ![t] = outer[t]]
    /\ outer' = [outer EXCEPT ![t] = None]
    /\ Goto(t, CASE At(t, "leave") -> "make" [] At(t, "giveup") -> "unlock" [] OTHER -> "idle")
    /\ call' = IF pc'[t] = "idle" THEN [call EXCEPT ![t] = NoCall] ELSE call
    /\ promised' = IF At(t, "commit") /\ Kind(t) \in {"create", "ctas"}
                   THEN [promised EXCEPT ![Table(t)] = Kind(t)] ELSE promised
    /\ dropped' = IF At(t, "commit") /\ Kind(t) \in {"drop", "drop_table"}
                  THEN dropped \union {Table(t)} ELSE dropped
    /\ UNCHANGED <<found, target, raced, catalogVars, schemas, files, mapped, stale,
                   adopts, cache, pending, calls, deaths, overlap, torn, bare, legacy>>

-----------------------------------------------------------------------------
(* CREATE TABLE and CREATE TABLE ... AS SELECT. *)

\* PENDING_DELETIONS.retain holds the entry while a drain unlinks its file.
Draining(p, n) == \E u \in Threads : P(u) = p /\ At(u, "unlink") /\ target[u] = n

\* The drains of other processes whose checked file changes under them.
Outrun(t, n) == {u \in Threads : P(u) # P(t) /\ At(u, "unlink") /\ target[u] = n}

Unqueue(p, n) == [pending EXCEPT ![p][n] = 0]

NextOf(t) == IF Kind(t) = "create" THEN "find" ELSE "select"

\* The name is checked; the file of an unregistered name is reaped.
CheckCreate(t) ==
    /\ At(t, "check") /\ Kind(t) \in {"create", "ctas"}
    /\ cache' = Remember(t, generation, Snapshot(t))
    /\ \/ /\ Table(t) \in Snapshot(t)
          /\ Goto(t, "unlock")
          /\ UNCHANGED <<files, pending, raced>>
       \/ /\ Table(t) \notin Snapshot(t) /\ files[Table(t)] = 0
          /\ Goto(t, NextOf(t))
          /\ UNCHANGED <<files, pending, raced>>
       \/ /\ Table(t) \notin Snapshot(t) /\ files[Table(t)] # 0
          /\ ~Draining(P(t), Table(t))
          /\ pending' = Unqueue(P(t), Table(t))
          /\ files' = [files EXCEPT ![Table(t)] = 0]
          /\ raced' = raced \union Outrun(t, Table(t))
          /\ Goto(t, NextOf(t))
    /\ UNCHANGED <<call, m, outer, found, target, catalogVars, schemas, mappingVars, calls,
                   deaths, historyVars>>

\* A repeated column, or a query that fails: the statement ends after the reap.
CreateFails(t) ==
    /\ pc[t] \in {"find", "select"}
    /\ Goto(t, "unlock")
    /\ UNCHANGED <<call, m, outer, found, target, raced, catalogVars, schemas, files,
                   mappingVars, cache, pending, calls, deaths, historyVars>>

SourceReadable(t) == call[t].source # None => files[call[t].source] # 0

\* The SELECT of a CREATE ... AS: a table without a file is looked up in the registry.
Select(t) ==
    /\ At(t, "select")
    /\ \/ /\ SourceReadable(t)
          /\ Goto(t, "build")
          /\ UNCHANGED <<m, outer>>
       \/ /\ ~SourceReadable(t)
          /\ outer' = [outer EXCEPT ![t] = m[t]]
          /\ m' = [m EXCEPT ![t] = None]
          /\ Goto(t, "pick")
    /\ UNCHANGED <<call, found, target, raced, catalogVars, schemas, files, mappingVars, cache,
                   pending, calls, deaths, historyVars>>

\* TableStorageBackend::create: a new file takes the place of any other.
Build(t) ==
    /\ At(t, "build")
    /\ files' = [files EXCEPT ![Table(t)] = NewFile(Table(t))]
    /\ raced' = raced \union Outrun(t, Table(t))
    /\ Goto(t, "find")
    /\ UNCHANGED <<call, m, outer, found, target, catalogVars, schemas, mappingVars, cache,
                   pending, calls, deaths, historyVars>>

(***************************************************************************)
(* insert up to the choice of the slot: the first mutation of a catalog    *)
(* this process has just created adopts the table files of the directory,  *)
(* except the file of the new table itself.                                *)
(***************************************************************************)
Find(t) ==
    /\ At(t, "find")
    /\ LET names == IF Backfills(t) THEN OnDisk \ {Table(t)} ELSE Snapshot(t)
           st == Persisted(IF Backfills(t) THEN names ELSE {})
           bumps == Backfills(t) /\ names # {} /\ ~st.full
           slot == FindSlot(st.slots, st.last)
       IN  /\ slots' = st.slots
           /\ lastSlot' = IF bumps THEN st.last ELSE lastSlot
           /\ count' = IF bumps THEN st.count ELSE count
           /\ generation' = IF bumps THEN generation + 1 ELSE generation
           /\ IF bumps THEN Written ELSE UNCHANGED stale
           /\ cache' = Remember(t, generation, Snapshot(t))
           /\ IF st.full \/ Table(t) \in names \/ slot = None
              THEN Goto(t, "unlock") /\ UNCHANGED found
              ELSE /\ found' = [found EXCEPT ![t] = [tables |-> names, slot |-> slot,
                                                     last |-> Max({lastSlot', slot})]]
                   /\ Goto(t, "write")
    /\ UNCHANGED <<call, m, outer, target, raced, made, schemas, files, lock, mapped, adopts,
                   pending, calls, deaths, overlap, torn, promised, dropped, bare, legacy>>

\* insert: the slot is written.
Write(t) ==
    /\ At(t, "write")
    /\ slots' = [slots EXCEPT ![found[t].slot] = Table(t)]
    /\ Written
    /\ dropped' = dropped \ {Table(t)}
    /\ Goto(t, "insert_header")
    /\ UNCHANGED <<call, m, outer, found, target, raced, made, lastSlot, count, generation,
                   schemas, files, lock, mapped, adopts, cache, pending, calls, deaths,
                   overlap, torn, promised, bare, legacy>>

\* The end of adopt_existing_files: a mutation went through its mapping.
Mutated(t) == adopts' = IF adopts = m[t] THEN None ELSE adopts

\* insert: last_slot, entry_count and the generation follow, then the cache.
InsertHeader(t) ==
    /\ At(t, "insert_header")
    /\ lastSlot' = found[t].last
    /\ count' = count + 1
    /\ generation' = generation + 1
    /\ cache' = Remember(t, generation + 1, found[t].tables \union {Table(t)})
    /\ Mutated(t)
    /\ found' = [found EXCEPT ![t] = NoTables]
    /\ Goto(t, IF Kind(t) = "create" THEN "schema" ELSE "commit")
    /\ UNCHANGED <<call, m, outer, target, raced, made, slots, schemas, files, lock, mapped,
                   stale, pending, calls, deaths, historyVars>>

\* set_schema; when it fails the registration is taken back.
SetSchema(t) ==
    /\ At(t, "schema")
    /\ \/ schemas' = schemas \union {Table(t)} /\ Goto(t, "commit")
       \/ schemas' = schemas /\ Goto(t, "undo")
    /\ UNCHANGED <<call, m, outer, found, target, raced, catalogVars, files, mappingVars, cache,
                   pending, calls, deaths, historyVars>>

-----------------------------------------------------------------------------
(* DROP TABLE, drop_table and the deferred deletions. *)

\* SQL looks first; a table that is neither listed nor on disk is an error.
CheckDrop(t) ==
    /\ At(t, "check") /\ Kind(t) \in {"drop", "drop_table"}
    /\ cache' = Remember(t, generation, Snapshot(t))
    /\ Goto(t, IF Kind(t) = "drop_table" \/ Table(t) \in Snapshot(t) THEN "remove"
               ELSE IF files[Table(t)] = 0 THEN "unlock" ELSE "queue")
    /\ UNCHANGED <<call, m, outer, found, target, raced, catalogVars, schemas, files,
                   mappingVars, pending, calls, deaths, historyVars>>

AfterRemove(t) == IF At(t, "undo") THEN "unlock" ELSE "unschema"

(***************************************************************************)
(* CatalogLock::remove.  Without a slot of its own the table of a backfill *)
(* is left out of what is persisted; otherwise its slot is cleared first.  *)
(***************************************************************************)
Remove(t) ==
    /\ pc[t] \in {"remove", "undo"}
    /\ LET names == (IF Backfills(t) THEN OnDisk ELSE Snapshot(t)) \ {Table(t)}
           st == Persisted(names)
       IN  \/ /\ ~Backfills(t) /\ Table(t) \in Snapshot(t)
              /\ slots' = [i \in Index |-> IF slots[i] = Table(t) /\ i <= lastSlot
                                           THEN None ELSE slots[i]]
              /\ found' = [found EXCEPT ![t] = [NoTables EXCEPT !.tables = names]]
              /\ cache' = Remember(t, generation, Snapshot(t))
              /\ Mutated(t)
              /\ Written
              /\ Goto(t, IF At(t, "undo") THEN "undo_header" ELSE "remove_header")
              /\ promised' = [promised EXCEPT ![Table(t)] = "no"]
              /\ UNCHANGED <<lastSlot, count, generation>>
           \/ /\ Backfills(t) /\ Table(t) \in OnDisk
              /\ slots' = st.slots
              /\ IF names = {} \/ st.full
                 THEN UNCHANGED <<lastSlot, count, generation, stale>>
                 ELSE /\ lastSlot' = st.last /\ count' = st.count
                      /\ generation' = generation + 1
                      /\ Written
              /\ IF st.full THEN Goto(t, "unlock") /\ UNCHANGED <<adopts, cache>>
                 ELSE /\ Goto(t, AfterRemove(t))
                      /\ Mutated(t)
                      /\ cache' = Remember(t, generation', names)
              /\ promised' = [promised EXCEPT ![Table(t)] = "no"]
              /\ UNCHANGED found
           \/ /\ Table(t) \notin (IF Backfills(t) THEN OnDisk ELSE Snapshot(t))
              /\ cache' = Remember(t, generation, Snapshot(t))
              /\ Goto(t, IF Kind(t) = "drop" THEN "unschema" ELSE "unlock")
              /\ UNCHANGED <<slots, lastSlot, count, generation, found, adopts, stale, promised>>
    /\ UNCHANGED <<call, m, outer, target, raced, made, schemas, files, lock, mapped, pending,
                   calls, deaths, overlap, torn, dropped, bare, legacy>>

\* Mutant: the generation stays when a table is removed.
RemoveHeaderSilent(t) ==
    /\ pc[t] \in {"remove_header", "undo_header"}
    /\ lastSlot' = Shrunk(slots, lastSlot)
    /\ count' = IF count = 0 THEN 0 ELSE count - 1
    /\ cache' = Remember(t, generation, found[t].tables)
    /\ found' = [found EXCEPT ![t] = NoTables]
    /\ Goto(t, IF At(t, "undo_header") THEN "unlock" ELSE "unschema")
    /\ UNCHANGED <<call, m, outer, target, raced, made, slots, generation, schemas, files,
                   mappingVars, pending, calls, deaths, historyVars>>

\* remove: entry_count, last_slot and the generation follow, then the cache.
RemoveHeader(t) ==
    /\ pc[t] \in {"remove_header", "undo_header"}
    /\ lastSlot' = Shrunk(slots, lastSlot)
    /\ count' = IF count = 0 THEN 0 ELSE count - 1
    /\ generation' = generation + 1
    /\ cache' = Remember(t, generation + 1, found[t].tables)
    /\ found' = [found EXCEPT ![t] = NoTables]
    /\ Goto(t, IF At(t, "undo_header") THEN "unlock" ELSE "unschema")
    /\ UNCHANGED <<call, m, outer, target, raced, made, slots, schemas, files, mappingVars,
                   pending, calls, deaths, historyVars>>

\* Mutant: the records of the other tables go.
RemoveSchemaOthers(t) ==
    /\ At(t, "unschema")
    /\ schemas' = schemas \intersect {Table(t)}
    /\ Goto(t, "queue")
    /\ UNCHANGED <<call, m, outer, found, target, raced, catalogVars, files, mappingVars, cache,
                   pending, calls, deaths, historyVars>>

\* remove_schema.
RemoveSchema(t) ==
    /\ At(t, "unschema")
    /\ schemas' = schemas \ {Table(t)}
    /\ Goto(t, "queue")
    /\ UNCHANGED <<call, m, outer, found, target, raced, catalogVars, files, mappingVars, cache,
                   pending, calls, deaths, historyVars>>

Queued(p, queue) == {n \in Names : queue[p][n] # 0}

\* queue_file_deletions: the file is remembered; a long queue is drained at once.
Queue(t) ==
    /\ At(t, "queue")
    /\ \/ /\ files[Table(t)] = 0
          /\ Goto(t, "commit")
          /\ UNCHANGED pending
       \/ /\ files[Table(t)] # 0
          /\ ~Draining(P(t), Table(t))
          /\ pending' = [pending EXCEPT ![P(t)][Table(t)] = files[Table(t)]]
          /\ Goto(t, IF Cardinality(Queued(P(t), pending')) >= Backlog THEN "drain"
                     ELSE "commit")
    /\ UNCHANGED <<call, m, outer, found, target, raced, catalogVars, schemas, files,
                   mappingVars, cache, calls, deaths, historyVars>>

\* Mutant: the fingerprint is not compared.
DrainCheckAnyFile(t) ==
    /\ At(t, "drain")
    /\ \E n \in Queued(P(t), pending) :
         /\ files[n] # 0
         /\ ~Draining(P(t), n)
         /\ target' = [target EXCEPT ![t] = n]
    /\ Goto(t, "unlink")
    /\ UNCHANGED <<call, m, outer, found, raced, catalogVars, schemas, files, mappingVars,
                   cache, pending, calls, deaths, historyVars>>

\* drain_pending_deletions: a queued file that still is the one dropped.
DrainCheck(t) ==
    /\ At(t, "drain")
    /\ \E n \in Queued(P(t), pending) :
         /\ files[n] = pending[P(t)][n]
         /\ ~Draining(P(t), n)
         /\ target' = [target EXCEPT ![t] = n]
    /\ Goto(t, "unlink")
    /\ UNCHANGED <<call, m, outer, found, raced, catalogVars, schemas, files, mappingVars,
                   cache, pending, calls, deaths, historyVars>>

\* unlink_table_files: whatever file has the name now.
Unlink(t) ==
    /\ At(t, "unlink")
    /\ files' = [files EXCEPT ![target[t]] = 0]
    /\ pending' = Unqueue(P(t), target[t])
    /\ raced' = (raced \ {t}) \union Outrun(t, target[t])
    /\ target' = [target EXCEPT ![t] = None]
    /\ Goto(t, "drain")
    /\ UNCHANGED <<call, m, outer, found, catalogVars, schemas, mappingVars, cache, calls,
                   deaths, historyVars>>

\* The drain is over: its limit is reached or the queue was visited.
DrainEnds(t) ==
    /\ At(t, "drain")
    /\ Goto(t, IF Kind(t) = "close" THEN "release" ELSE "commit")
    /\ UNCHANGED <<call, m, outer, found, target, raced, catalogVars, schemas, files,
                   mappingVars, cache, pending, calls, deaths, historyVars>>

\* release: the process forgets its mapping; a thread inside keeps it open.
Release(t) ==
    /\ At(t, "release")
    /\ mapped' = [mapped EXCEPT ![P(t)] = None]
    /\ cache' = [cache EXCEPT ![P(t)] = NoCache]
    /\ Goto(t, "idle")
    /\ call' = [call EXCEPT ![t] = NoCall]
    /\ UNCHANGED <<m, outer, found, target, raced, catalogVars, schemas, files, lock,
                   stale, adopts, pending, calls, deaths, historyVars>>

-----------------------------------------------------------------------------
(* Accesses. *)

Looked(t) == IF Kind(t) = "ctas" THEN call[t].source ELSE Table(t)

\* snapshot under the lock: an unregistered table is an error.
Resolve(t) ==
    /\ At(t, "resolve")
    /\ cache' = Remember(t, generation, Snapshot(t))
    /\ Goto(t, IF Looked(t) \in Snapshot(t) THEN "leave"
               ELSE IF outer[t] # None THEN "giveup" ELSE "unlock")
    /\ UNCHANGED <<call, m, outer, found, target, raced, catalogVars, schemas, files,
                   mappingVars, pending, calls, deaths, historyVars>>

\* materialize_table_backend: the file is created while there is none.
Materialize(t) ==
    /\ At(t, "make")
    /\ files' = [files EXCEPT ![Looked(t)] = IF @ = 0 THEN NewFile(Looked(t)) ELSE @]
    /\ Goto(t, IF Kind(t) = "ctas" THEN "build" ELSE "idle")
    /\ call' = IF pc'[t] = "idle" THEN [call EXCEPT ![t] = NoCall] ELSE call
    /\ UNCHANGED <<m, outer, found, target, raced, catalogVars, schemas, mappingVars,
                   cache, pending, calls, deaths, historyVars>>

\* A process dies: its descriptors close, what it wrote to the mapping stays.
Die(p) ==
    /\ deaths < MaxDeaths
    /\ LET mine == {t \in Threads : P(t) = p}
           its == {m[t] : t \in mine} \union {outer[t] : t \in mine} \union {mapped[p]}
           Reset(f, v) == [t \in Threads |-> IF t \in mine THEN v ELSE f[t]]
       IN  /\ \E t \in mine : ~At(t, "idle")
           /\ pc' = Reset(pc, "idle")
           /\ call' = Reset(call, NoCall)
           /\ m' = Reset(m, None)
           /\ outer' = Reset(outer, None)
           /\ found' = Reset(found, NoTables)
           /\ target' = Reset(target, None)
           /\ raced' = raced \ mine
           /\ lock' = IF lock \in its THEN None ELSE lock
           /\ torn' = (torn \/ \E t \in mine :
                                  pc[t] \in {"insert_header", "remove_header", "undo_header"})
    /\ mapped' = [mapped EXCEPT ![p] = None]
    /\ cache' = [cache EXCEPT ![p] = NoCache]
    /\ pending' = [pending EXCEPT ![p] = [n \in Names |-> 0]]
    /\ deaths' = deaths + 1
    /\ UNCHANGED <<catalogVars, schemas, files, stale, adopts, calls, overlap, promised,
                   dropped, bare, legacy>>

-----------------------------------------------------------------------------
Step(t) ==
    \/ Pick(t) \/ Flock(t) \/ Open(t) \/ Unlock(t)
    \/ CheckCreate(t) \/ Select(t) \/ Build(t) \/ Find(t) \/ Write(t) \/ InsertHeader(t)
    \/ SetSchema(t)
    \/ CheckDrop(t) \/ Remove(t) \/ RemoveHeader(t) \/ RemoveSchema(t) \/ Queue(t)
    \/ DrainCheck(t) \/ Unlink(t) \/ DrainEnds(t) \/ Release(t)
    \/ Resolve(t) \/ Materialize(t)

Next ==
    \/ \E t \in Threads : Begin(t) \/ Step(t) \/ CreateFails(t)
    \/ \E p \in Mortal : Die(p)

Spec == Init /\ [][Next]_vars

-----------------------------------------------------------------------------
(* Properties. *)

\* The state has the shape of the files, the process maps and the locals.
TypeOK ==
    /\ \A t \in Threads : /\ call[t].table \in Names \union {None}
                          /\ m[t] \in Mappings \union {None}
                          /\ outer[t] \in Mappings \union {None}
                          /\ target[t] \in Names \union {None}
    /\ slots \in [Index -> Names \union {None}]
    /\ lastSlot \in Index /\ count \in Nat /\ generation \in Nat
    /\ schemas \subseteq Names
    /\ files \in [Names -> 0 .. MaxFiles]
    /\ lock \in Mappings \union {None}
    /\ mapped \in [Processes -> Mappings \union {None}]
    /\ pending \in [Processes -> [Names -> 0 .. MaxFiles]]

\* Between a slot and its header.
Halfway == \E t \in Threads : pc[t] \in {"insert_header", "remove_header", "undo_header"}

\* Nothing that the file lock or a death may break happened.
Intact == ~overlap /\ ~torn

(***************************************************************************)
(* A table whose CREATE returned is listed until a DROP takes it out, and  *)
(* one that CREATE TABLE made has its schema record, whatever the other    *)
(* processes register, drop, remap or leave behind when they die: unless   *)
(* two statements of one process met inside the lock, or a process died    *)
(* between a slot and its header.                                          *)
(***************************************************************************)
CreatedIsListed ==
    Intact => \A n \in Names :
                 /\ promised[n] # "no" => n \in Scan
                 /\ promised[n] = "create" => n \in schemas

(***************************************************************************)
(* A dropped table is not listed again before the next CREATE of its name, *)
(* except by the backfill of a directory that came without a catalog.      *)
(***************************************************************************)
DroppedIsGone == Intact /\ ~bare => dropped \intersect Scan = {}

(***************************************************************************)
(* The header describes the slots: no name twice, no name after last_slot, *)
(* entry_count names in all.                                               *)
(***************************************************************************)
HeaderExact ==
    Intact /\ ~Halfway =>
        /\ \A i, j \in Index : slots[i] = slots[j] /\ slots[i] # None => i = j
        /\ \A i \in Index : slots[i] # None => i <= lastSlot
        /\ count = Cardinality(Scan)

(***************************************************************************)
(* A registry cache that agrees with the generation of the mapped header   *)
(* holds the names of the slots, in every process.                         *)
(***************************************************************************)
CacheCoherent ==
    Intact /\ ~Halfway =>
        \A p \in Processes :
            mapped[p] # None /\ cache[p].map = mapped[p] /\ cache[p].generation = generation
                => cache[p].tables = Scan

(***************************************************************************)
(* The file of a table whose CREATE returned is removed by no step but the *)
(* unlink of a drain that another process overtook after the fingerprints  *)
(* were compared: inside one process the queue's entry lock excludes it.   *)
(***************************************************************************)
ReapsOnlyOvertaken ==
    [][Intact => \A n \in Names :
          promised[n] # "no" /\ promised'[n] # "no" /\ files[n] # 0 /\ files'[n] = 0
             => \E t \in raced : At(t, "unlink") /\ target[t] = n]_vars

\* A CREATE ... AS waits, through another descriptor, for the lock it holds itself.
WaitsForItself ==
    \E t \in Threads : /\ pc[t] \in {"open", "flock"}
                       /\ outer[t] # None /\ outer[t] # m[t] /\ lock = outer[t]

Waits(t) ==
    \/ At(t, "flock") /\ lock \notin {None, m[t]}
    \/ At(t, "open") /\ lock # None
    \/ At(t, "check") /\ files[Table(t)] # 0 /\ Draining(P(t), Table(t))
    \/ At(t, "queue") /\ files[Table(t)] # 0 /\ Draining(P(t), Table(t))

(***************************************************************************)
(* The statements never all wait for each other, unless a CREATE ... AS    *)
(* took the lock of a mapping that had become stale while it waited for it *)
(* and its SELECT then waits for the lock through another descriptor.      *)
(***************************************************************************)
SomeoneGoesOn ==
    (\A t \in Threads : At(t, "idle") \/ Waits(t))
        => WaitsForItself \/ \A t \in Threads : At(t, "idle")

=============================================================================
