----------------------------- MODULE WriteLocks -----------------------------
(***************************************************************************)
(* The locks around the mutations of one table: the executor's mutex per   *)
(* table (query/executor/mod.rs), the cross-process lock with its cached   *)
(* descriptor (storage/cross_process_lock.rs) and the storage engine's     *)
(* write lock (storage/table_save_lock.rs).                                *)
(*                                                                         *)
(* A call takes the layers its entry point takes, in that order, works on  *)
(* the table and drops the guards in reverse.  Threads of one process      *)
(* share its maps; a process may die at any moment, which closes its       *)
(* descriptors and so frees its file locks.  The file lock belongs to the  *)
(* open file description: a second lock through the same descriptor        *)
(* succeeds, one through another descriptor does not.                      *)
(***************************************************************************)
EXTENDS Naturals, Sequences, FiniteSets

CONSTANTS
    Processes,
    Threads,
    ProcessOf,      \* the process of a thread
    Descriptors,    \* open file descriptions of the lock file, for exclusive locks
    None,
    Paths,          \* the entry points a thread calls
    MaxCalls,       \* calls a thread makes
    MaxDeaths       \* processes that die

ASSUME LocksAssumption ==
    /\ ProcessOf \in [Threads -> Processes]
    /\ None \notin Threads \union Descriptors
    /\ Paths \in [Threads -> SUBSET {"sql", "copy", "binding", "api", "direct", "commit",
                                     "read"}]
    /\ MaxCalls \in Nat /\ MaxDeaths \in Nat

\* Mutant: Database::write takes the engine's lock only.
LayersInProcessOnly(path) ==
    CASE path = "sql"     -> <<"mutex", "cross">>
      [] path = "binding" -> <<"cross", "cross", "save">>
      [] path \in {"api", "direct"} -> <<"save">>
      [] path = "read"    -> <<"shared">>
      [] OTHER            -> <<>>

(***************************************************************************)
(* The layers of each entry point, outermost first.                        *)
(*   sql      with_table_write_lock: INSERT, UPDATE, DELETE, TRUNCATE, DDL *)
(*   copy     COPY: with_table_write_lock around StorageEngine::write_typed *)
(*   binding  the Python store calls: their own lock, then Database::write *)
(*   api      Database::write, write_typed and write_typed_columns         *)
(*   direct   delete, replace and schema changes of the embedded API       *)
(*   commit   COMMIT of a transaction: apply_txn_writes takes no lock      *)
(*   read     the point reads of the Python bindings                       *)
(***************************************************************************)
Layers(path) ==
    CASE path = "sql"     -> <<"mutex", "cross">>
      [] path = "copy"    -> <<"mutex", "cross", "save">>
      [] path = "binding" -> <<"cross", "cross", "save">>
      [] path = "api"     -> <<"cross", "save">>
      [] path = "direct"  -> <<"save">>
      [] path = "read"    -> <<"shared">>
      [] OTHER            -> <<>>

VARIABLES
    pc,       \* where a thread stands
    path,     \* its entry point
    todo,     \* the layers it has still to take
    guards,   \* the guards it holds, innermost last
    mutex,    \* the TableLock it uses, named after the thread that created it
    fd,       \* the ExclusiveLock it is acquiring
    held,     \* the ExclusiveLock its guard owns
    calls,    \* calls begun
    tableLock,\* per process: the TableLock in TABLE_WRITE_LOCKS
    locked,   \* the thread that holds a TableLock
    cached,   \* per process: the ExclusiveLock in EXCLUSIVE_LOCKS
    owner,    \* ExclusiveLock.owner
    exclusive,\* the descriptor that has the file lock exclusively
    shared,   \* the threads whose own descriptor has it shared
    saving,   \* per process: the holder of table_save_lock::write_lock
    deaths

threadVars == <<pc, path, todo, guards, mutex, fd, held, calls>>
mutexVars  == <<tableLock, locked>>
crossVars  == <<cached, owner>>
fileVars   == <<exclusive, shared>>
vars == <<threadVars, mutexVars, crossVars, fileVars, saving, deaths>>

P(t) == ProcessOf[t]

Init ==
    /\ pc = [t \in Threads |-> "idle"]
    /\ path = [t \in Threads |-> "commit"]
    /\ todo = [t \in Threads |-> <<>>]
    /\ guards = [t \in Threads |-> <<>>]
    /\ mutex = [t \in Threads |-> None]
    /\ fd = [t \in Threads |-> None]
    /\ held = [t \in Threads |-> None]
    /\ calls = [t \in Threads |-> 0]
    /\ tableLock = [p \in Processes |-> None]
    /\ locked = [t \in Threads |-> None]
    /\ cached = [p \in Processes |-> None]
    /\ owner = [d \in Descriptors |-> None]
    /\ exclusive = None
    /\ shared = {}
    /\ saving = [p \in Processes |-> None]
    /\ deaths = 0

-----------------------------------------------------------------------------
(* Helpers. *)

At(t, where) == pc[t] = where

Goto(t, where) == pc' = [pc EXCEPT ![t] = where]

\* The first of the layers left, or the work itself.
First(layers) == IF layers = <<>> THEN "work" ELSE Head(layers)

\* The guard of the layer being taken is pushed and the next layer follows.
Took(t, guard) ==
    /\ guards' = [guards EXCEPT ![t] = Append(@, guard)]
    /\ todo' = [todo EXCEPT ![t] = Tail(@)]
    /\ Goto(t, First(Tail(todo[t])))

\* Where a call goes that drops its guards: they go in reverse, then it returns.
Leaving(left) == IF left = <<>> THEN "idle" ELSE "leave"

Top(t) == guards[t][Len(guards[t])]

Below(t) == SubSeq(guards[t], 1, Len(guards[t]) - 1)

Drops(t, guard) == At(t, "leave") /\ Top(t) = guard

Dropped(t) ==
    /\ guards' = [guards EXCEPT ![t] = Below(t)]
    /\ Goto(t, Leaving(Below(t)))

\* A descriptor nobody refers to: it can be the result of the next open.
Closed(d) ==
    /\ \A p \in Processes : cached[p] # d
    /\ \A t \in Threads : fd[t] # d /\ held[t] # d

Waiters(d) == {t \in Threads : At(t, "wait") /\ fd[t] = d}

\* Condvar::notify_one: one waiter, if there is one, is made runnable.
Notified(d, next) ==
    IF Waiters(d) = {} THEN pc' = next
    ELSE \E w \in Waiters(d) : pc' = [next EXCEPT ![w] = "woken"]

-----------------------------------------------------------------------------
(* A call begins, and its work ends. *)

Begin(t) ==
    /\ At(t, "idle") /\ calls[t] < MaxCalls
    /\ calls' = [calls EXCEPT ![t] = @ + 1]
    /\ \E a \in Paths[t] :
          /\ path' = [path EXCEPT ![t] = a]
          /\ todo' = [todo EXCEPT ![t] = Layers(a)]
          /\ Goto(t, First(Layers(a)))
    /\ UNCHANGED <<guards, mutex, fd, held, mutexVars, crossVars, fileVars, saving, deaths>>

\* The mutation ends, with or without an error.
Work(t) ==
    /\ At(t, "work")
    /\ Goto(t, Leaving(guards[t]))
    /\ UNCHANGED <<path, todo, guards, mutex, fd, held, calls, mutexVars, crossVars,
                   fileVars, saving, deaths>>

-----------------------------------------------------------------------------
(* The executor's mutex: get_table_lock and with_table_write_lock. *)

\* The read-locked look into TABLE_WRITE_LOCKS.
MutexGet(t) ==
    /\ At(t, "mutex")
    /\ mutex' = [mutex EXCEPT ![t] = tableLock[P(t)]]
    /\ Goto(t, IF tableLock[P(t)] = None THEN "mutexNew" ELSE "mutexLock")
    /\ UNCHANGED <<path, todo, guards, fd, held, calls, mutexVars, crossVars, fileVars,
                   saving, deaths>>

\* The slow path: a new lock enters the map unless another is there by now, and
\* is the one returned in either case.
MutexPut(t) ==
    /\ At(t, "mutexNew")
    /\ tableLock' = [tableLock EXCEPT ![P(t)] = IF @ = None THEN t ELSE @]
    /\ mutex' = [mutex EXCEPT ![t] = t]
    /\ Goto(t, "mutexLock")
    /\ UNCHANGED <<path, todo, guards, fd, held, calls, locked, crossVars, fileVars,
                   saving, deaths>>

MutexLock(t) ==
    /\ At(t, "mutexLock") /\ locked[mutex[t]] = None
    /\ locked' = [locked EXCEPT ![mutex[t]] = t]
    /\ Took(t, "mutex")
    /\ UNCHANGED <<path, mutex, fd, held, calls, tableLock, crossVars, fileVars, saving,
                   deaths>>

\* Mutant: the guard of the mutex is leaked.
MutexUnlockLeaked(t) ==
    /\ Drops(t, "mutex")
    /\ mutex' = [mutex EXCEPT ![t] = None]
    /\ Dropped(t)
    /\ UNCHANGED <<path, todo, fd, held, calls, mutexVars, crossVars, fileVars, saving,
                   deaths>>

MutexUnlock(t) ==
    /\ Drops(t, "mutex")
    /\ locked' = [locked EXCEPT ![mutex[t]] = None]
    /\ mutex' = [mutex EXCEPT ![t] = None]
    /\ Dropped(t)
    /\ UNCHANGED <<path, todo, fd, held, calls, tableLock, crossVars, fileVars, saving,
                   deaths>>

\* Another table's insertion finds the map full and drops the entries that only
\* the map refers to.
Prune(p) ==
    /\ tableLock[p] # None
    /\ \A t \in Threads : P(t) = p => mutex[t] # tableLock[p]
    /\ tableLock' = [tableLock EXCEPT ![p] = None]
    /\ UNCHANGED <<threadVars, locked, crossVars, fileVars, saving, deaths>>

-----------------------------------------------------------------------------
(* The cross-process lock: acquire_exclusive, lock_read and LockGuard::drop. *)

Lookup(t) ==
    /\ At(t, "cross")
    /\ IF cached[P(t)] # None
       THEN fd' = [fd EXCEPT ![t] = cached[P(t)]] /\ Goto(t, "claim")
       ELSE /\ \E d \in Descriptors : Closed(d)
            /\ fd' = [fd EXCEPT ![t] = CHOOSE d \in Descriptors : Closed(d)]
            /\ Goto(t, "insert")
    /\ UNCHANGED <<path, todo, guards, mutex, held, calls, mutexVars, crossVars, fileVars,
                   saving, deaths>>

\* entry().or_insert(candidate): the thread takes the entry that is in the map.
Insert(t) ==
    /\ At(t, "insert")
    /\ LET d == IF cached[P(t)] = None THEN fd[t] ELSE cached[P(t)]
       IN /\ cached' = [cached EXCEPT ![P(t)] = d]
          /\ fd' = [fd EXCEPT ![t] = d]
    /\ Goto(t, "claim")
    /\ UNCHANGED <<path, todo, guards, mutex, held, calls, mutexVars, owner, fileVars,
                   saving, deaths>>

\* A thread that owns the entry already gets a guard that holds nothing.
Nested(t) ==
    /\ At(t, "claim") /\ owner[fd[t]] = t
    /\ fd' = [fd EXCEPT ![t] = None]
    /\ Took(t, "noop")
    /\ UNCHANGED <<path, mutex, held, calls, mutexVars, crossVars, fileVars, saving, deaths>>

\* Mutant: the check for a nested acquisition is missing.
ClaimNotReentrant(t) ==
    /\ pc[t] \in {"claim", "woken"}
    /\ IF owner[fd[t]] = None
       THEN owner' = [owner EXCEPT ![fd[t]] = t] /\ Goto(t, "flock")
       ELSE Goto(t, "wait") /\ UNCHANGED owner
    /\ UNCHANGED <<path, todo, guards, mutex, fd, held, calls, mutexVars, cached, fileVars,
                   saving, deaths>>

\* Mutant: the descriptor is cached without the ownership handshake.
ClaimUnowned(t) ==
    /\ pc[t] \in {"claim", "woken"} /\ owner[fd[t]] # t
    /\ owner' = [owner EXCEPT ![fd[t]] = t] /\ Goto(t, "flock")
    /\ UNCHANGED <<path, todo, guards, mutex, fd, held, calls, mutexVars, cached, fileVars,
                   saving, deaths>>

\* Claim the entry, or wait on its condition variable while it has an owner.
Claim(t) ==
    /\ pc[t] \in {"claim", "woken"} /\ ~(At(t, "claim") /\ owner[fd[t]] = t)
    /\ IF owner[fd[t]] = None
       THEN owner' = [owner EXCEPT ![fd[t]] = t] /\ Goto(t, "flock")
       ELSE Goto(t, "wait") /\ UNCHANGED owner
    /\ UNCHANGED <<path, todo, guards, mutex, fd, held, calls, mutexVars, cached, fileVars,
                   saving, deaths>>

\* retry_flock succeeds: no other descriptor has the file lock.
Flock(t) ==
    /\ At(t, "flock") /\ exclusive \in {None, fd[t]} /\ shared = {}
    /\ exclusive' = fd[t]
    /\ held' = [held EXCEPT ![t] = fd[t]]
    /\ fd' = [fd EXCEPT ![t] = None]
    /\ Took(t, "cross")
    /\ UNCHANGED <<path, mutex, calls, mutexVars, crossVars, shared, saving, deaths>>

\* Mutant: the error path wakes nobody.
FlockTimeoutSilent(t) ==
    /\ At(t, "flock") /\ ~(exclusive \in {None, fd[t]} /\ shared = {})
    /\ owner' = [owner EXCEPT ![fd[t]] = None]
    /\ fd' = [fd EXCEPT ![t] = None]
    /\ Goto(t, Leaving(guards[t]))
    /\ UNCHANGED <<path, todo, guards, mutex, held, calls, mutexVars, cached, fileVars,
                   saving, deaths>>

\* retry_flock gives up after MAX_WAIT: the claim is returned and a waiter woken.
FlockTimeout(t) ==
    /\ At(t, "flock") /\ ~(exclusive \in {None, fd[t]} /\ shared = {})
    /\ owner' = [owner EXCEPT ![fd[t]] = None]
    /\ fd' = [fd EXCEPT ![t] = None]
    /\ Notified(fd[t], [pc EXCEPT ![t] = Leaving(guards[t])])
    /\ UNCHANGED <<path, todo, guards, mutex, held, calls, mutexVars, cached, fileVars,
                   saving, deaths>>

\* LockGuard::drop, first half: the file is unlocked while the claim stands.
Unlock(t) ==
    /\ Drops(t, "cross")
    /\ exclusive' = None
    /\ Goto(t, "disown")
    /\ UNCHANGED <<path, todo, guards, mutex, fd, held, calls, mutexVars, crossVars, shared,
                   saving, deaths>>

\* Second half: the owner is cleared and one waiter woken.
Disown(t) ==
    /\ At(t, "disown")
    /\ owner' = [owner EXCEPT ![held[t]] = None]
    /\ held' = [held EXCEPT ![t] = None]
    /\ guards' = [guards EXCEPT ![t] = Below(t)]
    /\ Notified(held[t], [pc EXCEPT ![t] = Leaving(Below(t))])
    /\ UNCHANGED <<path, todo, mutex, fd, calls, mutexVars, cached, fileVars, saving, deaths>>

\* Dropping the guard of a nested acquisition does nothing.
DropNested(t) ==
    /\ Drops(t, "noop")
    /\ Dropped(t)
    /\ UNCHANGED <<path, todo, mutex, fd, held, calls, mutexVars, crossVars, fileVars,
                   saving, deaths>>

\* lock_read opens a descriptor of its own and retries like the writers do.
LockShared(t) ==
    /\ At(t, "shared")
    /\ IF exclusive = None
       THEN shared' = shared \union {t} /\ Took(t, "shared")
       ELSE Goto(t, Leaving(guards[t])) /\ UNCHANGED <<shared, guards, todo>>
    /\ UNCHANGED <<path, mutex, fd, held, calls, mutexVars, crossVars, exclusive, saving,
                   deaths>>

UnlockShared(t) ==
    /\ Drops(t, "shared")
    /\ shared' = shared \ {t}
    /\ Dropped(t)
    /\ UNCHANGED <<path, todo, mutex, fd, held, calls, mutexVars, crossVars, exclusive,
                   saving, deaths>>

\* release(): a closing client drops the cached entry when it has no owner.
ReleaseIdle(p) ==
    /\ cached[p] # None /\ owner[cached[p]] = None
    /\ cached' = [cached EXCEPT ![p] = None]
    /\ UNCHANGED <<threadVars, mutexVars, owner, fileVars, saving, deaths>>

-----------------------------------------------------------------------------
(* The storage engine's write lock, and the death of a process. *)

SaveLock(t) ==
    /\ At(t, "save") /\ saving[P(t)] = None
    /\ saving' = [saving EXCEPT ![P(t)] = t]
    /\ Took(t, "save")
    /\ UNCHANGED <<path, mutex, fd, held, calls, mutexVars, crossVars, fileVars, deaths>>

SaveUnlock(t) ==
    /\ Drops(t, "save")
    /\ saving' = [saving EXCEPT ![P(t)] = None]
    /\ Dropped(t)
    /\ UNCHANGED <<path, todo, mutex, fd, held, calls, mutexVars, crossVars, fileVars, deaths>>

\* The operating system closes the descriptors of a process that dies; its
\* threads start afresh with the next process.
Die(p) ==
    LET T == {t \in Threads : P(t) = p}
        Clear(f, v) == [t \in Threads |-> IF t \in T THEN v ELSE f[t]]
    IN /\ deaths < MaxDeaths /\ \E t \in T : pc[t] # "idle"
       /\ deaths' = deaths + 1
       /\ pc' = Clear(pc, "idle")
       /\ todo' = Clear(todo, <<>>)
       /\ guards' = Clear(guards, <<>>)
       /\ mutex' = Clear(mutex, None)
       /\ fd' = Clear(fd, None)
       /\ held' = Clear(held, None)
       /\ locked' = Clear(locked, None)
       /\ tableLock' = [tableLock EXCEPT ![p] = None]
       /\ cached' = [cached EXCEPT ![p] = None]
       /\ owner' = [d \in Descriptors |-> IF owner[d] \in T THEN None ELSE owner[d]]
       /\ exclusive' = IF \E t \in T : held[t] = exclusive THEN None ELSE exclusive
       /\ shared' = shared \ T
       /\ saving' = [saving EXCEPT ![p] = None]
       /\ UNCHANGED <<path, calls>>

-----------------------------------------------------------------------------

Step(t) ==
    \/ Work(t)
    \/ MutexGet(t) \/ MutexPut(t) \/ MutexLock(t) \/ MutexUnlock(t)
    \/ Lookup(t) \/ Insert(t) \/ Nested(t) \/ Claim(t) \/ Flock(t) \/ FlockTimeout(t)
    \/ Unlock(t) \/ Disown(t) \/ DropNested(t) \/ LockShared(t) \/ UnlockShared(t)
    \/ SaveLock(t) \/ SaveUnlock(t)

Next ==
    \/ \E t \in Threads : Begin(t) \/ Step(t)
    \/ \E p \in Processes : Prune(p) \/ ReleaseIdle(p) \/ Die(p)

Spec == Init /\ [][Next]_vars

\* A thread that can go on does; nobody has to call, close, prune or die.
FairSpec == Spec /\ \A t \in Threads : WF_vars(Step(t))

-----------------------------------------------------------------------------
(* Properties. *)

Places == {"idle", "work", "leave", "mutex", "mutexNew", "mutexLock", "cross",
           "insert", "claim", "wait", "woken", "flock", "disown", "shared", "save"}

\* The variables have the shape of the lock maps, the guards and the file lock.
TypeOK ==
    /\ pc \in [Threads -> Places]
    /\ mutex \in [Threads -> Threads \union {None}]
    /\ fd \in [Threads -> Descriptors \union {None}]
    /\ held \in [Threads -> Descriptors \union {None}]
    /\ calls \in [Threads -> Nat] /\ deaths \in Nat
    /\ tableLock \in [Processes -> Threads \union {None}]
    /\ locked \in [Threads -> Threads \union {None}]
    /\ cached \in [Processes -> Descriptors \union {None}]
    /\ owner \in [Descriptors -> Threads \union {None}]
    /\ exclusive \in Descriptors \union {None}
    /\ shared \subseteq Threads
    /\ saving \in [Processes -> Threads \union {None}]

\* The threads whose guard has the file lock.
Holders == {t \in Threads : exclusive # None /\ held[t] = exclusive}

\* The cached descriptors, the owner handshake and the file lock together are an
\* exclusive lock with shared readers over the threads of all processes.
Lock == INSTANCE TableLock WITH writers <- Holders, readers <- shared
ImplementsLock == Lock!LockSpec

Writing == {t \in Threads : At(t, "work") /\ path[t] # "read"}

\* Two mutations of the table run at once only when one of them is a COMMIT, which
\* takes no lock, or a direct call of the embedded API, which takes the engine's
\* lock alone: then the other is in another process or is an SQL statement, which
\* does not take that lock.
SerializedExceptUnlocked ==
    \A t, u \in Writing : t # u =>
        \/ "commit" \in {path[t], path[u]}
        \/ /\ "direct" \in {path[t], path[u]}
           /\ P(t) # P(u) \/ "sql" \in {path[t], path[u]}

\* "a thread that already holds the table's lock gets a no-op guard instead": a
\* nested acquisition waits only when release() dropped the outer descriptor from
\* the map between the moment the thread fetched it and the moment it claimed it.
NestedWaitsOnlyIfDropped ==
    \A t \in Threads :
        pc[t] \in {"wait", "woken", "flock"} /\ held[t] # None => held[t] # cached[P(t)]

\* notify_one never reaches nobody: while threads sleep on an entry without an
\* owner, one of them is awake or about to claim it.
NoSleepOnFreeEntry ==
    \A d \in Descriptors :
        owner[d] = None /\ Waiters(d) # {} =>
            \E t \in Threads : pc[t] = "woken" /\ fd[t] = d

\* Every call returns: waiting for the owner has no time limit of its own, but each
\* owner gives up after MAX_WAIT, and the layers are taken in one order.
CallsReturn == \A t \in Threads : pc[t] # "idle" ~> pc[t] = "idle"
=============================================================================
