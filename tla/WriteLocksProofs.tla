-------------------------- MODULE WriteLocksProofs --------------------------
(*****************************************************************************)
(* The invariant of WriteLocksInv holds in every behaviour of WriteLocks,    *)
(* with what follows from it: which mutations are serialized, when a nested  *)
(* acquisition waits, and the refinement of TableLock.                       *)
(*****************************************************************************)
EXTENDS WriteLocksCross

LEMMA LockSharedKeeps ==
    ASSUME Inv, NEW t \in Threads, LockShared(t)
    PROVE  Inv'
<1>1. /\ pc[t] = "shared"
      /\ UNCHANGED <<path, mutex, fd, held, calls, tableLock, locked, cached, owner,
                     exclusive, saving, deaths>>
    BY DEF LockShared, At, mutexVars, crossVars
<1>2. CASE exclusive = None
    <2>1. shared' = shared \union {t} /\ Took(t, "shared")
        BY <1>2 DEF LockShared
    <2>2. Busy(t) /\ "shared" \in Guard /\ Taking(pc[t]) = "shared"
        BY <1>1 DEF Busy, Guard, Layer, Taking
    <2>3. /\ pc' \in [Threads -> Places] /\ todo' \in [Threads -> Seq(Layer)]
          /\ guards' \in [Threads -> Seq(Guard)] /\ GuardsOK' /\ StageOK'
        BY <1>1, <2>1, <2>2, TookKeeps
    <2>4. /\ pc'[t] \in Layer \union {"work"} /\ \A u \in Threads : u # t => pc'[u] = pc[u]
        BY <1>1, <2>1, <2>2, TookFacts
    <2>5. Types'
        BY <1>1, <2>1, <2>3 DEF Inv, Types, TypeOK
    <2>6. CoreOK'
        BY SMTT(30), <1>1, <1>2, <2>4 DEF Inv, CoreOK, Layer
    <2>7. NestedOK'
        BY <1>1, <2>4 DEF Inv, NestedOK, NestedWaitsOnlyIfDropped, P, Layer
    <2> QED BY <2>3, <2>5, <2>6, <2>7 DEF Inv
<1>3. CASE exclusive # None
    <2> DEFINE w == Leaving(guards[t])
    <2>1. w \in Places /\ w \in {"idle", "leave"} /\ (w = "leave" => guards[t] # <<>>)
        BY DEF Leaving, Places
    <2>2. pc' = [pc EXCEPT ![t] = w] /\ UNCHANGED <<shared, guards, todo>>
        BY <1>3 DEF LockShared, Goto
    <2> HIDE DEF w
    <2>3. Types' /\ pc'[t] = w /\ \A u \in Threads : u # t => pc'[u] = pc[u]
        BY <1>1, <2>1, <2>2 DEF Inv, Types, TypeOK
    <2>4. CoreOK' /\ NestedOK'
        BY <1>1, <2>1, <2>2, <2>3, QuietKeeps
    <2>5. GuardsOK' /\ StageOK'
        BY <1>1, <2>1, <2>2, <2>3, MoveKeeps DEF Types, TypeOK
    <2> QED BY <2>3, <2>4, <2>5 DEF Inv
<1> QED BY <1>2, <1>3

LEMMA UnlockSharedKeeps ==
    ASSUME Inv, NEW t \in Threads, UnlockShared(t)
    PROVE  Inv'
<1>1. /\ pc[t] = "leave" /\ Top(t) = "shared" /\ Dropped(t) /\ shared' = shared \ {t}
      /\ UNCHANGED <<path, todo, mutex, fd, held, calls, tableLock, locked, cached, owner,
                     exclusive, saving, deaths>>
    BY DEF UnlockShared, Drops, At, mutexVars, crossVars
<1>2. /\ pc' \in [Threads -> Places] /\ pc'[t] = Leaving(Below(t))
      /\ pc'[t] \in {"idle", "leave"} /\ guards' = [guards EXCEPT ![t] = Below(t)]
      /\ \A u \in Threads : u # t => pc'[u] = pc[u]
    BY <1>1, DroppedPlaces
<1>3. guards' \in [Threads -> Seq(Guard)] /\ GuardsOK' /\ StageOK'
    BY <1>1, <1>2, DropKeeps
<1>4. Types'
    BY <1>1, <1>2, <1>3 DEF Inv, Types, TypeOK
<1>5. CoreOK'
    BY SMTT(30), <1>1, <1>2 DEF Inv, CoreOK
<1>6. NestedOK'
    BY <1>1, <1>2 DEF Inv, NestedOK, NestedWaitsOnlyIfDropped, P
<1> QED BY <1>3, <1>4, <1>5, <1>6 DEF Inv

LEMMA PruneKeeps ==
    ASSUME Inv, NEW p \in Processes, Prune(p)
    PROVE  Inv'
<1>1. /\ tableLock' = [tableLock EXCEPT ![p] = None]
      /\ UNCHANGED <<pc, path, todo, guards, mutex, fd, held, calls, locked, cached, owner,
                     exclusive, shared, saving, deaths>>
    BY DEF Prune, threadVars, crossVars, fileVars
<1>2. Types'
    BY <1>1 DEF Inv, Types, TypeOK
<1>3. CoreOK' /\ GuardsOK' /\ StageOK'
    BY <1>1 DEF Inv, CoreOK, GuardsOK, StageOK, Busy, Top, P
<1>4. NestedOK'
    BY <1>1 DEF Inv, NestedOK, NestedWaitsOnlyIfDropped, P
<1> QED BY <1>2, <1>3, <1>4 DEF Inv

LEMMA ReleaseIdleKeeps ==
    ASSUME Inv, NEW p \in Processes, ReleaseIdle(p)
    PROVE  Inv'
<1>1. /\ cached' = [cached EXCEPT ![p] = None]
      /\ UNCHANGED <<pc, path, todo, guards, mutex, fd, held, calls, tableLock, locked, owner,
                     exclusive, shared, saving, deaths>>
    BY DEF ReleaseIdle, threadVars, mutexVars, fileVars
<1>2. Types'
    BY <1>1 DEF Inv, Types, TypeOK
<1>3. CoreOK' /\ GuardsOK' /\ StageOK'
    BY <1>1 DEF Inv, CoreOK, GuardsOK, StageOK, Busy, Top, P
<1>4. \A q \in Processes : cached'[q] = None \/ cached'[q] = cached[q]
    BY <1>1 DEF Inv, Types, TypeOK
<1>5. \A t \in Threads : P(t) \in Processes
    BY LocksAssumption DEF P
<1>6. NestedOK'
    <2>1. \A t \in Threads : pc[t] = "insert" => \A q \in Processes : cached'[q] # fd[t]
        BY SMTT(30), <1>4 DEF Inv, NestedOK, CoreOK
    <2>2. \A t \in Threads : held[t] # None /\ held[t] = cached'[P(t)]
                                => held[t] = cached[P(t)]
        BY <1>4, <1>5
    <2> QED BY <1>1, <2>1, <2>2 DEF Inv, NestedOK, NestedWaitsOnlyIfDropped, P
<1> QED BY <1>2, <1>3, <1>6 DEF Inv

\* The threads of a process that dies lose what they had, and nobody else does.
LEMMA DieFacts ==
    ASSUME Inv, NEW p \in Processes, Die(p)
    PROVE  /\ \A t \in Threads : P(t) = p =>
                 /\ pc'[t] = "idle" /\ todo'[t] = <<>> /\ guards'[t] = <<>>
                 /\ mutex'[t] = None /\ fd'[t] = None /\ held'[t] = None /\ locked'[t] = None
           /\ \A t \in Threads : P(t) # p =>
                 /\ pc'[t] = pc[t] /\ todo'[t] = todo[t] /\ guards'[t] = guards[t]
                 /\ mutex'[t] = mutex[t] /\ fd'[t] = fd[t] /\ held'[t] = held[t]
                 /\ locked'[t] = locked[t] /\ saving'[P(t)] = saving[P(t)]
                 /\ cached'[P(t)] = cached[P(t)]
           /\ \A q \in Processes : cached'[q] = None \/ cached'[q] = cached[q]
           /\ \A d \in Descriptors :
                 owner'[d] = IF \E t \in Threads : P(t) = p /\ owner[d] = t
                             THEN None ELSE owner[d]
           /\ exclusive' = IF \E t \in Threads : P(t) = p /\ held[t] = exclusive
                           THEN None ELSE exclusive
           /\ shared' = shared \ {t \in Threads : P(t) = p}
           /\ UNCHANGED <<path, calls>> /\ deaths' = deaths + 1
           /\ Types'
<1>1. /\ deaths' = deaths + 1 /\ UNCHANGED <<path, calls>>
      /\ pc' = [t \in Threads |-> IF t \in {u \in Threads : P(u) = p} THEN "idle" ELSE pc[t]]
      /\ todo' = [t \in Threads |-> IF t \in {u \in Threads : P(u) = p} THEN <<>> ELSE todo[t]]
      /\ guards' = [t \in Threads |->
                       IF t \in {u \in Threads : P(u) = p} THEN <<>> ELSE guards[t]]
      /\ mutex' = [t \in Threads |->
                       IF t \in {u \in Threads : P(u) = p} THEN None ELSE mutex[t]]
      /\ fd' = [t \in Threads |-> IF t \in {u \in Threads : P(u) = p} THEN None ELSE fd[t]]
      /\ held' = [t \in Threads |-> IF t \in {u \in Threads : P(u) = p} THEN None ELSE held[t]]
      /\ locked' = [t \in Threads |->
                       IF t \in {u \in Threads : P(u) = p} THEN None ELSE locked[t]]
      /\ tableLock' = [tableLock EXCEPT ![p] = None]
      /\ cached' = [cached EXCEPT ![p] = None]
      /\ owner' = [d \in Descriptors |->
                       IF owner[d] \in {u \in Threads : P(u) = p} THEN None ELSE owner[d]]
      /\ exclusive' = IF \E t \in {u \in Threads : P(u) = p} : held[t] = exclusive
                      THEN None ELSE exclusive
      /\ shared' = shared \ {u \in Threads : P(u) = p}
      /\ saving' = [saving EXCEPT ![p] = None]
    BY DEF Die
<1>2. \A t \in Threads : P(t) \in Processes
    BY LocksAssumption DEF P
<1>3. \A t \in Threads : P(t) = p =>
         /\ pc'[t] = "idle" /\ todo'[t] = <<>> /\ guards'[t] = <<>>
         /\ mutex'[t] = None /\ fd'[t] = None /\ held'[t] = None /\ locked'[t] = None
    BY <1>1
<1>4. \A t \in Threads : P(t) # p =>
         /\ pc'[t] = pc[t] /\ todo'[t] = todo[t] /\ guards'[t] = guards[t]
         /\ mutex'[t] = mutex[t] /\ fd'[t] = fd[t] /\ held'[t] = held[t]
         /\ locked'[t] = locked[t]
    BY <1>1
<1>5. \A t \in Threads : P(t) # p =>
         saving'[P(t)] = saving[P(t)] /\ cached'[P(t)] = cached[P(t)]
    BY <1>1, <1>2 DEF Inv, Types, TypeOK
<1>6. \A q \in Processes : cached'[q] = None \/ cached'[q] = cached[q]
    BY <1>1 DEF Inv, Types, TypeOK
<1>7. \A d \in Descriptors :
         owner'[d] = IF \E t \in Threads : P(t) = p /\ owner[d] = t THEN None ELSE owner[d]
    BY <1>1
<1>8. exclusive' = IF \E t \in Threads : P(t) = p /\ held[t] = exclusive
                   THEN None ELSE exclusive
    BY <1>1
<1>9. Types'
    <2>1. pc' \in [Threads -> Places] /\ mutex' \in [Threads -> Threads \union {None}]
          /\ fd' \in [Threads -> Descriptors \union {None}]
          /\ held' \in [Threads -> Descriptors \union {None}]
          /\ locked' \in [Threads -> Threads \union {None}]
        BY <1>1 DEF Inv, Types, TypeOK, Places
    <2>2. tableLock' \in [Processes -> Threads \union {None}]
          /\ cached' \in [Processes -> Descriptors \union {None}]
          /\ saving' \in [Processes -> Threads \union {None}]
        BY <1>1 DEF Inv, Types, TypeOK
    <2>3. owner' \in [Descriptors -> Threads \union {None}]
          /\ exclusive' \in Descriptors \union {None} /\ shared' \subseteq Threads
        BY <1>1 DEF Inv, Types, TypeOK
    <2>4. todo' \in [Threads -> Seq(Layer)] /\ guards' \in [Threads -> Seq(Guard)]
        BY <1>1 DEF Inv, Types
    <2>5. path' \in [Threads -> Entry] /\ calls' \in [Threads -> Nat] /\ deaths' \in Nat
        BY <1>1 DEF Inv, Types, TypeOK
    <2> QED BY <2>1, <2>2, <2>3, <2>4, <2>5 DEF Types, TypeOK
<1> QED BY <1>1, <1>3, <1>4, <1>5, <1>6, <1>7, <1>8, <1>9

LEMMA DieKeeps ==
    ASSUME Inv, NEW p \in Processes, Die(p)
    PROVE  Inv'
<1>n. None \notin Threads \union Descriptors
    BY LocksAssumption
<1>1. \A t \in Threads : P(t) = p =>
         /\ pc'[t] = "idle" /\ guards'[t] = <<>> /\ fd'[t] = None /\ held'[t] = None
    BY DieFacts
<1>2. \A t \in Threads : P(t) # p =>
         /\ pc'[t] = pc[t] /\ todo'[t] = todo[t] /\ guards'[t] = guards[t]
         /\ fd'[t] = fd[t] /\ held'[t] = held[t] /\ saving'[P(t)] = saving[P(t)]
         /\ cached'[P(t)] = cached[P(t)] /\ path'[t] = path[t]
    BY DieFacts
<1>3. Types'
    BY DieFacts
<1>4. GuardsOK'
    <2>1. ~Contains(<<>>, "cross") /\ ~Contains(<<>>, "save") /\ Distinct(<<>>)
        BY DEF Contains, Distinct
    <2> QED BY <1>1, <1>2, <2>1 DEF Inv, GuardsOK, Top, P
<1>5. StageOK'
    BY <1>1, <1>2 DEF Inv, StageOK, Busy, P
<1>6. CoreOK'
    <2>1. \A d \in Descriptors :
              owner'[d] = IF \E t \in Threads : P(t) = p /\ owner[d] = t
                          THEN None ELSE owner[d]
        BY DieFacts
    <2>2. /\ exclusive' = IF \E t \in Threads : P(t) = p /\ held[t] = exclusive
                          THEN None ELSE exclusive
          /\ shared' \subseteq shared
        BY DieFacts
    <2>3. \A t \in Threads : held'[t] # None => owner'[held'[t]] = t
        BY SMTT(30), <1>1, <1>2, <2>1 DEF Inv, CoreOK, Types, TypeOK
    <2>4. \A t \in Threads : pc'[t] = "flock" =>
              fd'[t] # None /\ owner'[fd'[t]] = t /\ fd'[t] # held'[t]
        <3> SUFFICES ASSUME NEW t \in Threads, pc'[t] = "flock"
                     PROVE  fd'[t] # None /\ owner'[fd'[t]] = t /\ fd'[t] # held'[t]
            OBVIOUS
        <3>1. P(t) # p /\ pc[t] = "flock" /\ fd'[t] = fd[t] /\ held'[t] = held[t]
            BY <1>1, <1>2
        <3>2. fd[t] \in Descriptors /\ owner[fd[t]] = t /\ fd[t] # held[t]
            BY SMTT(30), <3>1 DEF Inv, CoreOK, Types, TypeOK
        <3> QED BY <1>n, <2>1, <3>1, <3>2
    <2>5. \A t \in Threads : pc'[t] \in {"insert", "claim", "wait", "woken"} => fd'[t] # None
        BY SMTT(30), <1>1, <1>2 DEF Inv, CoreOK
    <2>6. \A d \in Descriptors, t \in Threads :
              owner'[d] = t => held'[t] = d \/ (pc'[t] = "flock" /\ fd'[t] = d)
        <3> SUFFICES ASSUME NEW d \in Descriptors, NEW t \in Threads, owner'[d] = t
                     PROVE  held'[t] = d \/ (pc'[t] = "flock" /\ fd'[t] = d)
            OBVIOUS
        <3>1. owner[d] = t /\ P(t) # p
            BY <1>n, <2>1
        <3> QED BY <1>2, <3>1 DEF Inv, CoreOK
    <2>7. \A t \in Threads : held'[t] # None /\ pc'[t] # "disown" => exclusive' = held'[t]
        <3> SUFFICES ASSUME NEW t \in Threads, held'[t] # None, pc'[t] # "disown"
                     PROVE  exclusive' = held'[t]
            OBVIOUS
        <3>1. P(t) # p /\ held'[t] = held[t] /\ exclusive = held[t] /\ owner[held[t]] = t
            BY SMTT(30), <1>1, <1>2 DEF Inv, CoreOK
        <3>2. \A u \in Threads : held[u] = exclusive => u = t
            BY SMTT(30), <3>1 DEF Inv, CoreOK
        <3> QED BY <2>2, <3>1, <3>2
    <2>8. \A t \in Threads : pc'[t] = "disown" => held'[t] # None /\ held'[t] # exclusive'
        BY SMTT(30), <1>1, <1>2, <2>2 DEF Inv, CoreOK
    <2>9. exclusive' # None => shared' = {} /\ \E t \in Threads : held'[t] = exclusive'
        BY <1>2, <2>2 DEF Inv, CoreOK
    <2> QED BY <2>3, <2>4, <2>5, <2>6, <2>7, <2>8, <2>9 DEF CoreOK
<1>7. NestedOK'
    <2>1. \A q \in Processes : cached'[q] = None \/ cached'[q] = cached[q]
        BY DieFacts
    <2>2. ASSUME NEW u \in Threads, pc'[u] = "insert"
          PROVE  /\ \A q \in Processes : cached'[q] # fd'[u]
                 /\ \A v \in Threads : held'[v] # fd'[u] /\ (v # u => fd'[v] # fd'[u])
        <3>1. P(u) # p /\ pc[u] = "insert" /\ fd'[u] = fd[u] /\ fd[u] # None
            BY SMTT(30), <1>1, <1>2, <2>2 DEF Inv, CoreOK
        <3> QED BY SMTT(30), <1>1, <1>2, <2>1, <3>1 DEF Inv, NestedOK
    <2>3. ASSUME NEW u \in Threads, pc'[u] = "claim", held'[u] # None,
                 held'[u] = cached'[P(u)]
          PROVE  fd'[u] = held'[u]
        BY <1>1, <1>2, <2>3 DEF Inv, NestedOK
    <2>4. ASSUME NEW u \in Threads, pc'[u] \in {"wait", "woken", "flock"}, held'[u] # None
          PROVE  held'[u] # cached'[P(u)]
        BY <1>1, <1>2, <2>4 DEF Inv, NestedOK, NestedWaitsOnlyIfDropped
    <2> QED BY <2>2, <2>3, <2>4 DEF NestedOK, NestedWaitsOnlyIfDropped, P
<1> QED BY <1>3, <1>4, <1>5, <1>6, <1>7 DEF Inv

-----------------------------------------------------------------------------
(* The theorems. *)

LEMMA InitInv == Init => Inv
<1> SUFFICES ASSUME Init PROVE Inv
    OBVIOUS
<1>1. Types
    BY LocksAssumption DEF Init, Types, TypeOK, Places, Entry
<1>2. CoreOK
    BY LocksAssumption DEF Init, CoreOK
<1>3. GuardsOK
    <2>1. ~Contains(<<>>, "cross") /\ ~Contains(<<>>, "save") /\ Distinct(<<>>)
        BY DEF Contains, Distinct
    <2> QED BY <2>1 DEF Init, GuardsOK
<1>4. StageOK /\ NestedOK
    BY DEF Init, StageOK, Busy, NestedOK, NestedWaitsOnlyIfDropped
<1> QED BY <1>1, <1>2, <1>3, <1>4 DEF Inv

LEMMA NextKeeps ==
    ASSUME Inv, [Next]_vars
    PROVE  Inv'
<1>1. CASE UNCHANGED vars
    <2>1. UNCHANGED <<pc, path, todo, guards, mutex, fd, held, calls, tableLock, locked,
                      cached, owner, exclusive, shared, saving, deaths>>
        BY <1>1 DEF vars, threadVars, mutexVars, crossVars, fileVars
    <2>2. Types' /\ CoreOK' /\ GuardsOK' /\ StageOK'
        BY <2>1 DEF Inv, Types, TypeOK, CoreOK, GuardsOK, StageOK, Busy, Top, P
    <2>3. NestedOK'
        BY <2>1 DEF Inv, NestedOK, NestedWaitsOnlyIfDropped, P
    <2> QED BY <2>2, <2>3 DEF Inv
<1>2. ASSUME NEW t \in Threads, Begin(t) \/ Step(t)
      PROVE  Inv'
    BY <1>2, BeginKeeps, WorkKeeps, MutexGetKeeps, MutexPutKeeps, MutexLockKeeps,
       MutexUnlockKeeps, LookupKeeps, InsertKeeps, NestedKeeps, ClaimKeeps, FlockKeeps,
       FlockTimeoutKeeps, UnlockKeeps, DisownKeeps, DropNestedKeeps, LockSharedKeeps,
       UnlockSharedKeeps, SaveLockKeeps, SaveUnlockKeeps DEF Step
<1>3. ASSUME NEW p \in Processes, Prune(p) \/ ReleaseIdle(p) \/ Die(p)
      PROVE  Inv'
    BY <1>3, PruneKeeps, ReleaseIdleKeeps, DieKeeps
<1> QED BY <1>1, <1>2, <1>3 DEF Next

LEMMA InvHolds == Spec => []Inv
BY InitInv, NextKeeps, PTL DEF Spec

\* Whatever the number of processes, threads and descriptors, two mutations run at
\* once only if one is a COMMIT or a direct call that the other's locks do not meet.
THEOREM Serialized == Spec => []SerializedExceptUnlocked
<1>1. ASSUME Inv
      PROVE  SerializedExceptUnlocked
    <2> SUFFICES ASSUME NEW t \in Writing, NEW u \in Writing, t # u,
                        path[t] # "commit", path[u] # "commit"
                 PROVE  /\ "direct" \in {path[t], path[u]}
                        /\ P(t) # P(u) \/ "sql" \in {path[t], path[u]}
        BY DEF SerializedExceptUnlocked
    <2>1. /\ t \in Threads /\ u \in Threads /\ pc[t] = "work" /\ pc[u] = "work"
          /\ path[t] \in {"sql", "copy", "binding", "api", "direct"}
          /\ path[u] \in {"sql", "copy", "binding", "api", "direct"}
        BY <1>1 DEF Writing, At, Inv, Types, Entry
    <2>2. \A v \in {t, u} : /\ NeedsCross(path[v]) => held[v] # None
                            /\ NeedsSave(path[v]) => saving[P(v)] = v
        <3> SUFFICES ASSUME NEW v \in {t, u}
                     PROVE  /\ NeedsCross(path[v]) => held[v] # None
                            /\ NeedsSave(path[v]) => saving[P(v)] = v
            OBVIOUS
        <3>1. v \in Threads /\ Busy(v) /\ Taking(pc[v]) = "work"
            BY <2>1 DEF Busy, Taking
        <3>2. First(todo[v]) = "work" /\ todo[v] \in Seq(Layer)
            BY <1>1, <3>1 DEF Inv, StageOK, Types
        <3>3. todo[v] = <<>>
            BY <3>2, HeadTailProperties DEF First, Layer
        <3>4. ~Contains(todo[v], "cross") /\ ~Contains(todo[v], "save")
            BY <3>3 DEF Contains
        <3> QED BY <1>1, <3>1, <3>4 DEF Inv, StageOK
    <2>3. ~(held[t] # None /\ held[u] # None)
        BY <1>1, <2>1 DEF Inv, CoreOK
    <2>4. ~(P(t) = P(u) /\ NeedsSave(path[t]) /\ NeedsSave(path[u]))
        BY <2>1, <2>2
    <2> QED BY <2>1, <2>2, <2>3, <2>4 DEF NeedsCross, NeedsSave
<1> QED BY <1>1, InvHolds, PTL

\* A nested acquisition waits only after release() dropped the outer descriptor.
THEOREM NestedAcquisition == Spec => []NestedWaitsOnlyIfDropped
<1>1. Inv => NestedWaitsOnlyIfDropped
    BY DEF Inv, NestedOK
<1> QED BY <1>1, InvHolds, PTL

-----------------------------------------------------------------------------
(* The refinement of TableLock. *)

\* One thread at most has the file lock exclusively.
LEMMA OneHolder ==
    ASSUME Inv, NEW t \in Threads, NEW u \in Threads, t \in Holders, u \in Holders
    PROVE  t = u
BY DEF Inv, CoreOK, Holders

\* A step that leaves the file lock and its holders alone is a stutter.
LEMMA Stutters ==
    ASSUME UNCHANGED <<held, exclusive, shared>>
    PROVE  UNCHANGED Lock!lockVars
BY DEF Holders, Lock!lockVars

LEMMA FlockRefines ==
    ASSUME Inv, NEW t \in Threads, Flock(t)
    PROVE  Lock!LockNext
<1>1. /\ fd[t] \in Descriptors /\ exclusive = None /\ shared = {}
      /\ \A u \in Threads : held[u] # fd[t]
    BY FlockFacts
<1>2. /\ exclusive' = fd[t] /\ held' = [held EXCEPT ![t] = fd[t]] /\ shared' = shared
    BY DEF Flock
<1>3. fd[t] # None /\ held \in [Threads -> Descriptors \union {None}]
    BY <1>1, LocksAssumption DEF Inv, Types, TypeOK
<1>4. Holders = {} /\ Holders' = {t}
    BY <1>1, <1>2, <1>3 DEF Holders
<1> QED BY <1>1, <1>2, <1>4 DEF Lock!LockNext, Lock!AcquireWrite

LEMMA UnlockRefines ==
    ASSUME Inv, NEW t \in Threads, Unlock(t)
    PROVE  Lock!LockNext
<1>1. held[t] # None /\ exclusive = held[t]
    BY UnlockKeeps
<1>2. exclusive' = None /\ shared' = shared /\ held' = held
    BY DEF Unlock
<1>3. t \in Holders /\ Holders' = {}
    BY <1>1, <1>2 DEF Holders
<1>4. Holders = {t}
    BY <1>3, OneHolder DEF Holders
<1>5. shared = {}
    BY <1>1 DEF Inv, CoreOK
<1>6. {t} # {} /\ {t} \in SUBSET Threads /\ {t} \subseteq Holders \union shared
      /\ Holders' = Holders \ {t} /\ shared' = shared \ {t}
    BY <1>2, <1>3, <1>4, <1>5
<1> QED BY <1>6 DEF Lock!LockNext, Lock!Release

LEMMA LockSharedRefines ==
    ASSUME Inv, NEW t \in Threads, LockShared(t)
    PROVE  [Lock!LockNext]_(Lock!lockVars)
<1>1. UNCHANGED <<held, exclusive>>
    BY DEF LockShared
<1>2. Holders' = Holders
    BY <1>1 DEF Holders
<1>3. CASE exclusive = None
    <2>1. Holders = {} /\ shared' = shared \union {t}
        BY <1>3 DEF Holders, LockShared
    <2> QED BY <1>2, <2>1 DEF Lock!LockNext, Lock!AcquireRead
<1>4. CASE exclusive # None
    BY <1>1, <1>4, Stutters DEF LockShared
<1> QED BY <1>3, <1>4

LEMMA UnlockSharedRefines ==
    ASSUME Inv, NEW t \in Threads, UnlockShared(t)
    PROVE  [Lock!LockNext]_(Lock!lockVars)
<1>1. UNCHANGED <<held, exclusive>> /\ shared' = shared \ {t}
    BY DEF UnlockShared
<1>2. Holders' = Holders
    BY <1>1 DEF Holders
<1>3. CASE t \in shared
    <2>1. Holders = {}
        BY <1>3 DEF Holders, Inv, CoreOK
    <2>2. {t} # {} /\ {t} \in SUBSET Threads /\ {t} \subseteq Holders \union shared
          /\ Holders' = Holders \ {t} /\ shared' = shared \ {t}
        BY <1>1, <1>2, <1>3, <2>1
    <2> QED BY <2>2 DEF Lock!LockNext, Lock!Release
<1>4. CASE t \notin shared
    BY <1>1, <1>4, Stutters
<1> QED BY <1>3, <1>4

LEMMA DisownRefines ==
    ASSUME Inv, NEW t \in Threads, Disown(t)
    PROVE  UNCHANGED Lock!lockVars
<1>1. pc[t] = "disown" /\ held' = [held EXCEPT ![t] = None] /\ UNCHANGED <<exclusive, shared>>
    BY DEF Disown, At, fileVars
<1>2. held[t] # exclusive /\ held \in [Threads -> Descriptors \union {None}]
    BY <1>1 DEF Inv, CoreOK, Types, TypeOK
<1>3. Holders' = Holders
    BY <1>1, <1>2 DEF Holders
<1> QED BY <1>1, <1>3 DEF Lock!lockVars

LEMMA DieRefines ==
    ASSUME Inv, NEW p \in Processes, Die(p)
    PROVE  [Lock!LockNext]_(Lock!lockVars)
<1> DEFINE T == {t \in Threads : P(t) = p}
           S == (Holders \union shared) \cap T
<1>1. /\ \A t \in Threads : P(t) = p => held'[t] = None
      /\ \A t \in Threads : P(t) # p => held'[t] = held[t]
      /\ exclusive' = IF \E t \in Threads : P(t) = p /\ held[t] = exclusive
                      THEN None ELSE exclusive
      /\ shared' = shared \ T
    BY DieFacts
<1>2. Holders \subseteq Threads /\ shared \subseteq Threads
    BY DEF Holders, Inv, Types, TypeOK
<1>3. Holders' = Holders \ T
    <2>1. CASE \E t \in Threads : P(t) = p /\ held[t] = exclusive
        <3>1. Holders' = {}
            BY <1>1, <2>1 DEF Holders
        <3>2. Holders \subseteq T
            BY <2>1, OneHolder DEF Holders
        <3> QED BY <3>1, <3>2
    <2>2. CASE ~ \E t \in Threads : P(t) = p /\ held[t] = exclusive
        BY <1>1, <2>2 DEF Holders
    <2> QED BY <2>1, <2>2
<1>4. Holders' = Holders \ S /\ shared' = shared \ S /\ S \in SUBSET Threads
      /\ S \subseteq Holders \union shared
    BY <1>1, <1>2, <1>3
<1>5. CASE S = {}
    BY <1>4, <1>5 DEF Lock!lockVars
<1>6. CASE S # {}
    BY <1>4, <1>6 DEF Lock!LockNext, Lock!Release
<1> QED BY <1>5, <1>6

\* The cached descriptors, the owner handshake and the file lock implement the
\* abstract lock: a thread has the table's lock exclusively only while no other
\* thread, of any process, has it at all.
THEOREM Refinement == Spec => ImplementsLock
<1>1. Init => Lock!LockInit
    BY DEF Init, Lock!LockInit, Holders
<1>2. ASSUME Inv, [Next]_vars
      PROVE  [Lock!LockNext]_(Lock!lockVars)
    <2>1. CASE UNCHANGED vars
        BY <2>1, Stutters DEF vars, threadVars, fileVars
    <2>2. ASSUME NEW t \in Threads, Begin(t) \/ Step(t)
          PROVE  [Lock!LockNext]_(Lock!lockVars)
        <3>1. CASE \/ Begin(t) \/ Work(t) \/ MutexGet(t) \/ MutexPut(t) \/ MutexLock(t)
                   \/ MutexUnlock(t) \/ Lookup(t) \/ Insert(t) \/ Nested(t) \/ Claim(t)
                   \/ FlockTimeout(t) \/ DropNested(t) \/ SaveLock(t) \/ SaveUnlock(t)
            BY <3>1, Stutters
               DEF Begin, Work, MutexGet, MutexPut, MutexLock, MutexUnlock, Lookup, Insert,
                   Nested, Claim, FlockTimeout, DropNested, SaveLock, SaveUnlock, fileVars
        <3>2. CASE Flock(t) \/ Unlock(t) \/ Disown(t) \/ LockShared(t) \/ UnlockShared(t)
            BY <1>2, <3>2, FlockRefines, UnlockRefines, DisownRefines, LockSharedRefines,
               UnlockSharedRefines
        <3> QED BY <2>2, <3>1, <3>2 DEF Step
    <2>3. ASSUME NEW p \in Processes, Prune(p) \/ ReleaseIdle(p) \/ Die(p)
          PROVE  [Lock!LockNext]_(Lock!lockVars)
        BY <1>2, <2>3, DieRefines, Stutters DEF Prune, ReleaseIdle, threadVars, fileVars
    <2> QED BY <1>2, <2>1, <2>2, <2>3 DEF Next
<1> QED BY <1>1, <1>2, InvHolds, PTL DEF Spec, ImplementsLock, Lock!LockSpec
=============================================================================
