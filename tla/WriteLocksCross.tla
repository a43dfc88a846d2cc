--------------------------- MODULE WriteLocksCross ---------------------------
(*****************************************************************************)
(* The owner handshake and the exclusive file lock keep the invariant of     *)
(* WriteLocksInv.                                                            *)
(*****************************************************************************)
EXTENDS WriteLocksInv

LEMMA InsertKeeps ==
    ASSUME Inv, NEW t \in Threads, Insert(t)
    PROVE  Inv'
<1>p. None \notin Descriptors /\ \A u \in Threads : P(u) \in Processes
    BY LocksAssumption DEF P
<1> DEFINE d == IF cached[P(t)] = None THEN fd[t] ELSE cached[P(t)]
<1>1. /\ pc[t] = "insert" /\ pc' = [pc EXCEPT ![t] = "claim"]
      /\ cached' = [cached EXCEPT ![P(t)] = d] /\ fd' = [fd EXCEPT ![t] = d]
      /\ UNCHANGED <<path, todo, guards, mutex, held, calls, tableLock, locked, owner,
                     exclusive, shared, saving, deaths>>
    BY DEF Insert, At, Goto, mutexVars, crossVars, fileVars
<1>2. d \in Descriptors
    BY <1>1, <1>p DEF Inv, Types, TypeOK, CoreOK
<1>d. d = fd[t] \/ d = cached[P(t)]
    OBVIOUS
<1>c. cached[P(t)] # None => d = cached[P(t)]
    OBVIOUS
<1> HIDE DEF d
<1>3. /\ pc' \in [Threads -> Places] /\ pc'[t] = "claim" /\ "claim" \in Places
      /\ fd' \in [Threads -> Descriptors \union {None}] /\ fd'[t] = d /\ d # None
      /\ cached' \in [Processes -> Descriptors \union {None}] /\ cached'[P(t)] = d
      /\ \A p \in Processes : p # P(t) => cached'[p] = cached[p]
      /\ \A u \in Threads : u # t => pc'[u] = pc[u] /\ fd'[u] = fd[u]
    BY <1>1, <1>2, <1>p DEF Inv, Types, TypeOK, Places
<1>4. Types'
    BY <1>1, <1>3 DEF Inv, Types, TypeOK
<1>5. GuardsOK' /\ StageOK'
    BY <1>1, <1>3, MoveKeeps DEF Busy, Taking
<1>6. CoreOK'
    BY <1>1, <1>3 DEF Inv, CoreOK
<1>7. NestedOK'
    <2>1. ASSUME NEW u \in Threads, pc'[u] = "insert"
          PROVE  /\ \A p \in Processes : cached'[p] # fd'[u]
                 /\ \A v \in Threads : held'[v] # fd'[u] /\ (v # u => fd'[v] # fd'[u])
        BY <1>1, <1>3, <1>d, <1>p, <2>1 DEF Inv, NestedOK
    <2>2. ASSUME NEW u \in Threads, held[u] # None, held[u] = cached'[P(u)]
          PROVE  held[u] = cached[P(u)]
        BY <1>1, <1>3, <1>d, <1>c, <1>p, <2>2 DEF Inv, NestedOK
    <2>3. ASSUME NEW u \in Threads, pc'[u] = "claim", held'[u] # None,
                 held'[u] = cached'[P(u)]
          PROVE  fd'[u] = held'[u]
        BY <1>1, <1>3, <2>2, <2>3 DEF Inv, NestedOK
    <2>4. ASSUME NEW u \in Threads, pc'[u] \in {"wait", "woken", "flock"}, held'[u] # None
          PROVE  held'[u] # cached'[P(u)]
        BY <1>1, <1>3, <2>2, <2>4 DEF Inv, NestedOK, NestedWaitsOnlyIfDropped
    <2> QED BY <2>1, <2>3, <2>4 DEF NestedOK, NestedWaitsOnlyIfDropped, P
<1> QED BY <1>4, <1>5, <1>6, <1>7 DEF Inv

LEMMA ClaimKeeps ==
    ASSUME Inv, NEW t \in Threads, Claim(t)
    PROVE  Inv'
<1>n. None \notin Threads \union Descriptors
    BY LocksAssumption
<1>1. /\ pc[t] \in {"claim", "woken"} /\ ~(pc[t] = "claim" /\ owner[fd[t]] = t)
      /\ UNCHANGED <<path, todo, guards, mutex, fd, held, calls, tableLock, locked, cached,
                     exclusive, shared, saving, deaths>>
    BY DEF Claim, At, mutexVars, crossVars, fileVars
<1>f. fd[t] \in Descriptors
    BY <1>1 DEF Inv, Types, TypeOK, CoreOK
<1>2. CASE owner[fd[t]] = None
    <2>1. owner' = [owner EXCEPT ![fd[t]] = t] /\ pc' = [pc EXCEPT ![t] = "flock"]
        BY <1>2 DEF Claim, Goto
    <2>2. /\ pc' \in [Threads -> Places] /\ pc'[t] = "flock" /\ "flock" \in Places
          /\ owner' \in [Descriptors -> Threads \union {None}] /\ owner'[fd[t]] = t
          /\ \A d \in Descriptors : d # fd[t] => owner'[d] = owner[d]
          /\ \A u \in Threads : u # t => pc'[u] = pc[u]
        BY <2>1, <1>f DEF Inv, Types, TypeOK, Places
    <2>3. Types'
        BY <1>1, <2>2 DEF Inv, Types, TypeOK
    <2>4. GuardsOK' /\ StageOK'
        BY <1>1, <2>2, MoveKeeps DEF Busy, Taking
    <2>h. \A u \in Threads : held[u] # fd[t]
        BY <1>2, <1>n, <1>f DEF Inv, CoreOK
    <2>5. CoreOK'
        <3>1. \A u \in Threads : held[u] # None => owner'[held[u]] = u
            BY <2>2, <2>h DEF Inv, CoreOK, Types, TypeOK
        <3>2. \A u \in Threads :
                  pc'[u] = "flock" => fd[u] # None /\ owner'[fd[u]] = u /\ fd[u] # held[u]
            BY <1>2, <1>f, <1>n, <2>2, <2>h DEF Inv, CoreOK, Types, TypeOK
        <3>3. \A u \in Threads : pc'[u] \in {"insert", "claim", "wait", "woken"} => fd[u] # None
            BY <2>2 DEF Inv, CoreOK
        <3>4. \A d \in Descriptors, u \in Threads :
                  owner'[d] = u => held[u] = d \/ (pc'[u] = "flock" /\ fd[u] = d)
            BY <1>1, <2>2 DEF Inv, CoreOK
        <3>5. \A u \in Threads : /\ held[u] # None /\ pc'[u] # "disown" => exclusive = held[u]
                                 /\ pc'[u] = "disown" => held[u] # None /\ held[u] # exclusive
            BY <1>1, <2>2 DEF Inv, CoreOK
        <3>6. UNCHANGED <<fd, held, exclusive, shared>>
            BY <1>1
        <3> QED BY <3>1, <3>2, <3>3, <3>4, <3>5, <3>6 DEF Inv, CoreOK
    <2>6. NestedOK'
        BY <1>1, <2>2, <2>h DEF Inv, NestedOK, NestedWaitsOnlyIfDropped, P
    <2> QED BY <2>3, <2>4, <2>5, <2>6 DEF Inv
<1>3. CASE owner[fd[t]] # None
    <2>1. UNCHANGED owner /\ pc' = [pc EXCEPT ![t] = "wait"]
        BY <1>3 DEF Claim, Goto
    <2>2. /\ pc' \in [Threads -> Places] /\ pc'[t] = "wait" /\ "wait" \in Places
          /\ \A u \in Threads : u # t => pc'[u] = pc[u]
        BY <2>1 DEF Inv, Types, TypeOK, Places
    <2>3. Types'
        BY <1>1, <2>1, <2>2 DEF Inv, Types, TypeOK
    <2>4. GuardsOK' /\ StageOK'
        BY <1>1, <2>2, MoveKeeps DEF Busy, Taking
    <2>5. CoreOK'
        BY <1>1, <1>f, <1>n, <2>1, <2>2 DEF Inv, CoreOK
    <2>6. NestedOK'
        BY SMTT(30), <1>1, <2>2 DEF Inv, NestedOK, NestedWaitsOnlyIfDropped, P, CoreOK
    <2> QED BY <2>3, <2>4, <2>5, <2>6 DEF Inv
<1> QED BY <1>2, <1>3

\* The file lock is free when a claim succeeds: no guard has it.
LEMMA FlockFacts ==
    ASSUME Inv, NEW t \in Threads, Flock(t)
    PROVE  /\ fd[t] \in Descriptors /\ owner[fd[t]] = t /\ held[t] = None
           /\ exclusive = None /\ shared = {} /\ \A u \in Threads : held[u] # fd[t]
<1>1. pc[t] = "flock" /\ exclusive \in {None, fd[t]} /\ shared = {}
    BY DEF Flock, At
<1>2. fd[t] \in Descriptors /\ owner[fd[t]] = t /\ fd[t] # held[t]
    BY <1>1 DEF Inv, Types, TypeOK, CoreOK
<1>3. \A u \in Threads : held[u] # fd[t]
    BY <1>2, LocksAssumption DEF Inv, CoreOK
<1>4. exclusive = None
    BY <1>1, <1>2, <1>3, LocksAssumption DEF Inv, CoreOK
<1>5. held[t] = None
    BY <1>1, <1>4 DEF Inv, CoreOK
<1> QED BY <1>1, <1>2, <1>3, <1>4, <1>5

LEMMA FlockKeeps ==
    ASSUME Inv, NEW t \in Threads, Flock(t)
    PROVE  Inv'
<1>n. None \notin Threads \union Descriptors
    BY LocksAssumption
<1>1. /\ pc[t] = "flock" /\ Took(t, "cross") /\ exclusive' = fd[t]
      /\ held' = [held EXCEPT ![t] = fd[t]] /\ fd' = [fd EXCEPT ![t] = None]
      /\ UNCHANGED <<path, mutex, calls, tableLock, locked, cached, owner, shared, saving,
                     deaths>>
    BY DEF Flock, At, mutexVars, crossVars, fileVars
<1>2. Busy(t) /\ "cross" \in Guard /\ Taking(pc[t]) = "cross"
    BY <1>1 DEF Busy, Guard, Layer, Taking
<1>f. /\ fd[t] \in Descriptors /\ owner[fd[t]] = t /\ held[t] = None
      /\ exclusive = None /\ shared = {} /\ \A u \in Threads : held[u] # fd[t]
    BY FlockFacts
<1>h. /\ held'[t] = fd[t] /\ fd'[t] = None /\ fd[t] # None
      /\ \A u \in Threads : u # t => held'[u] = held[u] /\ fd'[u] = fd[u]
    BY <1>1, <1>f, <1>n DEF Inv, Types, TypeOK
<1>3. /\ pc' \in [Threads -> Places] /\ todo' \in [Threads -> Seq(Layer)]
      /\ guards' \in [Threads -> Seq(Guard)] /\ GuardsOK' /\ StageOK'
    BY <1>1, <1>2, <1>f, <1>h, TookKeeps
<1>4. /\ pc'[t] \in Layer \union {"work"} /\ \A u \in Threads : u # t => pc'[u] = pc[u]
    BY <1>1, <1>2, TookFacts
<1>5. Types'
    BY <1>1, <1>3, <1>f DEF Inv, Types, TypeOK
<1>6. CoreOK'
    <2>1. \A u \in Threads : held'[u] # None => owner[held'[u]] = u
        BY SMTT(30), <1>f, <1>h DEF Inv, CoreOK
    <2>2. \A u \in Threads : pc'[u] = "flock" =>
              fd'[u] # None /\ owner[fd'[u]] = u /\ fd'[u] # held'[u]
        BY SMTT(30), <1>4, <1>h DEF Inv, CoreOK, Layer
    <2>3. \A u \in Threads : pc'[u] \in {"insert", "claim", "wait", "woken"} => fd'[u] # None
        BY <1>4, <1>h DEF Inv, CoreOK, Layer
    <2>4. \A d \in Descriptors, u \in Threads :
              owner[d] = u => held'[u] = d \/ (pc'[u] = "flock" /\ fd'[u] = d)
        BY <1>4, <1>f, <1>h, <1>n DEF Inv, CoreOK
    <2>5. \A u \in Threads : /\ held'[u] # None /\ pc'[u] # "disown" => exclusive' = held'[u]
                             /\ pc'[u] = "disown" => held'[u] # None /\ held'[u] # exclusive'
        BY SMTT(30), <1>1, <1>4, <1>f, <1>h DEF Inv, CoreOK, Layer
    <2> QED BY <1>1, <1>f, <1>h, <2>1, <2>2, <2>3, <2>4, <2>5 DEF CoreOK
<1>7. NestedOK'
    <2>1. ASSUME NEW u \in Threads, pc'[u] = "insert"
          PROVE  /\ \A p \in Processes : cached'[p] # fd'[u]
                 /\ \A v \in Threads : held'[v] # fd'[u] /\ (v # u => fd'[v] # fd'[u])
        <3>1. u # t /\ pc[u] = "insert" /\ fd'[u] = fd[u] /\ fd[u] # None
            BY <1>4, <1>h, <2>1 DEF Layer, Inv, CoreOK
        <3> QED BY <1>1, <1>h, <3>1 DEF Inv, NestedOK
    <2>2. ASSUME NEW u \in Threads, pc'[u] = "claim", held'[u] # None,
                 held'[u] = cached'[P(u)]
          PROVE  fd'[u] = held'[u]
        BY <1>1, <1>4, <1>h, <2>2 DEF Inv, NestedOK, Layer
    <2>3. ASSUME NEW u \in Threads, pc'[u] \in {"wait", "woken", "flock"}, held'[u] # None
          PROVE  held'[u] # cached'[P(u)]
        BY <1>1, <1>4, <1>h, <2>3 DEF Inv, NestedOK, NestedWaitsOnlyIfDropped, Layer
    <2> QED BY <2>1, <2>2, <2>3 DEF NestedOK, NestedWaitsOnlyIfDropped, P
<1> QED BY <1>3, <1>5, <1>6, <1>7 DEF Inv

LEMMA FlockTimeoutKeeps ==
    ASSUME Inv, NEW t \in Threads, FlockTimeout(t)
    PROVE  Inv'
<1>n. None \notin Threads \union Descriptors
    BY LocksAssumption
<1> DEFINE w == Leaving(guards[t])
<1>w. w \in Places /\ w \in {"idle", "leave"} /\ (w = "leave" => guards[t] # <<>>)
    BY DEF Leaving, Places
<1>1. /\ pc[t] = "flock" /\ owner' = [owner EXCEPT ![fd[t]] = None]
      /\ fd' = [fd EXCEPT ![t] = None] /\ Notified(fd[t], [pc EXCEPT ![t] = w])
      /\ UNCHANGED <<path, todo, guards, mutex, held, calls, tableLock, locked, cached,
                     exclusive, shared, saving, deaths>>
    BY DEF FlockTimeout, At, mutexVars, crossVars, fileVars
<1> HIDE DEF w
<1>f. fd[t] \in Descriptors /\ owner[fd[t]] = t /\ fd[t] # held[t]
    BY <1>1 DEF Inv, Types, TypeOK, CoreOK
<1>2. /\ pc' \in [Threads -> Places] /\ pc'[t] = w
      /\ \A u \in Threads : u # t => pc'[u] = pc[u] \/ (pc[u] = "wait" /\ pc'[u] = "woken")
    BY <1>1, <1>f, <1>w, NotifiedFacts
<1>h. /\ fd'[t] = None /\ \A u \in Threads : u # t => fd'[u] = fd[u]
      /\ owner'[fd[t]] = None /\ \A d \in Descriptors : d # fd[t] => owner'[d] = owner[d]
    BY <1>1, <1>f DEF Inv, Types, TypeOK
<1>5. Types'
    BY <1>1, <1>2, <1>f DEF Inv, Types, TypeOK
<1>3. GuardsOK' /\ StageOK'
    BY <1>1, <1>2, <1>w, MoveKeeps
<1>o. \A u \in Threads : held[u] # fd[t] /\ (u # t /\ pc[u] = "flock" => fd[u] # fd[t])
    BY SMTT(30), <1>f, <1>n DEF Inv, CoreOK
<1>6. CoreOK'
    <2>1. \A u \in Threads : held[u] # None => owner'[held[u]] = u
        BY SMTT(30), <1>h, <1>o DEF Inv, CoreOK, Types, TypeOK
    <2>2. \A u \in Threads : pc'[u] = "flock" =>
              fd'[u] # None /\ owner'[fd'[u]] = u /\ fd'[u] # held[u]
        <3> SUFFICES ASSUME NEW u \in Threads, pc'[u] = "flock"
                     PROVE  fd'[u] # None /\ owner'[fd'[u]] = u /\ fd'[u] # held[u]
            OBVIOUS
        <3>1. u # t /\ pc[u] = "flock" /\ fd'[u] = fd[u]
            BY <1>2, <1>h, <1>w
        <3>2. fd[u] \in Descriptors /\ owner[fd[u]] = u /\ fd[u] # held[u] /\ fd[u] # fd[t]
            BY SMTT(30), <1>o, <3>1 DEF Inv, CoreOK, Types, TypeOK
        <3> QED BY <1>h, <1>n, <3>1, <3>2
    <2>3. \A u \in Threads : pc'[u] \in {"insert", "claim", "wait", "woken"} => fd'[u] # None
        BY SMTT(30), <1>2, <1>h, <1>w DEF Inv, CoreOK
    <2>4. \A d \in Descriptors, u \in Threads :
              owner'[d] = u => held[u] = d \/ (pc'[u] = "flock" /\ fd'[u] = d)
        <3> SUFFICES ASSUME NEW d \in Descriptors, NEW u \in Threads, owner'[d] = u
                     PROVE  held[u] = d \/ (pc'[u] = "flock" /\ fd'[u] = d)
            OBVIOUS
        <3>1. d # fd[t] /\ owner[d] = u
            BY <1>h, <1>n
        <3>2. held[u] = d \/ (pc[u] = "flock" /\ fd[u] = d)
            BY <3>1 DEF Inv, CoreOK
        <3> QED BY <1>2, <1>h, <3>1, <3>2
    <2>5. \A u \in Threads : /\ held[u] # None /\ pc'[u] # "disown" => exclusive = held[u]
                             /\ pc'[u] = "disown" => held[u] # None /\ held[u] # exclusive
        BY <1>1, <1>2, <1>w DEF Inv, CoreOK
    <2>6. UNCHANGED <<held, exclusive, shared>>
        BY <1>1
    <2> QED BY <2>1, <2>2, <2>3, <2>4, <2>5, <2>6 DEF Inv, CoreOK
<1>7. NestedOK'
    <2>1. ASSUME NEW u \in Threads, pc'[u] = "insert"
          PROVE  /\ \A p \in Processes : cached'[p] # fd'[u]
                 /\ \A v \in Threads : held'[v] # fd'[u] /\ (v # u => fd'[v] # fd'[u])
        <3>1. u # t /\ pc[u] = "insert" /\ fd'[u] = fd[u] /\ fd[u] # None
            BY SMTT(30), <1>2, <1>h, <1>w, <2>1 DEF Inv, CoreOK
        <3> QED BY SMTT(30), <1>1, <1>h, <3>1 DEF Inv, NestedOK
    <2>2. ASSUME NEW u \in Threads, pc'[u] = "claim", held'[u] # None,
                 held'[u] = cached'[P(u)]
          PROVE  fd'[u] = held'[u]
        BY <1>1, <1>2, <1>h, <1>w, <2>2 DEF Inv, NestedOK
    <2>3. ASSUME NEW u \in Threads, pc'[u] \in {"wait", "woken", "flock"}, held'[u] # None
          PROVE  held'[u] # cached'[P(u)]
        BY <1>1, <1>2, <1>w, <2>3 DEF Inv, NestedOK, NestedWaitsOnlyIfDropped
    <2> QED BY <2>1, <2>2, <2>3 DEF NestedOK, NestedWaitsOnlyIfDropped, P
<1> QED BY <1>3, <1>5, <1>6, <1>7 DEF Inv

LEMMA UnlockKeeps ==
    ASSUME Inv, NEW t \in Threads, Unlock(t)
    PROVE  Inv' /\ held[t] # None /\ exclusive = held[t]
<1>1. /\ pc[t] = "leave" /\ Top(t) = "cross" /\ exclusive' = None
      /\ pc' = [pc EXCEPT ![t] = "disown"]
      /\ UNCHANGED <<path, todo, guards, mutex, fd, held, calls, tableLock, locked, cached,
                     owner, shared, saving, deaths>>
    BY DEF Unlock, Drops, At, Goto, mutexVars, crossVars, fileVars
<1>h. held[t] # None /\ exclusive = held[t]
    BY SMTT(30), <1>1, FrontOfGuards DEF Inv, GuardsOK, CoreOK
<1>2. /\ pc' \in [Threads -> Places] /\ pc'[t] = "disown"
      /\ \A u \in Threads : u # t => pc'[u] = pc[u]
    BY <1>1 DEF Inv, Types, TypeOK, Places
<1>3. Types'
    BY <1>1, <1>2 DEF Inv, Types, TypeOK
<1>4. GuardsOK'
    BY <1>1, <1>2, <1>h DEF Inv, GuardsOK, Top, P
<1>5. StageOK'
    BY <1>1, <1>2 DEF Inv, StageOK, Busy, P
<1>u. \A u \in Threads : held[u] # None /\ u # t => pc[u] = "disown"
    BY <1>h DEF Inv, CoreOK
<1>6. CoreOK'
    BY SMTT(30), <1>1, <1>2, <1>h, <1>u DEF Inv, CoreOK
<1>7. NestedOK'
    BY <1>1, <1>2 DEF Inv, NestedOK, NestedWaitsOnlyIfDropped, P
<1> QED BY <1>3, <1>4, <1>5, <1>6, <1>7, <1>h DEF Inv

LEMMA DisownKeeps ==
    ASSUME Inv, NEW t \in Threads, Disown(t)
    PROVE  Inv'
<1>n. None \notin Threads \union Descriptors
    BY LocksAssumption
<1> DEFINE w == Leaving(Below(t))
<1>w. w \in Places /\ w \in {"idle", "leave"}
    BY DEF Leaving, Places
<1>1. /\ pc[t] = "disown" /\ owner' = [owner EXCEPT ![held[t]] = None]
      /\ held' = [held EXCEPT ![t] = None] /\ guards' = [guards EXCEPT ![t] = Below(t)]
      /\ Notified(held[t], [pc EXCEPT ![t] = w])
      /\ UNCHANGED <<path, todo, mutex, fd, calls, tableLock, locked, cached, exclusive,
                     shared, saving, deaths>>
    BY DEF Disown, At, mutexVars, crossVars, fileVars
<1>f. /\ held[t] \in Descriptors /\ owner[held[t]] = t /\ held[t] # exclusive
      /\ Top(t) = "cross"
    BY <1>1 DEF Inv, Types, TypeOK, CoreOK, GuardsOK
<1>2. /\ pc' \in [Threads -> Places] /\ pc'[t] = w
      /\ \A u \in Threads : u # t => pc'[u] = pc[u] \/ (pc[u] = "wait" /\ pc'[u] = "woken")
    BY <1>1, <1>f, <1>w, NotifiedFacts
<1>h. /\ held'[t] = None /\ \A u \in Threads : u # t => held'[u] = held[u]
      /\ owner'[held[t]] = None /\ \A d \in Descriptors : d # held[t] => owner'[d] = owner[d]
    BY <1>1, <1>f DEF Inv, Types, TypeOK
<1>3. guards' \in [Threads -> Seq(Guard)] /\ GuardsOK' /\ StageOK'
    BY <1>1, <1>2, <1>f, <1>h, DropKeeps DEF w
<1> HIDE DEF w
<1>5. Types'
    BY <1>1, <1>2, <1>3, <1>f DEF Inv, Types, TypeOK
<1>o. \A u \in Threads : u # t =>
          held[u] # held[t] /\ (pc[u] = "flock" => fd[u] # held[t])
    BY SMTT(30), <1>f, <1>n DEF Inv, CoreOK
<1>6. CoreOK'
    <2>1. \A u \in Threads : held'[u] # None => owner'[held'[u]] = u
        <3> SUFFICES ASSUME NEW u \in Threads, held'[u] # None
                     PROVE  owner'[held'[u]] = u
            OBVIOUS
        <3>1. u # t /\ held'[u] = held[u]
            BY <1>h
        <3>2. held[u] \in Descriptors /\ owner[held[u]] = u /\ held[u] # held[t]
            BY SMTT(30), <1>o, <3>1 DEF Inv, CoreOK, Types, TypeOK
        <3> QED BY <1>h, <3>1, <3>2
    <2>2. \A u \in Threads : pc'[u] = "flock" =>
              fd[u] # None /\ owner'[fd[u]] = u /\ fd[u] # held'[u]
        <3> SUFFICES ASSUME NEW u \in Threads, pc'[u] = "flock"
                     PROVE  fd[u] # None /\ owner'[fd[u]] = u /\ fd[u] # held'[u]
            OBVIOUS
        <3>1. u # t /\ pc[u] = "flock" /\ held'[u] = held[u]
            BY <1>2, <1>h, <1>w
        <3>2. fd[u] \in Descriptors /\ owner[fd[u]] = u /\ fd[u] # held[u] /\ fd[u] # held[t]
            BY SMTT(30), <1>o, <3>1 DEF Inv, CoreOK, Types, TypeOK
        <3> QED BY <1>h, <1>n, <3>1, <3>2
    <2>3. \A u \in Threads : pc'[u] \in {"insert", "claim", "wait", "woken"} => fd[u] # None
        BY <1>2, <1>w DEF Inv, CoreOK
    <2>4. \A d \in Descriptors, u \in Threads :
              owner'[d] = u => held'[u] = d \/ (pc'[u] = "flock" /\ fd[u] = d)
        <3> SUFFICES ASSUME NEW d \in Descriptors, NEW u \in Threads, owner'[d] = u
                     PROVE  held'[u] = d \/ (pc'[u] = "flock" /\ fd[u] = d)
            OBVIOUS
        <3>1. d # held[t] /\ owner[d] = u
            BY <1>h, <1>n
        <3>2. held[u] = d \/ (pc[u] = "flock" /\ fd[u] = d)
            BY <3>1 DEF Inv, CoreOK
        <3> QED BY <1>1, <1>2, <1>h, <3>1, <3>2
    <2>5. \A u \in Threads : /\ held'[u] # None /\ pc'[u] # "disown" => exclusive = held'[u]
                             /\ pc'[u] = "disown" => held'[u] # None /\ held'[u] # exclusive
        BY <1>2, <1>h, <1>w DEF Inv, CoreOK
    <2>6. exclusive # None => shared = {} /\ \E u \in Threads : held'[u] = exclusive
        BY <1>f, <1>h DEF Inv, CoreOK
    <2>7. UNCHANGED <<fd, exclusive, shared>>
        BY <1>1
    <2> QED BY <2>1, <2>2, <2>3, <2>4, <2>5, <2>6, <2>7 DEF CoreOK
<1>7. NestedOK'
    <2>1. ASSUME NEW u \in Threads, pc'[u] = "insert"
          PROVE  /\ \A p \in Processes : cached'[p] # fd'[u]
                 /\ \A v \in Threads : held'[v] # fd'[u] /\ (v # u => fd'[v] # fd'[u])
        <3>1. u # t /\ pc[u] = "insert" /\ fd'[u] = fd[u] /\ fd[u] # None
            BY <1>1, <1>2, <1>w, <2>1 DEF Inv, CoreOK
        <3> QED BY SMTT(30), <1>1, <1>h, <3>1 DEF Inv, NestedOK
    <2>2. ASSUME NEW u \in Threads, pc'[u] = "claim", held'[u] # None,
                 held'[u] = cached'[P(u)]
          PROVE  fd'[u] = held'[u]
        BY <1>1, <1>2, <1>h, <1>w, <2>2 DEF Inv, NestedOK
    <2>3. ASSUME NEW u \in Threads, pc'[u] \in {"wait", "woken", "flock"}, held'[u] # None
          PROVE  held'[u] # cached'[P(u)]
        BY <1>1, <1>2, <1>h, <1>w, <2>3 DEF Inv, NestedOK, NestedWaitsOnlyIfDropped
    <2> QED BY <2>1, <2>2, <2>3 DEF NestedOK, NestedWaitsOnlyIfDropped, P
<1> QED BY <1>3, <1>5, <1>6, <1>7 DEF Inv
=============================================================================
