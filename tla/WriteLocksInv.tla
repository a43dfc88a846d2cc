---------------------------- MODULE WriteLocksInv ----------------------------
(*****************************************************************************)
(* The inductive invariant of WriteLocks, for every number of processes,     *)
(* threads and descriptors: it relates a thread's place, its guards and the  *)
(* layers it still has to take to the owner of the cached descriptor and to  *)
(* the file lock.  Here: the frame lemmas, and the steps that leave the file *)
(* lock and the owners of descriptors alone.                                 *)
(*****************************************************************************)
EXTENDS WriteLocks, SequenceTheorems, TLAPS

Layer == {"mutex", "cross", "save", "shared"}
Guard == Layer \union {"noop"}
Entry == {"sql", "copy", "binding", "api", "direct", "commit", "read"}

NeedsCross(a) == a \in {"sql", "copy", "binding", "api"}
NeedsSave(a) == a \in {"copy", "binding", "api", "direct"}

Contains(s, x) == \E i \in 1..Len(s) : s[i] = x

\* No two guards of a stack own the same lock.
Distinct(s) ==
    \A i, j \in 1..Len(s) : s[i] = s[j] /\ s[i] \in {"cross", "save"} => i = j

\* The layer a thread is taking at a place.
Taking(where) ==
    CASE where \in {"mutex", "mutexNew", "mutexLock"} -> "mutex"
      [] where \in {"cross", "insert", "claim", "wait", "woken", "flock"} -> "cross"
      [] OTHER -> where

Busy(t) == pc[t] \notin {"idle", "leave", "disown"}

Types ==
    /\ TypeOK
    /\ path \in [Threads -> Entry]
    /\ todo \in [Threads -> Seq(Layer)]
    /\ guards \in [Threads -> Seq(Guard)]

\* Who owns a descriptor and who has the file lock.
CoreOK ==
    /\ \A t \in Threads : held[t] # None => owner[held[t]] = t
    /\ \A t \in Threads :
          pc[t] = "flock" => fd[t] # None /\ owner[fd[t]] = t /\ fd[t] # held[t]
    /\ \A t \in Threads : pc[t] \in {"insert", "claim", "wait", "woken"} => fd[t] # None
    /\ \A d \in Descriptors, t \in Threads :
          owner[d] = t => held[t] = d \/ (pc[t] = "flock" /\ fd[t] = d)
    /\ \A t \in Threads : held[t] # None /\ pc[t] # "disown" => exclusive = held[t]
    /\ \A t \in Threads : pc[t] = "disown" => held[t] # None /\ held[t] # exclusive
    /\ exclusive # None => shared = {} /\ \E t \in Threads : held[t] = exclusive

\* What a guard stands for.
GuardsOK ==
    \A t \in Threads :
        /\ pc[t] \in {"leave", "disown"} => guards[t] # <<>>
        /\ pc[t] = "disown" => Top(t) = "cross"
        /\ Contains(guards[t], "cross") => held[t] # None
        /\ Contains(guards[t], "save") => saving[P(t)] = t
        /\ Distinct(guards[t])

\* A layer of the entry point is held or still to be taken.
StageOK ==
    \A t \in Threads : Busy(t) =>
        /\ First(todo[t]) = Taking(pc[t])
        /\ NeedsCross(path[t]) => held[t] # None \/ Contains(todo[t], "cross")
        /\ NeedsSave(path[t]) => saving[P(t)] = t \/ Contains(todo[t], "save")

\* A thread that holds the cached descriptor finds itself its owner.
NestedOK ==
    /\ \A t \in Threads : pc[t] = "insert" =>
          /\ \A p \in Processes : cached[p] # fd[t]
          /\ \A u \in Threads : held[u] # fd[t] /\ (u # t => fd[u] # fd[t])
    /\ \A t \in Threads :
          pc[t] = "claim" /\ held[t] # None /\ held[t] = cached[P(t)] => fd[t] = held[t]
    /\ NestedWaitsOnlyIfDropped

Inv == Types /\ CoreOK /\ GuardsOK /\ StageOK /\ NestedOK

-----------------------------------------------------------------------------
(* Sequences of layers and guards. *)

\* What is left of a sequence without its head.
LEMMA TailFacts ==
    ASSUME NEW S, NEW s \in Seq(S), s # <<>>
    PROVE  /\ Tail(s) \in Seq(S) /\ Head(s) \in S
           /\ \A x : Contains(s, x) /\ x # Head(s) => Contains(Tail(s), x)
<1>1. Len(s) \in Nat /\ Len(s) # 0 /\ Head(s) = s[1] /\ Head(s) \in S
    OBVIOUS
<1>2. Tail(s) \in Seq(S) /\ Len(Tail(s)) = Len(s) - 1
    OBVIOUS
<1>3. \A i \in 1..Len(Tail(s)) : Tail(s)[i] = s[i + 1]
    OBVIOUS
<1>4. ASSUME NEW x, Contains(s, x), x # Head(s)
      PROVE  Contains(Tail(s), x)
    <2>1. PICK i \in 1..Len(s) : s[i] = x
        BY <1>4 DEF Contains
    <2>2. i # 1 /\ i - 1 \in 1..Len(Tail(s)) /\ (i - 1) + 1 = i
        BY <2>1, <1>4, <1>1, <1>2
    <2> QED BY <2>1, <2>2, <1>3 DEF Contains
<1> QED BY <1>1, <1>2, <1>4

\* A guard pushed on a stack of guards.
LEMMA AppendFacts ==
    ASSUME NEW s \in Seq(Guard), NEW g \in Guard
    PROVE  /\ Append(s, g) \in Seq(Guard) /\ Append(s, g) # <<>>
           /\ \A x : Contains(Append(s, g), x) => x = g \/ Contains(s, x)
           /\ Distinct(s) /\ (~Contains(s, g) \/ g \notin {"cross", "save"})
                  => Distinct(Append(s, g))
<1> DEFINE a == Append(s, g)
<1>1. a \in Seq(Guard) /\ Len(a) = Len(s) + 1 /\ a[Len(s) + 1] = g
      /\ Len(s) \in Nat /\ \A i \in 1..Len(s) : a[i] = s[i]
    OBVIOUS
<1>2. a # <<>>
    BY <1>1
<1> HIDE DEF a
<1>3. \A i \in 1..Len(a) : i = Len(s) + 1 \/ i \in 1..Len(s)
    BY <1>1
<1>4. \A x : Contains(a, x) => x = g \/ Contains(s, x)
    BY <1>1, <1>3 DEF Contains
<1>5. ASSUME ~Contains(s, g) \/ g \notin {"cross", "save"}, Distinct(s)
      PROVE  Distinct(a)
    BY <1>1, <1>3, <1>5 DEF Contains, Distinct
<1> QED BY <1>1, <1>2, <1>4, <1>5 DEF a

\* A prefix of a stack of guards.
LEMMA PrefixFacts ==
    ASSUME NEW s \in Seq(Guard), NEW n \in Nat, n <= Len(s)
    PROVE  /\ SubSeq(s, 1, n) \in Seq(Guard) /\ Len(SubSeq(s, 1, n)) = n
           /\ \A i \in 1..n : SubSeq(s, 1, n)[i] = s[i]
<1>1. \A i \in 1..n : s[i] \in Guard
    OBVIOUS
<1>2. /\ SubSeq(s, 1, n) \in Seq(Guard)
      /\ Len(SubSeq(s, 1, n)) = IF 1 <= n THEN n - 1 + 1 ELSE 0
      /\ \A i \in 1..n - 1 + 1 : SubSeq(s, 1, n)[i] = s[1 + i - 1]
    BY <1>1, SubSeqProperties
<1>3. n - 1 + 1 = n /\ \A i \in 1..n : 1 + i - 1 = i
    OBVIOUS
<1> QED BY <1>2, <1>3

\* The last guard popped.
LEMMA FrontFacts ==
    ASSUME NEW s \in Seq(Guard), s # <<>>
    PROVE  /\ SubSeq(s, 1, Len(s) - 1) \in Seq(Guard)
           /\ Contains(s, s[Len(s)])
           /\ \A x : Contains(SubSeq(s, 1, Len(s) - 1), x) => Contains(s, x)
           /\ Distinct(s) =>
                  /\ Distinct(SubSeq(s, 1, Len(s) - 1))
                  /\ s[Len(s)] \in {"cross", "save"} =>
                         ~Contains(SubSeq(s, 1, Len(s) - 1), s[Len(s)])
<1> DEFINE f == SubSeq(s, 1, Len(s) - 1)
<1>0. Len(s) \in Nat /\ Len(s) # 0
    OBVIOUS
<1>1. f \in Seq(Guard) /\ Len(f) = Len(s) - 1 /\ \A i \in 1..Len(f) : f[i] = s[i]
    <2>1. Len(s) - 1 \in Nat /\ Len(s) - 1 <= Len(s)
        BY <1>0
    <2> QED BY <2>1, PrefixFacts
<1> HIDE DEF f
<1>2. Len(s) \in 1..Len(s) /\ \A i \in 1..Len(f) : i \in 1..Len(s) /\ i # Len(s)
    BY <1>0, <1>1
<1>3. Contains(s, s[Len(s)]) /\ \A x : Contains(f, x) => Contains(s, x)
    BY <1>1, <1>2 DEF Contains
<1>4. ASSUME Distinct(s)
      PROVE  /\ Distinct(f)
             /\ s[Len(s)] \in {"cross", "save"} => ~Contains(f, s[Len(s)])
    BY <1>1, <1>2, <1>4 DEF Contains, Distinct
<1> QED BY <1>1, <1>3, <1>4 DEF f

-----------------------------------------------------------------------------
(* What the shared parts of the actions do. *)

\* Taking a layer: the guard is pushed, and the layers left but that one remain.
LEMMA TookFacts ==
    ASSUME Inv, NEW t \in Threads, NEW g \in Guard, Busy(t), pc[t] # "work", Took(t, g)
    PROVE  /\ todo' \in [Threads -> Seq(Layer)] /\ guards' \in [Threads -> Seq(Guard)]
           /\ pc' \in [Threads -> Places] /\ pc'[t] \in Layer \union {"work"}
           /\ First(todo'[t]) = Taking(pc'[t])
           /\ \A x : Contains(todo[t], x) /\ x # Taking(pc[t]) => Contains(todo'[t], x)
           /\ \A x : Contains(guards'[t], x) => x = g \/ Contains(guards[t], x)
           /\ ~Contains(guards[t], g) \/ g \notin {"cross", "save"} => Distinct(guards'[t])
           /\ \A u \in Threads : u # t =>
                 pc'[u] = pc[u] /\ todo'[u] = todo[u] /\ guards'[u] = guards[u]
<1> USE DEF Inv, Types, TypeOK
<1>1. todo[t] \in Seq(Layer) /\ guards[t] \in Seq(Guard) /\ pc[t] \in Places
    OBVIOUS
<1>2. First(todo[t]) = Taking(pc[t]) /\ Taking(pc[t]) # "work"
    BY <1>1 DEF StageOK, Busy, Taking, Places
<1>3. todo[t] # <<>> /\ Head(todo[t]) = Taking(pc[t])
    BY <1>2 DEF First
<1>4. /\ Tail(todo[t]) \in Seq(Layer)
      /\ \A x : Contains(todo[t], x) /\ x # Taking(pc[t]) => Contains(Tail(todo[t]), x)
    BY <1>1, <1>3, TailFacts
<1>5. First(Tail(todo[t])) \in Layer \union {"work"}
    BY <1>4, HeadTailProperties DEF First
<1>6. /\ Append(guards[t], g) \in Seq(Guard)
      /\ \A x : Contains(Append(guards[t], g), x) => x = g \/ Contains(guards[t], x)
      /\ ~Contains(guards[t], g) \/ g \notin {"cross", "save"}
            => Distinct(Append(guards[t], g))
    BY <1>1, AppendFacts DEF GuardsOK
<1>7. guards' = [guards EXCEPT ![t] = Append(guards[t], g)]
      /\ todo' = [todo EXCEPT ![t] = Tail(todo[t])]
      /\ pc' = [pc EXCEPT ![t] = First(Tail(todo[t]))]
    BY DEF Took, Goto
<1>8. guards'[t] = Append(guards[t], g) /\ todo'[t] = Tail(todo[t])
      /\ pc'[t] = First(Tail(todo[t]))
    BY <1>7
<1>9. First(todo'[t]) = Taking(pc'[t])
    BY <1>5, <1>8 DEF Taking, Layer
<1>12. pc' \in [Threads -> Places]
    BY <1>5, <1>7 DEF Layer, Places
<1>10. todo' \in [Threads -> Seq(Layer)] /\ guards' \in [Threads -> Seq(Guard)]
    BY <1>4, <1>6, <1>7
<1>11. \A u \in Threads : u # t =>
          pc'[u] = pc[u] /\ todo'[u] = todo[u] /\ guards'[u] = guards[u]
    BY <1>7
<1> QED BY <1>4, <1>5, <1>6, <1>7, <1>8, <1>9, <1>10, <1>11, <1>12

\* Dropping the innermost guard: the lock it stands for has no other guard.
LEMMA FrontOfGuards ==
    ASSUME Inv, NEW t \in Threads, pc[t] \in {"leave", "disown"}
    PROVE  /\ Below(t) \in Seq(Guard) /\ Contains(guards[t], Top(t)) /\ Distinct(Below(t))
           /\ \A x : Contains(Below(t), x) => Contains(guards[t], x)
           /\ Top(t) \in {"cross", "save"} => ~Contains(Below(t), Top(t))
           /\ Leaving(Below(t)) \in {"idle", "leave"}
           /\ Leaving(Below(t)) = "leave" => Below(t) # <<>>
<1>1. guards[t] \in Seq(Guard) /\ guards[t] # <<>> /\ Distinct(guards[t])
    BY DEF Inv, Types, GuardsOK
<1> QED BY <1>1, FrontFacts DEF Below, Top, Leaving

\* notify_one changes nobody's place but that of one sleeping thread.
LEMMA NotifiedFacts ==
    ASSUME Inv, NEW d \in Descriptors, NEW t \in Threads, NEW w \in Places, pc[t] # "wait",
           Notified(d, [pc EXCEPT ![t] = w])
    PROVE  /\ pc' \in [Threads -> Places] /\ pc'[t] = w
           /\ \A u \in Threads : u # t =>
                 pc'[u] = pc[u] \/ (pc[u] = "wait" /\ pc'[u] = "woken")
<1>1. pc \in [Threads -> Places] /\ "woken" \in Places
    BY DEF Inv, Types, TypeOK, Places
<1>2. CASE Waiters(d) = {}
    BY <1>1, <1>2 DEF Notified
<1>3. CASE Waiters(d) # {}
    <2>1. PICK u \in Waiters(d) : pc' = [[pc EXCEPT ![t] = w] EXCEPT ![u] = "woken"]
        BY <1>3 DEF Notified
    <2>2. u \in Threads /\ pc[u] = "wait" /\ u # t
        BY <2>1 DEF Waiters, At
    <2> QED BY <1>1, <2>1, <2>2
<1> QED BY <1>2, <1>3

-----------------------------------------------------------------------------
(* Frames: what a step keeps that only moves a thread, takes or drops a guard. *)

\* A move between places at which a thread has no claim on a descriptor.
LEMMA QuietKeeps ==
    ASSUME Inv, NEW t \in Threads, NEW w \in Places, pc'[t] = w,
           \A u \in Threads : u # t => pc'[u] = pc[u],
           w \notin {"insert", "claim", "wait", "woken", "flock", "disown"},
           pc[t] \notin {"flock", "disown"},
           UNCHANGED <<fd, held, owner, exclusive, shared, cached>>
    PROVE  CoreOK' /\ NestedOK'
<1>2. CoreOK'
    BY DEF Inv, CoreOK
<1>3. NestedOK'
    BY DEF Inv, NestedOK, NestedWaitsOnlyIfDropped, P
<1> QED BY <1>2, <1>3

\* A move that takes and drops no guard.
LEMMA MoveKeeps ==
    ASSUME Inv, NEW t \in Threads, NEW w \in Places, pc' \in [Threads -> Places],
           pc'[t] = w, w # "disown",
           \A u \in Threads : u # t =>
               pc'[u] = pc[u] \/ (pc[u] = "wait" /\ pc'[u] = "woken"),
           UNCHANGED <<path, todo, guards, held, saving>>,
           w = "leave" => guards[t] # <<>>,
           w \notin {"idle", "leave"} => Busy(t) /\ Taking(w) = Taking(pc[t])
    PROVE  GuardsOK' /\ StageOK'
<1>1. GuardsOK'
    BY DEF Inv, GuardsOK, Top, P
<1>2. ASSUME NEW u \in Threads, Busy(u)'
      PROVE  Busy(u) /\ Taking(pc'[u]) = Taking(pc[u])
    BY <1>2 DEF Busy, Taking
<1>3. StageOK'
    BY <1>2 DEF Inv, StageOK, P
<1> QED BY <1>1, <1>3

\* A layer taken.
LEMMA TookKeeps ==
    ASSUME Inv, NEW t \in Threads, NEW g \in Guard, Busy(t), pc[t] # "work", Took(t, g),
           UNCHANGED path,
           g = "cross" => held[t] = None /\ held'[t] # None,
           g = "save" => saving[P(t)] = None /\ saving'[P(t)] = t,
           Taking(pc[t]) = "cross" => held'[t] # None,
           Taking(pc[t]) = "save" => saving'[P(t)] = t,
           held[t] # None => held'[t] # None,
           \A u \in Threads : u # t => held'[u] = held[u],
           \A u \in Threads : saving[P(u)] = u => saving'[P(u)] = u
    PROVE  /\ pc' \in [Threads -> Places] /\ todo' \in [Threads -> Seq(Layer)]
           /\ guards' \in [Threads -> Seq(Guard)]
           /\ GuardsOK' /\ StageOK'
<1>1. /\ todo' \in [Threads -> Seq(Layer)] /\ guards' \in [Threads -> Seq(Guard)]
      /\ pc' \in [Threads -> Places] /\ pc'[t] \in Layer \union {"work"}
      /\ First(todo'[t]) = Taking(pc'[t])
      /\ \A x : Contains(todo[t], x) /\ x # Taking(pc[t]) => Contains(todo'[t], x)
      /\ \A x : Contains(guards'[t], x) => x = g \/ Contains(guards[t], x)
      /\ ~Contains(guards[t], g) \/ g \notin {"cross", "save"} => Distinct(guards'[t])
      /\ \A u \in Threads : u # t =>
            pc'[u] = pc[u] /\ todo'[u] = todo[u] /\ guards'[u] = guards[u]
    BY TookFacts
<1>n. None \notin Threads
    BY LocksAssumption
<1>3. GuardsOK'
    <2>1. ~Contains(guards[t], g) \/ g \notin {"cross", "save"}
        BY <1>n DEF Inv, GuardsOK
    <2>2. ASSUME NEW u \in Threads, u # t
          PROVE  /\ pc'[u] \in {"leave", "disown"} => guards'[u] # <<>>
                 /\ pc'[u] = "disown" => guards'[u][Len(guards'[u])] = "cross"
                 /\ Contains(guards'[u], "cross") => held'[u] # None
                 /\ Contains(guards'[u], "save") => saving'[P(u)] = u
                 /\ Distinct(guards'[u])
        <3>1. pc'[u] = pc[u] /\ guards'[u] = guards[u]
            BY <1>1, <2>2
        <3> QED BY <2>2, <3>1 DEF Inv, GuardsOK, Top
    <2>3. /\ pc'[t] \notin {"leave", "disown"}
          /\ Contains(guards'[t], "cross") => held'[t] # None
          /\ Contains(guards'[t], "save") => saving'[P(t)] = t
          /\ Distinct(guards'[t])
        BY <1>1, <2>1 DEF Inv, GuardsOK, Layer
    <2> QED BY <2>2, <2>3 DEF GuardsOK, Top, P
<1>4. StageOK'
    <2>1. ASSUME NEW u \in Threads, u # t, pc'[u] \notin {"idle", "leave", "disown"}
          PROVE  /\ First(todo'[u]) = Taking(pc'[u])
                 /\ NeedsCross(path[u]) => held'[u] # None \/ Contains(todo'[u], "cross")
                 /\ NeedsSave(path[u]) => saving'[P(u)] = u \/ Contains(todo'[u], "save")
        BY <1>1, <2>1 DEF Inv, StageOK, Busy
    <2>2. /\ First(todo'[t]) = Taking(pc'[t])
          /\ NeedsCross(path[t]) => held'[t] # None \/ Contains(todo'[t], "cross")
          /\ NeedsSave(path[t]) => saving'[P(t)] = t \/ Contains(todo'[t], "save")
        BY <1>1 DEF Inv, StageOK
    <2> QED BY <2>1, <2>2 DEF StageOK, Busy, P
<1> QED BY <1>1, <1>3, <1>4

\* A guard dropped.
LEMMA DropKeeps ==
    ASSUME Inv, NEW t \in Threads, pc[t] \in {"leave", "disown"},
           guards' = [guards EXCEPT ![t] = Below(t)],
           pc' \in [Threads -> Places], pc'[t] = Leaving(Below(t)),
           \A u \in Threads : u # t =>
               pc'[u] = pc[u] \/ (pc[u] = "wait" /\ pc'[u] = "woken"),
           UNCHANGED <<path, todo>>,
           \A u \in Threads : u # t => held'[u] = held[u],
           \A u \in Threads : u # t /\ saving[P(u)] = u => saving'[P(u)] = u,
           Top(t) # "cross" => held'[t] = held[t],
           Top(t) # "save" => saving'[P(t)] = saving[P(t)]
    PROVE  guards' \in [Threads -> Seq(Guard)] /\ GuardsOK' /\ StageOK'
<1>1. /\ Below(t) \in Seq(Guard) /\ Contains(guards[t], Top(t)) /\ Distinct(Below(t))
      /\ \A x : Contains(Below(t), x) => Contains(guards[t], x)
      /\ Top(t) \in {"cross", "save"} => ~Contains(Below(t), Top(t))
      /\ Leaving(Below(t)) \in {"idle", "leave"}
      /\ Leaving(Below(t)) = "leave" => Below(t) # <<>>
    BY FrontOfGuards
<1>2. guards' \in [Threads -> Seq(Guard)] /\ guards'[t] = Below(t)
      /\ \A u \in Threads : u # t => guards'[u] = guards[u]
    BY <1>1 DEF Inv, Types
<1>3. GuardsOK'
    <2>2. ASSUME NEW u \in Threads, u # t
          PROVE  /\ pc'[u] \in {"leave", "disown"} => guards'[u] # <<>>
                 /\ pc'[u] = "disown" => guards'[u][Len(guards'[u])] = "cross"
                 /\ Contains(guards'[u], "cross") => held'[u] # None
                 /\ Contains(guards'[u], "save") => saving'[P(u)] = u
                 /\ Distinct(guards'[u])
        BY <1>2, <2>2 DEF Inv, GuardsOK, Top
    <2>3. /\ pc'[t] \in {"leave", "disown"} => guards'[t] # <<>>
          /\ pc'[t] # "disown"
          /\ Contains(guards'[t], "cross") => held'[t] # None
          /\ Contains(guards'[t], "save") => saving'[P(t)] = t
          /\ Distinct(guards'[t])
        BY <1>1, <1>2 DEF Inv, GuardsOK
    <2> QED BY <2>2, <2>3 DEF GuardsOK, Top, P
<1>4. StageOK'
    <2>1. ASSUME NEW u \in Threads, Busy(u)'
          PROVE  u # t /\ Busy(u) /\ Taking(pc'[u]) = Taking(pc[u])
        BY <1>1, <2>1 DEF Busy, Taking
    <2> QED BY <2>1 DEF Inv, StageOK, P
<1> QED BY <1>2, <1>3, <1>4

-----------------------------------------------------------------------------
(* The actions. *)

\* What the layers of an entry point contain.
LEMMA LayersFacts ==
    ASSUME NEW a \in Entry
    PROVE  /\ Layers(a) \in Seq(Layer)
           /\ NeedsCross(a) => Contains(Layers(a), "cross")
           /\ NeedsSave(a) => Contains(Layers(a), "save")
           /\ First(Layers(a)) \in Layer \union {"work"}
<1>1. CASE a = "sql"
    <2> DEFINE s == <<"mutex", "cross">>
    <2>1. Layers(a) = s
        BY <1>1 DEF Layers
    <2>2. s \in Seq(Layer) /\ s # <<>> /\ Head(s) = "mutex"
        BY DEF Layer
    <2>3. Len(s) = 2 /\ s[1] = "mutex" /\ s[2] = "cross"
        OBVIOUS
    <2> HIDE DEF s
    <2>4. Contains(s, "mutex") /\ Contains(s, "cross")
        BY <2>3 DEF Contains
    <2> QED BY <1>1, <2>1, <2>2, <2>4 DEF Layer, NeedsCross, NeedsSave, First
<1>2. CASE a = "copy"
    <2> DEFINE s == <<"mutex", "cross", "save">>
    <2>1. Layers(a) = s
        BY <1>2 DEF Layers
    <2>2. s \in Seq(Layer) /\ s # <<>> /\ Head(s) = "mutex"
        BY DEF Layer
    <2>3. Len(s) = 3 /\ s[1] = "mutex" /\ s[2] = "cross" /\ s[3] = "save"
        OBVIOUS
    <2> HIDE DEF s
    <2>4. Contains(s, "mutex") /\ Contains(s, "cross") /\ Contains(s, "save")
        BY <2>3 DEF Contains
    <2> QED BY <1>2, <2>1, <2>2, <2>4 DEF Layer, NeedsCross, NeedsSave, First
<1>3. CASE a = "binding"
    <2> DEFINE s == <<"cross", "cross", "save">>
    <2>1. Layers(a) = s
        BY <1>3 DEF Layers
    <2>2. s \in Seq(Layer) /\ s # <<>> /\ Head(s) = "cross"
        BY DEF Layer
    <2>3. Len(s) = 3 /\ s[1] = "cross" /\ s[2] = "cross" /\ s[3] = "save"
        OBVIOUS
    <2> HIDE DEF s
    <2>4. Contains(s, "cross") /\ Contains(s, "save")
        BY <2>3 DEF Contains
    <2> QED BY <1>3, <2>1, <2>2, <2>4 DEF Layer, NeedsCross, NeedsSave, First
<1>4. CASE a = "api"
    <2> DEFINE s == <<"cross", "save">>
    <2>1. Layers(a) = s
        BY <1>4 DEF Layers
    <2>2. s \in Seq(Layer) /\ s # <<>> /\ Head(s) = "cross"
        BY DEF Layer
    <2>3. Len(s) = 2 /\ s[1] = "cross" /\ s[2] = "save"
        OBVIOUS
    <2> HIDE DEF s
    <2>4. Contains(s, "cross") /\ Contains(s, "save")
        BY <2>3 DEF Contains
    <2> QED BY <1>4, <2>1, <2>2, <2>4 DEF Layer, NeedsCross, NeedsSave, First
<1>5. CASE a = "direct"
    <2> DEFINE s == <<"save">>
    <2>1. Layers(a) = s
        BY <1>5 DEF Layers
    <2>2. s \in Seq(Layer) /\ s # <<>> /\ Head(s) = "save"
        BY DEF Layer
    <2>3. Len(s) = 1 /\ s[1] = "save"
        OBVIOUS
    <2> HIDE DEF s
    <2>4. Contains(s, "save")
        BY <2>3 DEF Contains
    <2> QED BY <1>5, <2>1, <2>2, <2>4 DEF Layer, NeedsCross, NeedsSave, First
<1>6. CASE a = "read"
    <2> DEFINE s == <<"shared">>
    <2>1. Layers(a) = s
        BY <1>6 DEF Layers
    <2>2. s \in Seq(Layer) /\ s # <<>> /\ Head(s) = "shared"
        BY DEF Layer
    <2>3. Len(s) = 1 /\ s[1] = "shared"
        OBVIOUS
    <2> HIDE DEF s
    <2>4. Contains(s, "shared")
        BY <2>3 DEF Contains
    <2> QED BY <1>6, <2>1, <2>2, <2>4 DEF Layer, NeedsCross, NeedsSave, First
<1>7. CASE a = "commit"
    <2>1. Layers(a) = <<>>
        BY <1>7 DEF Layers
    <2>2. <<>> \in Seq(Layer) /\ First(<<>>) = "work"
        BY DEF First
    <2> QED BY <1>7, <2>1, <2>2 DEF NeedsCross, NeedsSave
<1> QED BY <1>1, <1>2, <1>3, <1>4, <1>5, <1>6, <1>7 DEF Entry

LEMMA BeginKeeps ==
    ASSUME Inv, NEW t \in Threads, Begin(t)
    PROVE  Inv'
<1>1. PICK a \in Paths[t] : /\ path' = [path EXCEPT ![t] = a]
                            /\ todo' = [todo EXCEPT ![t] = Layers(a)]
                            /\ pc' = [pc EXCEPT ![t] = First(Layers(a))]
    BY DEF Begin, Goto
<1>2. a \in Entry
    BY <1>1, LocksAssumption DEF Entry
<1> DEFINE w == First(Layers(a))
<1>3. /\ Layers(a) \in Seq(Layer) /\ w \in Layer \union {"work"}
      /\ NeedsCross(a) => Contains(Layers(a), "cross")
      /\ NeedsSave(a) => Contains(Layers(a), "save")
    BY <1>2, LayersFacts
<1>4. /\ pc \in [Threads -> Places] /\ w \in Places /\ pc' \in [Threads -> Places]
      /\ pc'[t] = w /\ \A u \in Threads : u # t => pc'[u] = pc[u]
    BY <1>1, <1>3 DEF Inv, Types, TypeOK, Layer, Places
<1>5. Types'
    BY <1>1, <1>2, <1>3, <1>4 DEF Inv, Types, TypeOK, Begin, mutexVars, crossVars, fileVars
<1>6. CoreOK' /\ NestedOK'
    BY <1>3, <1>4, QuietKeeps DEF Begin, At, Layer, mutexVars, crossVars, fileVars
<1>7. GuardsOK'
    BY <1>3, <1>4 DEF Inv, GuardsOK, Begin, Top, P, Layer
<1>8. StageOK'
    <2>1. ASSUME NEW u \in Threads, u # t, Busy(u)'
          PROVE  Busy(u) /\ path'[u] = path[u] /\ todo'[u] = todo[u] /\ pc'[u] = pc[u]
        BY <1>1, <1>4, <2>1 DEF Inv, Types, Busy
    <2>2. path'[t] = a /\ todo'[t] = Layers(a) /\ First(todo'[t]) = pc'[t]
          /\ Taking(pc'[t]) = pc'[t]
        BY <1>1, <1>3, <1>4 DEF Inv, Types, Taking, Layer
    <2>3. UNCHANGED <<held, saving>>
        BY DEF Begin
    <2> QED BY <1>3, <2>1, <2>2, <2>3 DEF Inv, StageOK, P
<1> QED BY <1>5, <1>6, <1>7, <1>8 DEF Inv

LEMMA WorkKeeps ==
    ASSUME Inv, NEW t \in Threads, Work(t)
    PROVE  Inv'
<1> DEFINE w == Leaving(guards[t])
<1>1. w \in Places /\ w \in {"idle", "leave"} /\ (w = "leave" => guards[t] # <<>>)
    BY DEF Leaving, Places
<1> HIDE DEF w
<1>2. pc' = [pc EXCEPT ![t] = w] /\ pc[t] = "work"
      /\ UNCHANGED <<path, todo, guards, mutex, fd, held, calls, tableLock, locked, cached,
                     owner, exclusive, shared, saving, deaths>>
    BY DEF Work, At, Goto, w, mutexVars, crossVars, fileVars
<1>3. Types' /\ pc'[t] = w /\ \A u \in Threads : u # t => pc'[u] = pc[u]
    BY <1>1, <1>2 DEF Inv, Types, TypeOK
<1>4. CoreOK' /\ NestedOK'
    BY <1>1, <1>2, <1>3, QuietKeeps
<1>5. GuardsOK' /\ StageOK'
    BY <1>1, <1>2, <1>3, MoveKeeps DEF Types, TypeOK
<1> QED BY <1>3, <1>4, <1>5 DEF Inv

LEMMA MutexGetKeeps ==
    ASSUME Inv, NEW t \in Threads, MutexGet(t)
    PROVE  Inv'
<1> DEFINE w == IF tableLock[P(t)] = None THEN "mutexNew" ELSE "mutexLock"
<1>1. w \in Places /\ w \in {"mutexNew", "mutexLock"}
    BY DEF Places
<1> HIDE DEF w
<1>2. /\ pc' = [pc EXCEPT ![t] = w] /\ pc[t] = "mutex"
      /\ mutex' = [mutex EXCEPT ![t] = tableLock[P(t)]]
      /\ UNCHANGED <<path, todo, guards, fd, held, calls, tableLock, locked, cached,
                     owner, exclusive, shared, saving, deaths>>
    BY DEF MutexGet, At, Goto, w, mutexVars, crossVars, fileVars
<1>p. P(t) \in Processes
    BY LocksAssumption DEF P
<1>3. Types' /\ pc'[t] = w /\ \A u \in Threads : u # t => pc'[u] = pc[u]
    BY <1>1, <1>2, <1>p DEF Inv, Types, TypeOK
<1>4. CoreOK' /\ NestedOK'
    BY <1>1, <1>2, <1>3, QuietKeeps
<1>5. GuardsOK' /\ StageOK'
    BY <1>1, <1>2, <1>3, MoveKeeps DEF Types, TypeOK, Busy, Taking
<1> QED BY <1>3, <1>4, <1>5 DEF Inv

LEMMA MutexPutKeeps ==
    ASSUME Inv, NEW t \in Threads, MutexPut(t)
    PROVE  Inv'
<1>1. "mutexLock" \in Places
    BY DEF Places
<1>2. /\ pc' = [pc EXCEPT ![t] = "mutexLock"] /\ pc[t] = "mutexNew"
      /\ mutex' = [mutex EXCEPT ![t] = t]
      /\ tableLock' = [tableLock EXCEPT ![P(t)] = IF @ = None THEN t ELSE @]
      /\ UNCHANGED <<path, todo, guards, fd, held, calls, locked, cached,
                     owner, exclusive, shared, saving, deaths>>
    BY DEF MutexPut, At, Goto, mutexVars, crossVars, fileVars
<1>p. P(t) \in Processes
    BY LocksAssumption DEF P
<1>3. Types' /\ pc'[t] = "mutexLock" /\ \A u \in Threads : u # t => pc'[u] = pc[u]
    BY <1>1, <1>2, <1>p DEF Inv, Types, TypeOK
<1>4. CoreOK' /\ NestedOK'
    BY <1>1, <1>2, <1>3, QuietKeeps
<1>5. GuardsOK' /\ StageOK'
    BY <1>1, <1>2, <1>3, MoveKeeps DEF Types, TypeOK, Busy, Taking
<1> QED BY <1>3, <1>4, <1>5 DEF Inv

LEMMA MutexLockKeeps ==
    ASSUME Inv, NEW t \in Threads, MutexLock(t)
    PROVE  Inv'
<1>1. /\ pc[t] = "mutexLock" /\ Took(t, "mutex") /\ locked[mutex[t]] = None
      /\ locked' = [locked EXCEPT ![mutex[t]] = t]
      /\ UNCHANGED <<path, mutex, fd, held, calls, tableLock, cached, owner, exclusive,
                     shared, saving, deaths>>
    BY DEF MutexLock, At, mutexVars, crossVars, fileVars
<1>2. Busy(t) /\ "mutex" \in Guard /\ Taking(pc[t]) = "mutex"
    BY <1>1 DEF Busy, Guard, Layer, Taking
<1>3. /\ pc' \in [Threads -> Places] /\ todo' \in [Threads -> Seq(Layer)]
      /\ guards' \in [Threads -> Seq(Guard)] /\ GuardsOK' /\ StageOK'
    BY <1>1, <1>2, TookKeeps
<1>4. /\ pc'[t] \in Layer \union {"work"} /\ \A u \in Threads : u # t => pc'[u] = pc[u]
    BY <1>1, <1>2, TookFacts
<1>5. Types'
    BY <1>1, <1>3 DEF Inv, Types, TypeOK
<1>6. CoreOK' /\ NestedOK'
    BY <1>1, <1>3, <1>4, QuietKeeps DEF Layer
<1> QED BY <1>3, <1>5, <1>6 DEF Inv

LEMMA NestedKeeps ==
    ASSUME Inv, NEW t \in Threads, Nested(t)
    PROVE  Inv'
<1>1. /\ pc[t] = "claim" /\ Took(t, "noop") /\ owner[fd[t]] = t
      /\ fd' = [fd EXCEPT ![t] = None]
      /\ UNCHANGED <<path, mutex, held, calls, tableLock, locked, cached, owner, exclusive,
                     shared, saving, deaths>>
    BY DEF Nested, At, mutexVars, crossVars, fileVars
<1>2. Busy(t) /\ "noop" \in Guard /\ Taking(pc[t]) = "cross"
    BY <1>1 DEF Busy, Guard, Layer, Taking
<1>h. held[t] # None
    BY <1>1 DEF Inv, Types, TypeOK, CoreOK
<1>3. /\ pc' \in [Threads -> Places] /\ todo' \in [Threads -> Seq(Layer)]
      /\ guards' \in [Threads -> Seq(Guard)] /\ GuardsOK' /\ StageOK'
    BY <1>1, <1>2, <1>h, TookKeeps
<1>4. /\ pc'[t] \in Layer \union {"work"} /\ \A u \in Threads : u # t => pc'[u] = pc[u]
    BY <1>1, <1>2, TookFacts
<1>f. fd \in [Threads -> Descriptors \union {None}]
      /\ \A u \in Threads : u # t => fd'[u] = fd[u]
    BY <1>1 DEF Inv, Types, TypeOK
<1>5. Types'
    BY <1>1, <1>3 DEF Inv, Types, TypeOK
<1>6. CoreOK'
    <2>1. pc'[t] \notin {"insert", "claim", "wait", "woken", "flock", "disown"}
        BY <1>4 DEF Layer
    <2>2. UNCHANGED <<held, owner, exclusive, shared>>
        BY <1>1
    <2>3. \A u \in Threads : pc'[u] = "flock" =>
              fd'[u] # None /\ owner[fd'[u]] = u /\ fd'[u] # held[u]
        BY <1>4, <1>f, <2>1 DEF Inv, CoreOK
    <2>4. \A u \in Threads : pc'[u] \in {"insert", "claim", "wait", "woken"} => fd'[u] # None
        BY <1>4, <1>f, <2>1 DEF Inv, CoreOK
    <2>5. \A d \in Descriptors, u \in Threads :
              owner[d] = u => held[u] = d \/ (pc'[u] = "flock" /\ fd'[u] = d)
        BY <1>1, <1>4, <1>f DEF Inv, CoreOK
    <2>6. \A u \in Threads : /\ held[u] # None /\ pc'[u] # "disown" => exclusive = held[u]
                             /\ pc'[u] = "disown" => held[u] # None /\ held[u] # exclusive
        BY <1>1, <1>4, <2>1 DEF Inv, CoreOK
    <2> QED BY <2>2, <2>3, <2>4, <2>5, <2>6 DEF Inv, CoreOK
<1>7. NestedOK'
    <2>1. fd'[t] = None
        BY <1>1, <1>f
    <2>2. \A u \in Threads : pc[u] = "insert" => fd[u] # None
        BY DEF Inv, CoreOK
    <2> QED BY <1>1, <1>4, <1>f, <2>1, <2>2
            DEF Inv, NestedOK, NestedWaitsOnlyIfDropped, P, Layer
<1> QED BY <1>3, <1>5, <1>6, <1>7 DEF Inv

LEMMA SaveLockKeeps ==
    ASSUME Inv, NEW t \in Threads, SaveLock(t)
    PROVE  Inv'
<1>1. /\ pc[t] = "save" /\ Took(t, "save") /\ saving[P(t)] = None
      /\ saving' = [saving EXCEPT ![P(t)] = t]
      /\ UNCHANGED <<path, mutex, fd, held, calls, tableLock, locked, cached, owner,
                     exclusive, shared, deaths>>
    BY DEF SaveLock, At, mutexVars, crossVars, fileVars
<1>2. Busy(t) /\ "save" \in Guard /\ Taking(pc[t]) = "save"
    BY <1>1 DEF Busy, Guard, Layer, Taking
<1>p. /\ saving \in [Processes -> Threads \union {None}] /\ None \notin Threads
      /\ \A u \in Threads : P(u) \in Processes
    BY LocksAssumption DEF P, Inv, Types, TypeOK
<1>s. saving'[P(t)] = t /\ \A u \in Threads : saving[P(u)] = u => saving'[P(u)] = u
    BY <1>1, <1>p
<1>3. /\ pc' \in [Threads -> Places] /\ todo' \in [Threads -> Seq(Layer)]
      /\ guards' \in [Threads -> Seq(Guard)] /\ GuardsOK' /\ StageOK'
    BY <1>1, <1>2, <1>s, TookKeeps
<1>4. /\ pc'[t] \in Layer \union {"work"} /\ \A u \in Threads : u # t => pc'[u] = pc[u]
    BY <1>1, <1>2, TookFacts
<1>5. Types'
    BY <1>1, <1>3, <1>p DEF Inv, Types, TypeOK
<1>6. CoreOK' /\ NestedOK'
    BY <1>1, <1>3, <1>4, QuietKeeps DEF Layer
<1> QED BY <1>3, <1>5, <1>6 DEF Inv

\* The places a thread reaches when it drops a guard.
LEMMA DroppedPlaces ==
    ASSUME Inv, NEW t \in Threads, pc[t] = "leave", Dropped(t)
    PROVE  /\ pc' \in [Threads -> Places] /\ pc'[t] = Leaving(Below(t))
           /\ pc'[t] \in {"idle", "leave"} /\ guards' = [guards EXCEPT ![t] = Below(t)]
           /\ \A u \in Threads : u # t => pc'[u] = pc[u]
<1>1. pc \in [Threads -> Places] /\ Leaving(Below(t)) \in {"idle", "leave"}
    BY DEF Inv, Types, TypeOK, Leaving
<1> QED BY <1>1 DEF Dropped, Goto, Places

LEMMA MutexUnlockKeeps ==
    ASSUME Inv, NEW t \in Threads, MutexUnlock(t)
    PROVE  Inv'
<1>1. /\ pc[t] = "leave" /\ Top(t) = "mutex" /\ Dropped(t)
      /\ locked' = [locked EXCEPT ![mutex[t]] = None] /\ mutex' = [mutex EXCEPT ![t] = None]
      /\ UNCHANGED <<path, todo, fd, held, calls, tableLock, cached, owner, exclusive,
                     shared, saving, deaths>>
    BY DEF MutexUnlock, Drops, At, mutexVars, crossVars, fileVars
<1>2. /\ pc' \in [Threads -> Places] /\ pc'[t] = Leaving(Below(t))
      /\ pc'[t] \in {"idle", "leave"} /\ guards' = [guards EXCEPT ![t] = Below(t)]
      /\ \A u \in Threads : u # t => pc'[u] = pc[u]
    BY <1>1, DroppedPlaces
<1>3. guards' \in [Threads -> Seq(Guard)] /\ GuardsOK' /\ StageOK'
    BY <1>1, <1>2, DropKeeps
<1>4. Types'
    BY <1>1, <1>2, <1>3 DEF Inv, Types, TypeOK
<1>5. CoreOK' /\ NestedOK'
    BY <1>1, <1>2, QuietKeeps
<1> QED BY <1>3, <1>4, <1>5 DEF Inv

LEMMA DropNestedKeeps ==
    ASSUME Inv, NEW t \in Threads, DropNested(t)
    PROVE  Inv'
<1>1. /\ pc[t] = "leave" /\ Top(t) = "noop" /\ Dropped(t)
      /\ UNCHANGED <<path, todo, mutex, fd, held, calls, tableLock, locked, cached, owner,
                     exclusive, shared, saving, deaths>>
    BY DEF DropNested, Drops, At, mutexVars, crossVars, fileVars
<1>2. /\ pc' \in [Threads -> Places] /\ pc'[t] = Leaving(Below(t))
      /\ pc'[t] \in {"idle", "leave"} /\ guards' = [guards EXCEPT ![t] = Below(t)]
      /\ \A u \in Threads : u # t => pc'[u] = pc[u]
    BY <1>1, DroppedPlaces
<1>3. guards' \in [Threads -> Seq(Guard)] /\ GuardsOK' /\ StageOK'
    BY <1>1, <1>2, DropKeeps
<1>4. Types'
    BY <1>1, <1>2, <1>3 DEF Inv, Types, TypeOK
<1>5. CoreOK' /\ NestedOK'
    BY <1>1, <1>2, QuietKeeps
<1> QED BY <1>3, <1>4, <1>5 DEF Inv

LEMMA SaveUnlockKeeps ==
    ASSUME Inv, NEW t \in Threads, SaveUnlock(t)
    PROVE  Inv'
<1>1. /\ pc[t] = "leave" /\ Top(t) = "save" /\ Dropped(t)
      /\ saving' = [saving EXCEPT ![P(t)] = None]
      /\ UNCHANGED <<path, todo, mutex, fd, held, calls, tableLock, locked, cached, owner,
                     exclusive, shared, deaths>>
    BY DEF SaveUnlock, Drops, At, mutexVars, crossVars, fileVars
<1>2. /\ pc' \in [Threads -> Places] /\ pc'[t] = Leaving(Below(t))
      /\ pc'[t] \in {"idle", "leave"} /\ guards' = [guards EXCEPT ![t] = Below(t)]
      /\ \A u \in Threads : u # t => pc'[u] = pc[u]
    BY <1>1, DroppedPlaces
<1>s. saving[P(t)] = t
    BY <1>1, FrontOfGuards DEF Inv, GuardsOK
<1>p. saving \in [Processes -> Threads \union {None}] /\ \A u \in Threads : P(u) \in Processes
    BY LocksAssumption DEF P, Inv, Types, TypeOK
<1>u. \A u \in Threads : u # t /\ saving[P(u)] = u => saving'[P(u)] = u
    BY <1>1, <1>s, <1>p
<1>3. guards' \in [Threads -> Seq(Guard)] /\ GuardsOK' /\ StageOK'
    BY <1>1, <1>2, <1>u, DropKeeps
<1>4. Types'
    BY <1>1, <1>2, <1>3, <1>p DEF Inv, Types, TypeOK
<1>5. CoreOK' /\ NestedOK'
    BY <1>1, <1>2, QuietKeeps
<1> QED BY <1>3, <1>4, <1>5 DEF Inv

LEMMA LookupKeeps ==
    ASSUME Inv, NEW t \in Threads, Lookup(t)
    PROVE  Inv'
<1>p. P(t) \in Processes /\ None \notin Descriptors
    BY LocksAssumption DEF P
<1>1. /\ pc[t] = "cross"
      /\ UNCHANGED <<path, todo, guards, mutex, held, calls, tableLock, locked, cached,
                     owner, exclusive, shared, saving, deaths>>
    BY DEF Lookup, At, mutexVars, crossVars, fileVars
<1>2. PICK d \in Descriptors, w \in {"claim", "insert"} :
          /\ fd' = [fd EXCEPT ![t] = d] /\ pc' = [pc EXCEPT ![t] = w]
          /\ w = "claim" => d = cached[P(t)]
          /\ w = "insert" => Closed(d)
    <2>1. CASE cached[P(t)] # None
        BY <2>1, <1>p DEF Lookup, Goto, Inv, Types, TypeOK
    <2>2. CASE cached[P(t)] = None
        <3> DEFINE d == CHOOSE d \in Descriptors : Closed(d)
        <3>1. d \in Descriptors /\ Closed(d)
            BY <2>2 DEF Lookup
        <3>2. fd' = [fd EXCEPT ![t] = d] /\ pc' = [pc EXCEPT ![t] = "insert"]
            BY <2>2 DEF Lookup, Goto
        <3> HIDE DEF d
        <3> QED BY <3>1, <3>2
    <2> QED BY <2>1, <2>2
<1>3. /\ pc' \in [Threads -> Places] /\ pc'[t] = w /\ w \in Places
      /\ fd' \in [Threads -> Descriptors \union {None}] /\ fd'[t] = d /\ d # None
      /\ \A u \in Threads : u # t => pc'[u] = pc[u] /\ fd'[u] = fd[u]
    BY <1>2, <1>p DEF Inv, Types, TypeOK, Places
<1>4. Types'
    BY <1>1, <1>3 DEF Inv, Types, TypeOK
<1>5. GuardsOK' /\ StageOK'
    BY <1>1, <1>2, <1>3, MoveKeeps DEF Busy, Taking
<1>6. CoreOK'
    BY <1>1, <1>2, <1>3 DEF Inv, CoreOK
<1>7. NestedOK'
    <2>1. ASSUME NEW u \in Threads, pc'[u] = "insert"
          PROVE  /\ \A p \in Processes : cached'[p] # fd'[u]
                 /\ \A v \in Threads : held'[v] # fd'[u] /\ (v # u => fd'[v] # fd'[u])
        BY <1>1, <1>2, <1>3, <1>p, <2>1 DEF Inv, NestedOK, Closed
    <2>2. ASSUME NEW u \in Threads, pc'[u] = "claim", held'[u] # None,
                 held'[u] = cached'[P(u)]
          PROVE  fd'[u] = held'[u]
        BY <1>1, <1>2, <1>3, <2>2 DEF Inv, NestedOK
    <2>3. ASSUME NEW u \in Threads, pc'[u] \in {"wait", "woken", "flock"}, held'[u] # None
          PROVE  held'[u] # cached'[P(u)]
        BY <1>1, <1>2, <1>3, <2>3 DEF Inv, NestedOK, NestedWaitsOnlyIfDropped
    <2> QED BY <2>1, <2>2, <2>3 DEF NestedOK, NestedWaitsOnlyIfDropped, P
<1> QED BY <1>4, <1>5, <1>6, <1>7 DEF Inv
=============================================================================
