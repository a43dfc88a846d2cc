-------------------------- MODULE AdmissionProofs --------------------------
(***************************************************************************)
(* The admission queue is counted and bounded, no wake-up is lost, and a    *)
(* queued statement is never turned away for a full queue: for every budget, *)
(* queue bound and number of statements.                                    *)
(***************************************************************************)
EXTENDS Admission, FiniteSetTheorems, TLAPS

\* The three invariants are inductive together with the types.
IInv == TypeOK /\ WithinBudget /\ QueueCounted /\ NoLostSlot

\* A reservation is a number of bytes, whatever the configuration.
LEMMA ReservationType ==
    ASSUME NEW heavy \in BOOLEAN
    PROVE  reservation_for(heavy) \in Nat
BY ConfigAssumption DEF reservation_for, Least, AtLeastOne

\* Arithmetic of the test against the budget.
LEMMA TooBig == \A u, b, m \in Nat : u + b > m => ~(u + b <= m)
OBVIOUS

\* The statements that wait in acquire can be counted.
LEMMA WaitersFinite == IsFiniteSet(Waiters) /\ Cardinality(Waiters) \in Nat
<1>1. Waiters \subseteq Stmts
  BY DEF Waiters
<1>2. IsFiniteSet(Waiters)
  BY <1>1, StmtsAssumption, FS_Subset
<1> QED  BY <1>2, FS_CardinalityType

\* A statement that stops waiting is the only one to leave the queue.
LEMMA LeavesQueue ==
    ASSUME TypeOK, NEW s \in Stmts, NEW v, v # "waiting", st' = [st EXCEPT ![s] = v]
    PROVE  Waiters' = Waiters \ {s}
BY DEF Waiters, TypeOK

\* A statement that starts to wait is the only one to join the queue.
LEMMA JoinsQueue ==
    ASSUME TypeOK, NEW s \in Stmts, st' = [st EXCEPT ![s] = "waiting"]
    PROVE  Waiters' = (Waiters \ {s}) \cup {s}
BY DEF Waiters, TypeOK

\* Without one of its members the queue is one shorter.
LEMMA WaiterCounts ==
    ASSUME NEW s \in Waiters
    PROVE  Cardinality(Waiters \ {s}) = Cardinality(Waiters) - 1 /\ Cardinality(Waiters) >= 1
<1>1. IsFiniteSet(Waiters \ {s}) /\ Cardinality(Waiters \ {s}) = Cardinality(Waiters) - 1
  BY WaitersFinite, FS_RemoveElement
<1>2. Cardinality(Waiters \ {s}) \in Nat
  BY <1>1, FS_CardinalityType
<1> QED  BY <1>1, <1>2, WaitersFinite

\* One pass of the loop of acquire, by a statement that is not counted among
\* the w that wait: it keeps the count exact, and the budget respected.
LEMMA AttemptCounts ==
    ASSUME TypeOK, WithinBudget, NEW s \in Stmts, NEW b \in Nat, NEW w \in Nat,
           w = Cardinality(Waiters \ {s}), w <= QueueMax, Attempt(s, b, w)
    PROVE  /\ QueueCounted' /\ WithinBudget'
           /\ used' \in Nat /\ used' >= used /\ waiting' \in Nat
           /\ \E v \in States : st' = [st EXCEPT ![s] = v] /\ (v = "waiting" => used' + b > Budget)
<1> USE ConfigAssumption
<1>f. IsFiniteSet(Waiters \ {s}) /\ s \notin Waiters \ {s}
  BY WaitersFinite, FS_RemoveElement
<1>j. Cardinality((Waiters \ {s}) \cup {s}) = w + 1
  BY <1>f, FS_AddElement
<1>1. CASE used + b <= Budget /\ used' = used + b /\ waiting' = w
           /\ st' = [st EXCEPT ![s] = "running"]
  <2>1. Waiters' = Waiters \ {s}
    BY <1>1, LeavesQueue
  <2> QED  BY <1>1, <2>1 DEF QueueCounted, WithinBudget, States, TypeOK
<1>2. CASE st' = [st EXCEPT ![s] = "queue_full"] /\ waiting' = w /\ used' = used
  <2>1. Waiters' = Waiters \ {s}
    BY <1>2, LeavesQueue
  <2> QED  BY <1>2, <2>1 DEF QueueCounted, WithinBudget, States, TypeOK
<1>3. CASE st' = [st EXCEPT ![s] = "timeout"] /\ waiting' = w /\ used' = used
  <2>1. Waiters' = Waiters \ {s}
    BY <1>3, LeavesQueue
  <2> QED  BY <1>3, <2>1 DEF QueueCounted, WithinBudget, States, TypeOK
<1>4. CASE used + b > Budget /\ w < QueueMax /\ st' = [st EXCEPT ![s] = "waiting"]
           /\ waiting' = w + 1 /\ used' = used
  <2>1. Waiters' = (Waiters \ {s}) \cup {s}
    BY <1>4, JoinsQueue
  <2> QED  BY <1>4, <1>j, <2>1 DEF QueueCounted, WithinBudget, States, TypeOK
<1> QED  BY <1>1, <1>2, <1>3, <1>4 DEF Attempt

\* A statement that wakes has room in the queue: the place it held.
LEMMA WakeHasRoom ==
    ASSUME TypeOK, QueueCounted, NEW s \in Stmts, st[s] = "waiting"
    PROVE  /\ waiting - 1 \in Nat /\ waiting - 1 = Cardinality(Waiters \ {s})
           /\ waiting - 1 < QueueMax
<1>1. s \in Waiters
  BY DEF Waiters
<1> QED  BY <1>1, WaiterCounts, WaitersFinite, ConfigAssumption DEF QueueCounted

\* The invariant holds of a new AdmissionController.
LEMMA InitInv == Init => IInv
<1> SUFFICES ASSUME Init PROVE IInv
  OBVIOUS
<1>1. Waiters = {}
  BY DEF Init, Waiters
<1>2. Cardinality(Waiters) = 0
  BY <1>1, FS_EmptySet
<1> QED  BY <1>2, ConfigAssumption
  DEF Init, IInv, TypeOK, States, WithinBudget, QueueCounted, NoLostSlot

\* The first pass of acquire keeps the invariant.
LEMMA AcquireInv == ASSUME IInv, NEW s \in Stmts, Acquire(s) PROVE IInv'
<1> USE DEF IInv
<1>1. PICK heavy \in BOOLEAN, late \in BOOLEAN :
         /\ expired' = IF late THEN expired \cup {s} ELSE expired
         /\ bytes' = [bytes EXCEPT ![s] = reservation_for(heavy)]
         /\ Attempt(s, reservation_for(heavy), waiting)
  BY DEF Acquire
<1>b. PICK b \in Nat : b = reservation_for(heavy)
  BY ReservationType
<1>2. st[s] = "idle" /\ notified' = notified
  BY DEF Acquire
<1>3. Waiters \ {s} = Waiters
  BY <1>2 DEF Waiters
<1>4. waiting \in Nat /\ waiting = Cardinality(Waiters \ {s}) /\ waiting <= QueueMax
  BY <1>3 DEF QueueCounted, TypeOK
<1>5. Attempt(s, b, waiting) /\ bytes' = [bytes EXCEPT ![s] = b]
  BY <1>1, <1>b
<1>6. /\ QueueCounted' /\ WithinBudget' /\ used' \in Nat /\ used' >= used /\ waiting' \in Nat
      /\ \E v \in States : st' = [st EXCEPT ![s] = v] /\ (v = "waiting" => used' + b > Budget)
  BY <1>4, <1>5, AttemptCounts
<1>7. PICK v \in States : st' = [st EXCEPT ![s] = v] /\ (v = "waiting" => used' + b > Budget)
  BY <1>6
<1>8. TypeOK'
  BY <1>1, <1>2, <1>5, <1>6, <1>7 DEF TypeOK
<1>9. NoLostSlot'
  <2> SUFFICES ASSUME NEW t \in Stmts, st'[t] = "waiting", t \notin notified',
                      used' + bytes'[t] <= Budget
               PROVE  \E r \in Stmts : st'[r] = "notify"
    BY DEF NoLostSlot
  <2>1. t # s
    <3>1. bytes'[s] = b /\ st'[s] = v
      BY <1>5, <1>7 DEF TypeOK
    <3>2. used' \in Nat
      BY <1>6
    <3>3. v = "waiting" => ~(used' + b <= Budget)
      BY <1>7, <3>2, TooBig, ConfigAssumption
    <3> QED  BY <3>1, <3>3
  <2>2. st[t] = "waiting" /\ t \notin notified /\ bytes'[t] = bytes[t]
    BY <1>2, <1>5, <1>7, <2>1 DEF TypeOK
  <2>3. used + bytes[t] <= Budget
    BY <1>6, <2>2, ConfigAssumption DEF TypeOK
  <2>4. PICK r \in Stmts : st[r] = "notify"
    BY <2>2, <2>3 DEF NoLostSlot
  <2> QED  BY <1>2, <1>7, <2>4 DEF TypeOK
<1> QED  BY <1>6, <1>8, <1>9

\* A pass of acquire after a wake-up keeps the invariant.
LEMMA WakeInv == ASSUME IInv, NEW s \in Stmts, WakeAgain(s) PROVE IInv'
<1> USE DEF IInv
<1>1. /\ st[s] = "waiting" /\ notified' = notified \ {s}
      /\ bytes' = bytes /\ expired' = expired /\ Attempt(s, bytes[s], waiting - 1)
  BY DEF WakeAgain
<1>2. waiting - 1 \in Nat /\ waiting - 1 = Cardinality(Waiters \ {s}) /\ waiting - 1 <= QueueMax
  BY <1>1, WakeHasRoom, ConfigAssumption
<1>3. bytes[s] \in Nat
  BY DEF TypeOK
<1>4. /\ QueueCounted' /\ WithinBudget' /\ used' \in Nat /\ used' >= used /\ waiting' \in Nat
      /\ \E v \in States : st' = [st EXCEPT ![s] = v] /\ (v = "waiting" => used' + bytes[s] > Budget)
  BY <1>1, <1>2, <1>3, AttemptCounts
<1>5. PICK v \in States : st' = [st EXCEPT ![s] = v] /\ (v = "waiting" => used' + bytes[s] > Budget)
  BY <1>4
<1>6. TypeOK'
  BY <1>1, <1>4, <1>5 DEF TypeOK
<1>7. NoLostSlot'
  BY <1>1, <1>3, <1>4, <1>5, ConfigAssumption DEF NoLostSlot, TypeOK
<1> QED  BY <1>4, <1>6, <1>7

\* Giving up after the deadline keeps the invariant.
LEMMA TimedOutInv == ASSUME IInv, NEW s \in Stmts, WakeTimedOut(s) PROVE IInv'
<1> USE DEF IInv
<1>1. waiting - 1 \in Nat /\ waiting - 1 = Cardinality(Waiters \ {s}) /\ waiting - 1 < QueueMax
  BY WakeHasRoom DEF WakeTimedOut
<1>2. Waiters' = Waiters \ {s}
  BY LeavesQueue DEF WakeTimedOut
<1>3. TypeOK' /\ WithinBudget'
  BY <1>1 DEF WakeTimedOut, TypeOK, States, WithinBudget
<1>4. QueueCounted'
  BY <1>1, <1>2, ConfigAssumption DEF WakeTimedOut, QueueCounted
<1>5. NoLostSlot'
  BY DEF WakeTimedOut, NoLostSlot, TypeOK
<1> QED  BY <1>3, <1>4, <1>5

\* The remaining steps leave the queue as it is.
LEMMA OtherInv ==
    ASSUME IInv, NEW s \in Stmts, Expire(s) \/ Release(s) \/ Notify(s) \/ Return(s)
    PROVE  IInv'
<1> USE DEF IInv
<1>1. Waiters' = Waiters /\ waiting' = waiting
  BY DEF Waiters, Expire, Release, Notify, Return, TypeOK
<1>2. QueueCounted'
  BY <1>1 DEF QueueCounted
<1>3. CASE Expire(s)
  BY <1>2, <1>3 DEF Expire, TypeOK, WithinBudget, NoLostSlot
<1>4. CASE Release(s)
  <2>1. used' \in Nat /\ used' <= used
    BY <1>4 DEF Release, TypeOK
  <2>2. CASE bytes[s] = 0
    <3>1. used' = used /\ st' = [st EXCEPT ![s] = "idle"]
      BY <1>4, <2>2 DEF Release, TypeOK
    <3> QED  BY <1>2, <1>4, <2>1, <3>1, ConfigAssumption
      DEF Release, TypeOK, States, WithinBudget, NoLostSlot
  <2>3. CASE bytes[s] # 0
    <3>1. st' = [st EXCEPT ![s] = "notify"]
      BY <1>4, <2>3 DEF Release
    <3> QED  BY <1>2, <1>4, <2>1, <3>1, ConfigAssumption
      DEF Release, TypeOK, States, WithinBudget, NoLostSlot
  <2> QED  BY <2>2, <2>3
<1>5. CASE Notify(s)
  BY <1>2, <1>5 DEF Notify, TypeOK, States, WithinBudget, NoLostSlot
<1>6. CASE Return(s)
  BY <1>2, <1>6 DEF Return, TypeOK, States, WithinBudget, NoLostSlot
<1> QED  BY <1>3, <1>4, <1>5, <1>6

\* Steps of the rest of the process keep the invariant.
LEMMA StutterInv == IInv /\ UNCHANGED vars => IInv'
<1> SUFFICES ASSUME IInv, UNCHANGED vars PROVE IInv'
  OBVIOUS
<1>1. Waiters' = Waiters
  BY DEF Waiters, vars
<1> QED  BY <1>1 DEF IInv, vars, TypeOK, WithinBudget, QueueCounted, NoLostSlot

\* Counts, bound, budget and wake-ups hold together in every state the
\* controller reaches (acquire, release).
THEOREM AdmissionInv == Spec => []IInv
<1>1. IInv /\ [Next]_vars => IInv'
  BY AcquireInv, WakeInv, TimedOutInv, OtherInv, StutterInv DEF Next, WakeNotified, WakeSpurious
<1> QED  BY <1>1, InitInv, PTL DEF Spec

\* The waiting count of the controller is exact and bounded (acquire).
THEOREM QueueIsBounded == Spec => []QueueCounted
<1>1. IInv => QueueCounted
  BY DEF IInv
<1> QED  BY <1>1, AdmissionInv, PTL

\* No release leaves a statement asleep that fits (release, slot_freed).
THEOREM SlotsAreNotLost == Spec => []NoLostSlot
<1>1. IInv => NoLostSlot
  BY DEF IInv
<1> QED  BY <1>1, AdmissionInv, PTL

\* Only a statement that never waited is told that the queue is full: a woken
\* one finds the place it has just left (acquire).
THEOREM QueuedIsKept == Spec => QueuedIsNotRejected
<1> DEFINE Kept == \A s \in Stmts : st[s] = "waiting" => st'[s] # "queue_full"
<1>1. ASSUME IInv, [Next]_vars PROVE [Kept]_vars
  <2> SUFFICES ASSUME Next, NEW s \in Stmts, st[s] = "waiting" PROVE st'[s] # "queue_full"
    BY <1>1
  <2> USE <1>1 DEF IInv
  <2>1. PICK u \in Stmts :
          \/ Acquire(u) \/ Expire(u) \/ WakeTimedOut(u) \/ WakeNotified(u) \/ WakeSpurious(u)
          \/ Release(u) \/ Notify(u) \/ Return(u)
    BY DEF Next
  <2>2. CASE u # s
    BY <2>1, <2>2 DEF Acquire, Expire, WakeTimedOut, WakeNotified, WakeSpurious, WakeAgain,
                      Attempt, Release, Notify, Return, TypeOK
  <2>3. CASE u = s /\ WakeAgain(s)
    <3>1. waiting - 1 < QueueMax /\ waiting - 1 \in Nat
      BY WakeHasRoom
    <3> QED  BY <2>3, <3>1, ConfigAssumption DEF WakeAgain, Attempt, TypeOK
  <2>4. CASE u = s /\ ~WakeAgain(s)
    BY <2>1, <2>4 DEF Acquire, Expire, WakeTimedOut, WakeNotified, WakeSpurious,
                      Release, Notify, Return, TypeOK
  <2> QED  BY <2>2, <2>3, <2>4
<1> QED  BY <1>1, AdmissionInv, PTL DEF Spec, QueuedIsNotRejected
=============================================================================
