----------------------------- MODULE Admission -----------------------------
(***************************************************************************)
(* The process-wide admission controller of admission.rs: a mutex-protected *)
(* reservation count, a bounded number of waiting statements, and a         *)
(* condition variable signalled when a reservation is returned.             *)
(*                                                                          *)
(* A thread holds the mutex from its lock, or from its wake-up, until it    *)
(* returns or waits again, so that stretch is one action.  Memory is        *)
(* counted in units of the smallest reservation.                            *)
(***************************************************************************)
EXTENDS Naturals, FiniteSets, FiniteSetsExt

CONSTANTS
    Stmts,       \* statements of concurrent sessions
    Budget,      \* APEX_PROCESS_BUDGET_MB, 0 when admission is disabled
    LightBytes,  \* APEX_QUERY_ADMISSION_MB, 0: the whole budget
    PerQuery,    \* APEX_QUERY_MEMORY_MB, 0: unlimited
    QueueMax     \* APEX_QUERY_QUEUE_MAX

ASSUME StmtsAssumption == IsFiniteSet(Stmts)
ASSUME ConfigAssumption ==
    Budget \in Nat /\ LightBytes \in Nat /\ PerQuery \in Nat /\ QueueMax \in Nat

VARIABLES
    used,      \* used_bytes
    waiting,   \* number of statements counted as waiting
    st,        \* what each statement is doing
    bytes,     \* its reservation, while it waits, runs or releases
    expired,   \* statements whose deadline has passed
    notified   \* waiting statements that the condition variable has signalled

vars == <<used, waiting, st, bytes, expired, notified>>

Least(a, b) == IF a <= b THEN a ELSE b
AtLeastOne(n) == IF n = 0 THEN 1 ELSE n

reservation_for(heavy) ==
    IF Budget = 0 THEN 0
    ELSE IF heavy THEN AtLeastOne(IF PerQuery = 0 THEN Budget ELSE Least(PerQuery, Budget))
    ELSE AtLeastOne(IF LightBytes = 0 THEN Budget ELSE Least(LightBytes, Budget))

Init ==
    /\ used = 0 /\ waiting = 0
    /\ st = [s \in Stmts |-> "idle"] /\ bytes = [s \in Stmts |-> 0]
    /\ expired = {} /\ notified = {}

\* Mutant: room is looked for before the reservation is added.
AttemptIgnoresSize(s, b, w) ==
    \/ /\ used < Budget
       /\ used' = used + b /\ waiting' = w
       /\ st' = [st EXCEPT ![s] = "running"]
    \/ /\ used >= Budget /\ w < QueueMax /\ s \notin expired'
       /\ st' = [st EXCEPT ![s] = "waiting"]
       /\ waiting' = w + 1 /\ UNCHANGED used

\* One pass of the loop of acquire, with w statements waiting.
Attempt(s, b, w) ==
    \/ /\ used + b <= Budget
       /\ used' = used + b /\ waiting' = w
       /\ st' = [st EXCEPT ![s] = "running"]
    \/ /\ used + b > Budget /\ w >= QueueMax
       /\ st' = [st EXCEPT ![s] = "queue_full"]
       /\ waiting' = w /\ UNCHANGED used
    \/ /\ used + b > Budget /\ w < QueueMax /\ s \in expired'
       /\ st' = [st EXCEPT ![s] = "timeout"]
       /\ waiting' = w /\ UNCHANGED used
    \/ /\ used + b > Budget /\ w < QueueMax /\ s \notin expired'
       /\ st' = [st EXCEPT ![s] = "waiting"]
       /\ waiting' = w + 1 /\ UNCHANGED used

\* admit_statement, admit_heavy_statement: the deadline may have passed before
\* the mutex is obtained, and has when the configured wait is zero.
Acquire(s) ==
    /\ st[s] = "idle"
    /\ \E heavy \in BOOLEAN, late \in BOOLEAN :
         LET b == reservation_for(heavy) IN
         /\ expired' = IF late THEN expired \cup {s} ELSE expired
         /\ bytes' = [bytes EXCEPT ![s] = b]
         /\ Attempt(s, b, waiting)
    /\ UNCHANGED notified

\* The deadline of a waiting statement passes.
Expire(s) ==
    /\ st[s] = "waiting" /\ s \notin expired
    /\ expired' = expired \cup {s}
    /\ UNCHANGED <<used, waiting, st, bytes, notified>>

\* Mutant: a statement that gives up stays counted.
TimeoutStaysCounted(s) ==
    /\ st[s] = "waiting" /\ s \in expired
    /\ st' = [st EXCEPT ![s] = "timeout"]
    /\ notified' = notified \ {s}
    /\ UNCHANGED <<used, waiting, bytes, expired>>

\* Mutant: a timed-out wait starts over with a new deadline.
TimeoutWaitsAgain(s) ==
    /\ st[s] = "waiting" /\ s \in expired
    /\ expired' = expired \ {s}
    /\ UNCHANGED <<used, waiting, st, bytes, notified>>

\* wait_timeout reports a timeout: rejected without another look at the budget.
WakeTimedOut(s) ==
    /\ st[s] = "waiting" /\ s \in expired
    /\ st' = [st EXCEPT ![s] = "timeout"]
    /\ waiting' = waiting - 1
    /\ notified' = notified \ {s}
    /\ UNCHANGED <<used, bytes, expired>>

\* Mutant: the statement still counts itself when it tests the queue again.
WakeStillCounted(s) ==
    /\ st[s] = "waiting"
    /\ notified' = notified \ {s}
    /\ UNCHANGED <<bytes, expired>>
    /\ Attempt(s, bytes[s], waiting)

\* wait_timeout returns for a signal, or for no reason at all.
WakeAgain(s) ==
    /\ st[s] = "waiting"
    /\ notified' = notified \ {s}
    /\ UNCHANGED <<bytes, expired>>
    /\ Attempt(s, bytes[s], waiting - 1)
WakeNotified(s) == s \in notified /\ WakeAgain(s)
WakeSpurious(s) == s \notin notified /\ WakeAgain(s)

\* Dropping QueryAdmission: release gives the bytes back under the mutex ...
Release(s) ==
    /\ st[s] = "running"
    /\ used' = IF used >= bytes[s] THEN used - bytes[s] ELSE 0
    /\ st' = [st EXCEPT ![s] = IF bytes[s] = 0 THEN "idle" ELSE "notify"]
    /\ bytes' = [bytes EXCEPT ![s] = 0]
    /\ expired' = expired \ {s}
    /\ UNCHANGED <<waiting, notified>>

\* Mutant: notify_one, which may pick a statement that does not fit.
NotifyOneOnly(s) ==
    /\ st[s] = "notify"
    /\ \E u \in Stmts : st[u] = "waiting" /\ notified' = notified \cup {u}
    /\ st' = [st EXCEPT ![s] = "idle"]
    /\ UNCHANGED <<used, waiting, bytes, expired>>

\* ... and signals every waiting statement after unlocking it.
Notify(s) ==
    /\ st[s] = "notify"
    /\ notified' = {u \in Stmts : st[u] = "waiting"}
    /\ st' = [st EXCEPT ![s] = "idle"]
    /\ UNCHANGED <<used, waiting, bytes, expired>>

\* A rejected statement is reported and may be issued again.
Return(s) ==
    /\ st[s] \in {"queue_full", "timeout"}
    /\ st' = [st EXCEPT ![s] = "idle"]
    /\ bytes' = [bytes EXCEPT ![s] = 0]
    /\ expired' = expired \ {s}
    /\ UNCHANGED <<used, waiting, notified>>

Next == \E s \in Stmts :
    \/ Acquire(s) \/ Expire(s) \/ WakeTimedOut(s) \/ WakeNotified(s) \/ WakeSpurious(s)
    \/ Release(s) \/ Notify(s) \/ Return(s)

Spec == Init /\ [][Next]_vars

\* Time passes, a timed-out wait returns, and a statement that runs ends.
Fairness == \A s \in Stmts : /\ WF_vars(Expire(s)) /\ WF_vars(WakeTimedOut(s))
                             /\ WF_vars(WakeNotified(s))
                             /\ WF_vars(Release(s)) /\ WF_vars(Notify(s))
FairSpec == Spec /\ Fairness

----------------------------------------------------------------------------
(* Properties. *)

States == {"idle", "waiting", "running", "notify", "queue_full", "timeout"}

Waiters == {s \in Stmts : st[s] = "waiting"}
WithinBudget == used <= Budget

\* The counters stay in range, and a statement that is signalled is waiting.
TypeOK ==
    /\ used \in Nat /\ waiting \in Nat
    /\ st \in [Stmts -> States] /\ bytes \in [Stmts -> Nat]
    /\ expired \subseteq Stmts /\ notified \subseteq Stmts
    /\ \A s \in notified : st[s] = "waiting"

\* The bytes in use are the reservations of the statements that run, and never
\* exceed the budget (acquire and release, including the saturating one).
ReservationsFit ==
    /\ used = MapThenSumSet(LAMBDA s : bytes[s], {s \in Stmts : st[s] = "running"})
    /\ WithinBudget

\* The waiting count is the number of statements in the queue, and the queue is
\* bounded ("the queue is bounded by construction").
QueueCounted ==
    /\ waiting = Cardinality(Waiters)
    /\ waiting <= QueueMax

\* No wake-up is lost: while a statement that would fit sleeps, it has been
\* signalled or some release is about to signal (release, slot_freed).
NoLostSlot ==
    \A s \in Stmts : st[s] = "waiting" /\ s \notin notified /\ used + bytes[s] <= Budget =>
        \E r \in Stmts : st[r] = "notify"

\* A statement that was let into the queue is never told that the queue is
\* full: the bound is tested again on every pass of the loop, after others may
\* have joined, but under the mutex its own place has just been given up.
QueuedIsNotRejected ==
    [][\A s \in Stmts : st[s] = "waiting" => st'[s] # "queue_full"]_vars

\* Every statement that waits is admitted or rejected in the end.
WaitEnds == \A s \in Stmts : st[s] = "waiting" ~> st[s] # "waiting"
=============================================================================
