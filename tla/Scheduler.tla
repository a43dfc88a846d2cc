----------------------------- MODULE Scheduler -----------------------------
(***************************************************************************)
(* The query thread pool of query/scheduler.rs.  The pool lives in a thread *)
(* local, so one owner thread submits to it and drops it; the workers share *)
(* a mutex-protected queue, a condition variable and a shutdown flag that   *)
(* is stored and loaded without the mutex.  Handles may be cancelled and    *)
(* waited on from any thread.                                               *)
(***************************************************************************)
EXTENDS Naturals, Sequences, FiniteSets

CONSTANTS
    Workers,
    Tasks,     \* query handles; one that has been answered is used again
    Capacity,  \* queue_capacity
    Ops        \* which of "cancel", "panic" and "drop" happen

ASSUME SetsAssumption == IsFiniteSet(Workers) /\ IsFiniteSet(Tasks)
ASSUME CapacityAssumption == Capacity \in Nat
ASSUME OpsAssumption == Ops \subseteq {"cancel", "panic", "drop"}

Nobody == "nobody"
NoTask == "no task"
ASSUME NamesAssumption == Nobody \notin Workers /\ NoTask \notin Tasks

VARIABLES
    queue,   \* task_queue
    lock,    \* the worker that holds its mutex, or Nobody
    flag,    \* shutdown_flag
    active,  \* active_count
    pc,      \* where each worker is
    task,    \* the task a worker has taken
    owner,   \* where the owner thread is
    handle,  \* what the holder of a handle can observe
    cancel   \* tasks whose token is set

vars == <<queue, lock, flag, active, pc, task, owner, handle, cancel>>

Init ==
    /\ queue = <<>> /\ lock = Nobody /\ flag = FALSE /\ active = 0
    /\ pc = [w \in Workers |-> "lock"] /\ task = [w \in Workers |-> NoTask]
    /\ owner = "idle"
    /\ handle = [t \in Tasks |-> "new"] /\ cancel = {}

----------------------------------------------------------------------------
(* A worker. *)

\* queue.lock(), at the top of the loop or on the way out of cvar.wait.
Lock(w) ==
    /\ pc[w] \in {"lock", "woken"} /\ lock = Nobody
    /\ lock' = w
    /\ pc' = [pc EXCEPT ![w] = "check"]
    /\ UNCHANGED <<queue, flag, active, task, owner, handle, cancel>>

\* Mutant: the queue is not part of the condition to park.
ParkIgnoresQueue(w) ==
    /\ pc[w] = "check"
    /\ pc' = [pc EXCEPT ![w] = IF ~flag THEN "park" ELSE "take"]
    /\ UNCHANGED <<queue, lock, flag, active, task, owner, handle, cancel>>

\* The condition of the while loop.
Check(w) ==
    /\ pc[w] = "check"
    /\ pc' = [pc EXCEPT ![w] = IF queue = <<>> /\ ~flag THEN "park" ELSE "take"]
    /\ UNCHANGED <<queue, lock, flag, active, task, owner, handle, cancel>>

\* cvar.wait releases the mutex and enqueues the worker in one step.
Park(w) ==
    /\ pc[w] = "park"
    /\ pc' = [pc EXCEPT ![w] = "parked"]
    /\ lock' = Nobody
    /\ UNCHANGED <<queue, flag, active, task, owner, handle, cancel>>

\* Mutant: the worker reads the front of the queue and leaves it there.
TakeKeepsFront(w) ==
    /\ pc[w] = "take" /\ lock' = Nobody
    /\ IF flag \/ queue = <<>>
       THEN /\ pc' = [pc EXCEPT ![w] = IF flag THEN "exit" ELSE "lock"]
            /\ UNCHANGED <<task, handle>>
       ELSE /\ pc' = [pc EXCEPT ![w] = "taken"]
            /\ task' = [task EXCEPT ![w] = Head(queue)]
            /\ handle' = [handle EXCEPT ![Head(queue)] = "running"]
    /\ UNCHANGED <<queue, flag, active, owner, cancel>>

\* The flag is loaded again; a worker that sees it leaves the loop.
Take(w) ==
    /\ pc[w] = "take" /\ lock' = Nobody
    /\ IF flag \/ queue = <<>>
       THEN /\ pc' = [pc EXCEPT ![w] = IF flag THEN "exit" ELSE "lock"]
            /\ UNCHANGED <<queue, task, handle>>
       ELSE /\ pc' = [pc EXCEPT ![w] = "taken"]
            /\ task' = [task EXCEPT ![w] = Head(queue)]
            /\ handle' = [handle EXCEPT ![Head(queue)] = "running"]
            /\ queue' = Tail(queue)
    /\ UNCHANGED <<flag, active, owner, cancel>>

Start(w) ==
    /\ pc[w] = "taken"
    /\ pc' = [pc EXCEPT ![w] = "run"]
    /\ active' = active + 1
    /\ UNCHANGED <<queue, lock, flag, task, owner, handle, cancel>>

\* execute_query sends the result; a query may notice that its token is set.
Execute(w) ==
    /\ pc[w] = "run"
    /\ \E r \in {"data", "error"} \cup (IF task[w] \in cancel THEN {"cancelled"} ELSE {}) :
         handle' = [handle EXCEPT ![task[w]] = r]
    /\ task' = [task EXCEPT ![w] = NoTask]
    /\ pc' = [pc EXCEPT ![w] = "sent"]
    /\ UNCHANGED <<queue, lock, flag, active, owner, cancel>>

\* A panic inside execute_query unwinds the worker: the sender is dropped.
Panic(w) ==
    /\ "panic" \in Ops
    /\ pc[w] = "run"
    /\ handle' = [handle EXCEPT ![task[w]] = "closed"]
    /\ task' = [task EXCEPT ![w] = NoTask]
    /\ pc' = [pc EXCEPT ![w] = "dead"]
    /\ UNCHANGED <<queue, lock, flag, active, owner, cancel>>

Finish(w) ==
    /\ pc[w] = "sent"
    /\ pc' = [pc EXCEPT ![w] = "lock"]
    /\ active' = active - 1
    /\ UNCHANGED <<queue, lock, flag, task, owner, handle, cancel>>

----------------------------------------------------------------------------
(* The owner thread, and the holders of handles. *)

\* Mutant: the owner goes on without the notification.
SubmitWithoutNotify(t) ==
    /\ owner = "idle" /\ handle[t] = "new" /\ lock = Nobody
    /\ Len(queue) < Capacity
    /\ queue' = Append(queue, t)
    /\ handle' = [handle EXCEPT ![t] = "queued"]
    /\ cancel' = cancel \ {t}
    /\ UNCHANGED <<lock, flag, active, pc, task, owner>>

\* submit_with_context: a full queue refuses the query, with no other effect.
Submit(t) ==
    /\ owner = "idle" /\ handle[t] = "new" /\ lock = Nobody
    /\ Len(queue) < Capacity
    /\ queue' = Append(queue, t)
    /\ handle' = [handle EXCEPT ![t] = "queued"]
    /\ cancel' = cancel \ {t}
    /\ owner' = "notify"
    /\ UNCHANGED <<lock, flag, active, pc, task>>

\* condvar.notify_one, after the mutex is released.
NotifyOne ==
    /\ owner = "notify" /\ owner' = "idle"
    /\ LET parked == {w \in Workers : pc[w] = "parked"} IN
       \/ parked = {} /\ UNCHANGED pc
       \/ \E w \in parked : pc' = [pc EXCEPT ![w] = "woken"]
    /\ UNCHANGED <<queue, lock, flag, active, task, handle, cancel>>

\* ScheduledQuery::cancel.
Cancel(t) ==
    /\ "cancel" \in Ops
    /\ handle[t] # "new" /\ t \notin cancel
    /\ cancel' = cancel \cup {t}
    /\ UNCHANGED <<queue, lock, flag, active, pc, task, owner, handle>>

\* ScheduledQuery::wait consumes the handle.
Wait(t) ==
    /\ handle[t] \in {"data", "error", "cancelled", "closed"}
    /\ handle' = [handle EXCEPT ![t] = "new"]
    /\ cancel' = cancel \ {t}
    /\ UNCHANGED <<queue, lock, flag, active, pc, task, owner>>

\* Drop, shutdown: the flag is stored without the mutex ...
SetFlag ==
    /\ "drop" \in Ops
    /\ owner = "idle" /\ owner' = "flagged"
    /\ flag' = TRUE
    /\ UNCHANGED <<queue, lock, active, pc, task, handle, cancel>>

\* ... every parked worker is woken ...
NotifyAll ==
    /\ owner = "flagged" /\ owner' = "joining"
    /\ pc' = [w \in Workers |-> IF pc[w] = "parked" THEN "woken" ELSE pc[w]]
    /\ UNCHANGED <<queue, lock, flag, active, task, handle, cancel>>

\* Mutant of Join: a worker killed by a panic is waited for.
JoinAwaitsDead ==
    /\ owner = "joining" /\ owner' = "gone"
    /\ \A w \in Workers : pc[w] = "exit"
    /\ handle' = [t \in Tasks |-> IF handle[t] = "queued" THEN "closed" ELSE handle[t]]
    /\ queue' = <<>>
    /\ UNCHANGED <<lock, flag, active, pc, task, cancel>>

\* ... and once they are joined the queue goes away, with the senders in it.
Join ==
    /\ owner = "joining" /\ owner' = "gone"
    /\ \A w \in Workers : pc[w] \in {"exit", "dead"}
    /\ handle' = [t \in Tasks |-> IF handle[t] = "queued" THEN "closed" ELSE handle[t]]
    /\ queue' = <<>>
    /\ UNCHANGED <<lock, flag, active, pc, task, cancel>>

----------------------------------------------------------------------------
Worker(w) ==
    Lock(w) \/ Check(w) \/ Park(w) \/ Take(w) \/ Start(w) \/ Execute(w) \/ Panic(w) \/ Finish(w)

Next ==
    \/ \E w \in Workers : Worker(w)
    \/ \E t \in Tasks : Submit(t) \/ Cancel(t) \/ Wait(t)
    \/ NotifyOne \/ SetFlag \/ NotifyAll \/ Join

Spec == Init /\ [][Next]_vars

\* Threads that can run do run, and the owner finishes the call it is in.
Fairness ==
    /\ \A w \in Workers : WF_vars(Worker(w))
    /\ WF_vars(NotifyOne) /\ WF_vars(NotifyAll) /\ WF_vars(Join)
FairSpec == Spec /\ Fairness

----------------------------------------------------------------------------
(* Properties. *)

Looking == {w \in Workers : pc[w] \in {"lock", "woken", "check", "take"}}
Parked == {w \in Workers : pc[w] = "parked"}
Holding(w) == pc[w] \in {"check", "park", "take"}

\* The mutex is held by the one worker that is between lock and release.
TypeOK ==
    /\ queue \in Seq(Tasks) /\ lock \in Workers \cup {Nobody} /\ flag \in BOOLEAN
    /\ active \in Nat
    /\ pc \in [Workers -> {"lock", "check", "park", "parked", "woken", "take", "taken",
                           "run", "sent", "exit", "dead"}]
    /\ task \in [Workers -> Tasks \cup {NoTask}]
    /\ owner \in {"idle", "notify", "flagged", "joining", "gone"}
    /\ handle \in [Tasks -> {"new", "queued", "running", "data", "error", "cancelled", "closed"}]
    /\ cancel \subseteq Tasks
    /\ \A w \in Workers : Holding(w) <=> lock = w

\* An accepted query is in exactly one place, once: in the queue while nobody
\* has answered it, or with exactly one worker (pop_front under the mutex).
OnePlace ==
    /\ Len(queue) <= Capacity
    /\ \A t \in Tasks :
         /\ Cardinality({i \in DOMAIN queue : queue[i] = t}) = IF handle[t] = "queued" THEN 1 ELSE 0
         /\ Cardinality({w \in Workers : task[w] = t}) = IF handle[t] = "running" THEN 1 ELSE 0

\* While a worker sleeps, every queued query has a worker of its own that is
\* about to look at the queue, or a notification on its way: the unlocked
\* notify_one of submit loses nothing.
NoSleepingOnWork ==
    Parked # {} /\ ~flag =>
        Len(queue) <= Cardinality(Looking) + (IF owner = "notify" THEN 1 ELSE 0)

\* An accepted query is answered, unless the pool is dropped or panics have
\* killed every worker.
AcceptedIsAnswered ==
    \A t \in Tasks : handle[t] \in {"queued", "running"} ~>
        handle[t] \notin {"queued", "running"} \/ flag \/ (\A w \in Workers : pc[w] = "dead")

\* Dropping the pool ends, whatever its workers were doing and whichever of them
\* a panic has killed, unless a worker parks after notify_all: the flag is stored
\* without the mutex, so one that has just tested it may (query/scheduler.rs:112,
\* "Park on condvar until a task arrives or shutdown is requested").
DropReturnsUnlessMissed ==
    flag ~> owner = "gone" \/ (owner = "joining" /\ Parked # {})
=============================================================================
