----------------------------- MODULE TableLock -----------------------------
(***************************************************************************)
(* What the cross-process table lock promises, without saying how: a table *)
(* has either one writer or any number of readers, whatever the process    *)
(* its threads live in.  WriteLocks shows that the cached descriptors,     *)
(* the owner handshake and the file lock of cross_process_lock.rs keep     *)
(* this promise.                                                           *)
(***************************************************************************)

CONSTANT Threads

VARIABLES writers, readers

lockVars == <<writers, readers>>

LockInit == writers = {} /\ readers = {}

AcquireWrite(t) ==
    /\ writers = {} /\ readers = {}
    /\ writers' = {t}
    /\ UNCHANGED readers

AcquireRead(t) ==
    /\ writers = {}
    /\ readers' = readers \union {t}
    /\ UNCHANGED writers

\* Several holders let go at once when their process dies.
Release(S) ==
    /\ S # {} /\ S \subseteq writers \union readers
    /\ writers' = writers \ S
    /\ readers' = readers \ S

LockNext ==
    \/ \E t \in Threads : AcquireWrite(t) \/ AcquireRead(t)
    \/ \E S \in SUBSET Threads : Release(S)

LockSpec == LockInit /\ [][LockNext]_lockVars
=============================================================================
