----------------------------- MODULE SleepLock ------------------------------
(***************************************************************************)
(* Sleep locks: kernel/sleeplock.c over sleep() and wakeup() of            *)
(* kernel/proc.c.  sleep() takes p->lock before it releases the spinlock   *)
(* of the sleep lock, and wakeup() looks at the processes one by one, each *)
(* under its p->lock: every acquire of either lock is a step.              *)
(***************************************************************************)
EXTENDS Integers, FiniteSets

CONSTANTS Procs

VARIABLES
  locked, pid,    \* struct sleeplock
  lk,             \* the process that has the spinlock lk->lk, or ""
  plock,          \* the process that has p->lock of each process, or ""
  asleep,         \* p->state = SLEEPING on this lock
  pc,
  todo            \* the processes that wakeup() has yet to look at

vars == <<locked, pid, lk, plock, asleep, pc, todo>>

Init ==
  /\ locked = FALSE /\ pid = "" /\ lk = "" /\ plock = [p \in Procs |-> ""]
  /\ asleep = [p \in Procs |-> FALSE] /\ pc = [p \in Procs |-> "out"]
  /\ todo = [p \in Procs |-> {}]

Go(p, to) == pc' = [pc EXCEPT ![p] = to]

(* acquire(&lk->lk), to acquire or release the sleep lock or after sleep(). *)
Acquire(p) ==
  /\ pc[p] \in {"out", "in", "woken"} /\ lk = "" /\ lk' = p
  /\ Go(p, IF pc[p] = "in" THEN "release" ELSE "test")
  /\ UNCHANGED <<locked, pid, plock, asleep, todo>>

(* acquiresleep(): take it, or go to sleep. *)
Take(p) ==
  /\ pc[p] = "test" /\ ~locked
  /\ locked' = TRUE /\ pid' = p /\ lk' = "" /\ Go(p, "in")
  /\ UNCHANGED <<plock, asleep, todo>>

(* Mutant of SleepLocks: the spinlock is released before p->lock is taken. *)
Mut_SleepLocks(p) ==
  /\ pc[p] = "test" /\ locked /\ lk' = "" /\ Go(p, "prepare") /\ UNCHANGED plock

(* sleep(): acquire(&p->lock) ... *)
SleepLocks(p) ==
  /\ pc[p] = "test" /\ locked /\ plock[p] = ""
  /\ plock' = [plock EXCEPT ![p] = p] /\ Go(p, "prepare") /\ UNCHANGED lk

SleepStart(p) == SleepLocks(p) /\ UNCHANGED <<locked, pid, asleep, todo>>

(* ... release(lk), p->state = SLEEPING, and sched(), where the scheduler  *)
(* releases p->lock.                                                       *)
SleepRelease(p) ==
  /\ pc[p] = "prepare" /\ lk' = (IF lk = p THEN "" ELSE lk) /\ Go(p, "sleeping")
  /\ UNCHANGED <<locked, pid, plock, asleep, todo>>

Sched(p) ==
  /\ pc[p] = "sleeping" /\ asleep' = [asleep EXCEPT ![p] = TRUE]
  /\ plock' = [plock EXCEPT ![p] = ""] /\ Go(p, "asleep")
  /\ UNCHANGED <<locked, pid, lk, todo>>

Resume(p) ==
  /\ pc[p] = "asleep" /\ ~asleep[p] /\ Go(p, "woken")
  /\ UNCHANGED <<locked, pid, lk, plock, asleep, todo>>

(* releasesleep(): the lock is free, then wakeup() ... *)
Release(p) ==
  /\ pc[p] = "release" /\ locked' = FALSE /\ pid' = ""
  /\ todo' = [todo EXCEPT ![p] = Procs \ {p}] /\ Go(p, "wakeup")
  /\ UNCHANGED <<lk, plock, asleep>>

(* ... of one process, and the end of it. *)
Wakeup(p, q) ==
  /\ pc[p] = "wakeup" /\ q \in todo[p] /\ plock[q] = ""
  /\ asleep' = [asleep EXCEPT ![q] = FALSE]
  /\ todo' = [todo EXCEPT ![p] = @ \ {q}]
  /\ UNCHANGED <<locked, pid, lk, plock, pc>>

WakeupEnd(p) ==
  /\ pc[p] = "wakeup" /\ todo[p] = {} /\ lk' = "" /\ Go(p, "out")
  /\ UNCHANGED <<locked, pid, plock, asleep, todo>>

(* kill() of a process that sleeps: acquiresleep() tests the lock again. *)
Kill(q) ==
  /\ asleep[q] /\ plock[q] = ""
  /\ asleep' = [asleep EXCEPT ![q] = FALSE]
  /\ UNCHANGED <<locked, pid, lk, plock, pc, todo>>

Step(p) ==
  \/ Acquire(p) \/ Take(p) \/ SleepStart(p) \/ SleepRelease(p) \/ Sched(p) \/ Resume(p)
  \/ Release(p) \/ WakeupEnd(p) \/ Kill(p) \/ (\E q \in Procs : Wakeup(p, q))

Next == \E p \in Procs : Step(p)

Spec == Init /\ [][Next]_vars

-----------------------------------------------------------------------------
(* One process at most has the sleep lock, the one that lk->pid names, as  *)
(* holdingsleep() assumes; and a process sleeps only while another has the *)
(* lock or is about to wake it: no wakeup() falls between the test of      *)
(* lk->locked and the sleep, and a kill() gives the lock to nobody.        *)
SleepLockRight ==
  /\ \A p \in Procs : pc[p] = "in" => locked /\ pid = p
  /\ \A p \in Procs : asleep[p] => locked \/ \E q \in Procs : p \in todo[q]

-----------------------------------------------------------------------------
(* The inductive invariant: types; who has which spinlock; who has the     *)
(* sleep lock; and that a process on its way to sleep is waited upon by    *)
(* the holder or by a wakeup() that has yet to look at it.                 *)
SleepTypes ==
  /\ locked \in BOOLEAN /\ pid \in Procs \cup {""} /\ lk \in Procs \cup {""}
  /\ plock \in [Procs -> Procs \cup {""}] /\ asleep \in [Procs -> BOOLEAN]
  /\ pc \in [Procs -> {"out", "test", "in", "release", "wakeup", "prepare", "sleeping",
                       "asleep", "woken"}]
  /\ todo \in [Procs -> SUBSET Procs]

InvSpin ==
  \A p \in Procs : pc[p] \in {"test", "prepare", "release", "wakeup"} <=> lk = p

InvHolder ==
  \A p \in Procs : pc[p] \in {"in", "release"} => locked /\ pid = p

InvProcLock ==
  \A p \in Procs : /\ plock[p] = "" <=> pc[p] \notin {"prepare", "sleeping"}
                   /\ asleep[p] => pc[p] = "asleep"

InvWaker ==
  \A p \in Procs : asleep[p] \/ pc[p] \in {"prepare", "sleeping"} =>
                     locked \/ \E q \in Procs : p \in todo[q]

SleepInv == SleepTypes /\ InvSpin /\ InvHolder /\ InvProcLock /\ InvWaker
=============================================================================
