---------------------------- MODULE AtomicDisk ----------------------------
(***************************************************************************)
(* What the logging layer (kernel/log.c) promises the rest of the file     *)
(* system: a disk whose contents change only when every system call that   *)
(* is between begin_op() and end_op() has finished, and then in one step,  *)
(* so that a crash never exposes part of a system call.                    *)
(***************************************************************************)
CONSTANTS Ops,     \* the FS system calls, named by the process that makes them
          Blocks,  \* block numbers outside the log
          Data     \* what a block can hold

VARIABLES stable,   \* the contents a reboot would find
          current,  \* the contents bread() returns
          active    \* the system calls between begin_op() and end_op()

vars == <<stable, current, active>>

Init ==
  /\ stable \in [Blocks -> Data]
  /\ current = stable
  /\ active = {}

Begin(o) ==
  /\ o \notin active
  /\ active' = active \cup {o}
  /\ UNCHANGED <<stable, current>>

Write(o, b, v) ==
  /\ o \in active
  /\ current' = [current EXCEPT ![b] = v]
  /\ UNCHANGED <<stable, active>>

End(o) ==
  /\ o \in active
  /\ active' = active \ {o}
  /\ UNCHANGED <<stable, current>>

(* All finished system calls become durable together. *)
Commit ==
  /\ active = {}
  /\ stable' = current
  /\ UNCHANGED <<current, active>>

Crash ==
  /\ current' = stable
  /\ active' = {}
  /\ UNCHANGED stable

Next ==
  \/ \E o \in Ops : Begin(o) \/ End(o)
  \/ \E o \in Ops, b \in Blocks, v \in Data : Write(o, b, v)
  \/ Commit
  \/ Crash

Spec == Init /\ [][Next]_vars
=============================================================================
