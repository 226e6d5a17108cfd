------------------------------ MODULE ProcInfo ------------------------------
(***************************************************************************)
(* The process listing: procinfo() of kernel/proc.c, behind getprocs(),    *)
(* while the processes of module Proc run.  procinfo() takes no lock: it   *)
(* reads p->state and p->parent of each slot at different times, and then  *)
(* follows p->parent.  Nothing is copied out, for the length it passes to  *)
(* copyout() is sizeof(tempproc) < 0, which is 0.                          *)
(***************************************************************************)
EXTENDS Proc

VARIABLES
  info,    \* each process in procinfo(): the slot, whether its state has been read, counter
  fault    \* a null pointer has been followed in the kernel

Outside == [slot |-> 0, seen |-> FALSE, counter |-> 0]

InfoInit == Init /\ info = [p \in Procs |-> Outside] /\ fault = FALSE

(* sys_getprocs() *)
InfoStart(c, p) ==
  /\ At(c, p, "user") /\ killed[p] = 0 /\ p # initproc /\ info[p] = Outside
  /\ info' = [info EXCEPT ![p].slot = 1]
  /\ UNCHANGED fault

(* p->state of the next slot: UNUSED is skipped, and so is USED, which has *)
(* no name in states[].                                                    *)
InfoState(c, p) ==
  LET i == info[p].slot IN
  /\ At(c, p, "user") /\ i \in Procs /\ ~info[p].seen
  /\ info' = IF state[i] \in {"UNUSED", "USED"} THEN [info EXCEPT ![p].slot = i + 1]
             ELSE [info EXCEPT ![p].seen = TRUE]
  /\ UNCHANGED fault

(* p->parent, and parent->pid of all but the first process listed. *)
InfoParent(c, p) ==
  LET i == info[p].slot IN
  /\ At(c, p, "user") /\ info[p].seen
  /\ fault' = (info[p].counter > 0 /\ parent[i] = NoProc)
  /\ info' = [info EXCEPT ![p] = [slot |-> i + 1, seen |-> FALSE, counter |-> 1]]

InfoEnd(c, p) ==
  /\ At(c, p, "user") /\ info[p].slot > NPROC
  /\ info' = [info EXCEPT ![p] = Outside]
  /\ UNCHANGED fault

(* A process in procinfo() makes no other call meanwhile; the timer may    *)
(* take the CPU from it.                                                   *)
Others ==
  /\ Next
  /\ \A p \in Procs : info[p] # Outside /\ pc[p] = "user" => pc'[p] \in {"user", "sched"}
  /\ UNCHANGED <<info, fault>>

InfoNext ==
  /\ ~fault
  /\ \/ Others
     \/ /\ \E c \in CPUs, p \in Procs :
             InfoStart(c, p) \/ InfoState(c, p) \/ InfoParent(c, p) \/ InfoEnd(c, p)
        /\ UNCHANGED vars

InfoSpec == InfoInit /\ [][InfoNext]_<<vars, info, fault>>

-----------------------------------------------------------------------------
(* The kernel never follows a null p->parent, which ends in the panic of   *)
(* kerneltrap(): proc.h says of parent that "wait_lock must be held when   *)
(* using this", and procinfo() does not hold it.                           *)
NoKernelFault == ~fault
=============================================================================
