------------------------------- MODULE Clock --------------------------------
(***************************************************************************)
(* The clock: clockintr() of kernel/trap.c and sys_sleep() of              *)
(* kernel/sysproc.c, which share ticks under tickslock.                    *)
(* ticks is a uint that wraps; sys_sleep() compares an unsigned difference *)
(* with its int argument.  The tests of p->killed are steps of their own.  *)
(***************************************************************************)
EXTENDS Integers

CONSTANTS
  Procs,
  UINT,        \* number of values of a uint
  Amounts,     \* arguments of sleep(), negative ones included
  MaxAwake     \* ticks that may pass before a woken process runs

VARIABLES
  ticks,
  lock,                   \* the process that has tickslock, or ""
  pc, n, ticks0, killed,
  passed                  \* history: ticks since the process called sleep()

vars == <<ticks, lock, pc, n, ticks0, killed, passed>>

Init ==
  /\ ticks \in {0, UINT - 2} /\ lock = ""
  /\ pc = [p \in Procs |-> "user"] /\ n = [p \in Procs |-> 0] /\ ticks0 = n
  /\ killed = [p \in Procs |-> FALSE] /\ passed = n

(* What sleep(n) waits for: n as an unsigned number. *)
Unsigned(k) == k % UINT

(* A woken process runs before MaxAwake ticks too many have passed. *)
Prompt == \A p \in Procs :
  pc[p] # "user" => passed[p] < UINT - 1 /\ passed[p] < Unsigned(n[p]) + MaxAwake

clockintr ==
  /\ lock = "" /\ Prompt
  /\ ticks' = (ticks + 1) % UINT
  /\ passed' = [p \in Procs |-> IF pc[p] = "user" THEN 0 ELSE passed[p] + 1]
  /\ pc' = [p \in Procs |-> IF pc[p] = "asleep" THEN "woken" ELSE pc[p]]
  /\ UNCHANGED <<lock, n, ticks0, killed>>

sys_sleep(p, k) ==
  /\ pc[p] = "user" /\ ~killed[p] /\ lock = "" /\ lock' = p
  /\ n' = [n EXCEPT ![p] = k] /\ ticks0' = [ticks0 EXCEPT ![p] = ticks]
  /\ pc' = [pc EXCEPT ![p] = "test"] /\ passed' = [passed EXCEPT ![p] = 0]
  /\ UNCHANGED <<ticks, killed>>

(* Mutant of Waits: the deadline ticks0 + n is compared with ticks. *)
Mut_Waits(p) == ticks < (ticks0[p] + n[p]) % UINT

(* ticks - ticks0 < n, in unsigned arithmetic. *)
Waits(p) == (ticks - ticks0[p]) % UINT < Unsigned(n[p])

Return(p) ==
  /\ pc' = [pc EXCEPT ![p] = "user"] /\ lock' = "" /\ n' = [n EXCEPT ![p] = 0]
  /\ ticks0' = [ticks0 EXCEPT ![p] = 0] /\ passed' = [passed EXCEPT ![p] = 0]

(* The loop; sleep() releases tickslock after the test of p->killed. *)
Test(p) ==
  /\ pc[p] = "test"
  /\ IF Waits(p) /\ ~killed[p]
       THEN pc' = [pc EXCEPT ![p] = "sleeping"] /\ UNCHANGED <<lock, n, ticks0, passed>>
       ELSE Return(p)
  /\ UNCHANGED <<ticks, killed>>

Sleep(p) ==
  /\ pc[p] = "sleeping" /\ pc' = [pc EXCEPT ![p] = "asleep"] /\ lock' = ""
  /\ UNCHANGED <<ticks, n, ticks0, killed, passed>>

Wake(p) ==
  /\ pc[p] = "woken" /\ lock = "" /\ lock' = p /\ pc' = [pc EXCEPT ![p] = "test"]
  /\ UNCHANGED <<ticks, n, ticks0, killed, passed>>

Kill(p) ==
  /\ ~killed[p] /\ killed' = [killed EXCEPT ![p] = TRUE]
  /\ pc' = [pc EXCEPT ![p] = IF @ = "asleep" THEN "woken" ELSE @]
  /\ UNCHANGED <<ticks, lock, n, ticks0, passed>>

Next ==
  \/ clockintr
  \/ \E p \in Procs :
       \/ \E k \in Amounts : sys_sleep(p, k)
       \/ Test(p) \/ Sleep(p) \/ Wake(p) \/ Kill(p)

Spec == Init /\ [][Next]_vars

-----------------------------------------------------------------------------
(* A process is asleep only while fewer than n ticks have passed since its *)
(* call, and the test that ends sleep() succeeds no earlier: also when     *)
(* ticks wraps in between.  A negative n counts as a large unsigned one.   *)
SleepsRight ==
  \A p \in Procs :
    /\ pc[p] = "asleep" => passed[p] < Unsigned(n[p])
    /\ pc[p] # "user" => (Waits(p) <=> passed[p] < Unsigned(n[p]))
=============================================================================
