-------------------------------- MODULE Proc --------------------------------
(***************************************************************************)
(* Processes and CPUs: fork(), exit(), wait(), kill(), sleep(), wakeup(),  *)
(* yield() and scheduler() of kernel/proc.c, with the spinlocks they take. *)
(*                                                                         *)
(* An action is one visit of a critical section.  p->lock and wait_lock    *)
(* are modelled by their holder wherever they are held across steps, in    *)
(* particular across swtch(); a lock taken and released within one action  *)
(* shows as the guard that it is free.  A CPU executes either its          *)
(* scheduler() loop or the kernel or user code of one process.             *)
(***************************************************************************)
EXTENDS Integers, FiniteSets, FiniteSetsExt, Functions

CONSTANTS CPUs,      \* the harts
          NPROC,     \* param.h: slots of the process table
          KillPids,  \* the pids that user programs pass to kill()
          MaxPid,    \* bound: pids handed out
          Budget     \* bound: calls of wait() and kill(), and timer ticks

Free == "free"   \* a spinlock that no CPU holds

ASSUME ProcConstants ==
  /\ IsFiniteSet(CPUs) /\ Free \notin CPUs
  /\ NPROC \in Nat \ {0} /\ MaxPid \in Nat \ {0} /\ Budget \in Nat
  /\ KillPids \subseteq Nat

Procs == 1 .. NPROC
NoProc == 0      \* a null pointer; as ctx[c], the scheduler's own context
initproc == 1

VARIABLES
  state, parent, pid, chan, killed, xstate,  \* fields of struct proc
  plock,      \* holder of each p->lock
  wait_lock,  \* holder of wait_lock
  cpuproc,    \* c->proc
  ctx,        \* whose stack and registers CPU c is using
  pc, ret, idx, kids, child, status,  \* position and locals of each kernel thread
  nextpid,
  shell,      \* init.c: the shell's pid; 0 to fork one, -1 to give up
  named,      \* history: the pids passed to kill()
  budget      \* what is left of Budget

fields == <<state, parent, pid, chan, killed, xstate>>
locks == <<plock, wait_lock>>
cpus == <<cpuproc, ctx>>
thread == <<pc, ret, idx, kids, child, status>>
aux == <<nextpid, shell, named, budget>>
vars == <<fields, locks, cpus, thread, aux>>

procstate == {"UNUSED", "USED", "SLEEPING", "RUNNABLE", "RUNNING", "ZOMBIE"}
Labels == {"none", "user", "fork", "fork_parent", "fork_run", "wait", "wait_scan",
           "wait_check", "sleep", "sleeping", "exit", "reparent", "wakeup",
           "zombie", "sched", "resume", "panic"}

TypeOK ==
  /\ state \in [Procs -> procstate]
  /\ parent \in [Procs -> Procs \cup {NoProc}]
  /\ pid \in [Procs -> Nat]
  /\ chan \in [Procs -> Procs \cup {NoProc}]
  /\ killed \in [Procs -> {0, 1}]
  /\ xstate \in [Procs -> {0, -1}]
  /\ plock \in [Procs -> CPUs \cup {Free}]
  /\ wait_lock \in CPUs \cup {Free}
  /\ cpuproc \in [CPUs -> Procs \cup {NoProc}]
  /\ ctx \in [CPUs -> Procs \cup {NoProc}]
  /\ pc \in [Procs -> Labels] /\ ret \in [Procs -> Labels]
  /\ idx \in [Procs -> 1 .. NPROC + 1]
  /\ kids \in [Procs -> {0, 1}]
  /\ child \in [Procs -> Procs \cup {NoProc}] /\ status \in [Procs -> {0, -1}]
  /\ nextpid \in Nat /\ shell \in Nat \cup {-1}
  /\ named \subseteq Nat /\ budget \in 0 .. Budget

(* After userinit(): init is RUNNABLE, every CPU enters scheduler(). *)
Init ==
  /\ state = [p \in Procs |-> IF p = initproc THEN "RUNNABLE" ELSE "UNUSED"]
  /\ parent = [p \in Procs |-> NoProc]
  /\ pid = [p \in Procs |-> IF p = initproc THEN 1 ELSE 0]
  /\ chan = [p \in Procs |-> NoProc]
  /\ killed = [p \in Procs |-> 0]
  /\ xstate = [p \in Procs |-> 0]
  /\ plock = [p \in Procs |-> Free] /\ wait_lock = Free
  /\ cpuproc = [c \in CPUs |-> NoProc] /\ ctx = [c \in CPUs |-> NoProc]
  /\ pc = [p \in Procs |-> IF p = initproc THEN "resume" ELSE "none"]
  /\ ret = [p \in Procs |-> IF p = initproc THEN "user" ELSE "none"]
  /\ idx = [p \in Procs |-> 1] /\ kids = [p \in Procs |-> 0]
  /\ child = [p \in Procs |-> NoProc] /\ status = [p \in Procs |-> 0]
  /\ nextpid = 2 /\ shell = 0 /\ named = {} /\ budget = Budget

-----------------------------------------------------------------------------
(* CPU c executes process p, which is at label l of the kernel. *)
At(c, p, l) == ctx[c] = p /\ pc[p] = l

Goto(p, l) == pc' = [pc EXCEPT ![p] = l]

(* Spinlocks held by CPU c: mycpu()->noff. *)
noff(c) == Cardinality({p \in Procs : plock[p] = c}) + (IF wait_lock = c THEN 1 ELSE 0)

(* scheduler() finds p RUNNABLE and switches to it, p->lock held. *)
SchedPick(c, p) ==
  /\ ctx[c] = NoProc /\ cpuproc[c] = NoProc
  /\ plock[p] = Free /\ state[p] = "RUNNABLE"
  /\ plock' = [plock EXCEPT ![p] = c]
  /\ state' = [state EXCEPT ![p] = "RUNNING"]
  /\ cpuproc' = [cpuproc EXCEPT ![c] = p]
  /\ ctx' = [ctx EXCEPT ![c] = p]
  /\ UNCHANGED <<parent, pid, chan, killed, xstate, wait_lock, thread, aux>>

(* Back in scheduler(): c->proc = 0 and release(&p->lock). *)
SchedReturn(c) ==
  /\ ctx[c] = NoProc /\ cpuproc[c] # NoProc
  /\ cpuproc' = [cpuproc EXCEPT ![c] = NoProc]
  /\ plock' = [plock EXCEPT ![cpuproc[c]] = Free]
  /\ UNCHANGED <<fields, wait_lock, ctx, thread, aux>>

(* What sched() checks before it switches; it panics otherwise. *)
SchedChecks(c, p) == plock[p] = c /\ noff(c) = 1 /\ state[p] # "RUNNING"

(* sched(): swtch() from the process to the scheduler of this CPU. *)
Sched(c, p) ==
  /\ At(c, p, "sched") /\ SchedChecks(c, p)
  /\ ctx' = [ctx EXCEPT ![c] = NoProc]
  /\ Goto(p, "resume")
  /\ UNCHANGED <<fields, locks, cpuproc, ret, idx, kids, child, status, aux>>

(* The process runs again, in forkret(), yield() or sleep(): it drops      *)
(* p->lock; sleep() also clears p->chan and goes on to reacquire its lock. *)
Resume(c, p) ==
  /\ At(c, p, "resume")
  /\ plock' = [plock EXCEPT ![p] = Free]
  /\ chan' = [chan EXCEPT ![p] = NoProc]
  /\ Goto(p, ret[p])
  /\ ret' = [ret EXCEPT ![p] = "none"]
  /\ UNCHANGED <<state, parent, pid, killed, xstate, wait_lock, cpus, idx, kids,
                 child, status, aux>>

(* A timer interrupt in user mode, or in the kernel with interrupts on.    *)
(* From user mode a killed process exits instead of yielding.              *)
Preemptible == {"user", "fork", "fork_parent", "fork_run", "wait", "exit"}

Yield(c, p) ==
  /\ ctx[c] = p /\ pc[p] \in Preemptible /\ budget > 0
  /\ pc[p] = "user" => killed[p] = 0
  /\ plock[p] = Free
  /\ plock' = [plock EXCEPT ![p] = c]
  /\ state' = [state EXCEPT ![p] = "RUNNABLE"]
  /\ ret' = [ret EXCEPT ![p] = pc[p]]
  /\ Goto(p, "sched")
  /\ budget' = budget - 1
  /\ UNCHANGED <<parent, pid, chan, killed, xstate, wait_lock, cpus, idx, kids,
                 child, status, nextpid, shell, named>>

-----------------------------------------------------------------------------
(* usertrap() and syscall(): a killed process exits; another one calls the *)
(* kernel as it likes, and init as init.c does.                            *)
Syscall(c, p, l) ==
  /\ At(c, p, "user")
  /\ IF killed[p] = 1 THEN l = "exit"
     ELSE IF p = initproc
       THEN l = IF shell = 0 THEN "fork" ELSE IF shell > 0 THEN "wait" ELSE "exit"
       ELSE l \in {"fork", "wait", "exit"}
  /\ l = "fork" => nextpid <= MaxPid
  /\ budget' = IF l = "wait" /\ p # initproc THEN budget - 1 ELSE budget
  /\ budget' >= 0
  /\ Goto(p, l)
  /\ idx' = [idx EXCEPT ![p] = 1]
  /\ status' = [status EXCEPT ![p] = IF killed[p] = 1 THEN -1 ELSE 0]
  /\ UNCHANGED <<fields, locks, cpus, ret, kids, child, nextpid, shell, named>>

(* Return to user mode from fork() or wait() with result r. *)
Return(p, r) ==
  /\ Goto(p, "user")
  /\ shell' = IF p # initproc THEN shell
              ELSE IF r < 0 THEN -1
              ELSE IF shell = 0 THEN r
              ELSE IF r = shell THEN 0 ELSE shell

(* allocpid(): the next value of nextpid, under pid_lock. *)
allocpid == nextpid + 1

(* p->killed survives in the free slot. *)
Mut_freeproc(q) ==
  /\ state' = [state EXCEPT ![q] = "UNUSED"]
  /\ parent' = [parent EXCEPT ![q] = NoProc]
  /\ pid' = [pid EXCEPT ![q] = 0]
  /\ chan' = [chan EXCEPT ![q] = NoProc]
  /\ xstate' = [xstate EXCEPT ![q] = 0]
  /\ UNCHANGED killed

freeproc(q) ==
  /\ state' = [state EXCEPT ![q] = "UNUSED"]
  /\ parent' = [parent EXCEPT ![q] = NoProc]
  /\ pid' = [pid EXCEPT ![q] = 0]
  /\ chan' = [chan EXCEPT ![q] = NoProc]
  /\ killed' = [killed EXCEPT ![q] = 0]
  /\ xstate' = [xstate EXCEPT ![q] = 0]

(* fork(): allocproc() visits slot i = idx[p] with its lock; on UNUSED it  *)
(* takes the slot and a pid, and the child is set up; ok says whether      *)
(* every memory allocation, uvmcopy()'s included, succeeds.                *)
ForkAlloc(c, p, ok) ==
  LET i == idx[p] IN
  /\ At(c, p, "fork")
  /\ i <= NPROC /\ plock[i] = Free /\ state[i] = "UNUSED"
  /\ nextpid' = allocpid
  /\ IF ok
       THEN /\ pid' = [pid EXCEPT ![i] = nextpid]
            /\ state' = [state EXCEPT ![i] = "USED"]
            /\ pc' = [pc EXCEPT ![p] = "fork_parent", ![i] = "resume"]
            /\ ret' = [ret EXCEPT ![i] = "user"]
            /\ child' = [child EXCEPT ![p] = i]
            /\ UNCHANGED <<parent, chan, killed, xstate, shell>>
       ELSE /\ freeproc(i)
            /\ Return(p, -1)
            /\ UNCHANGED <<ret, child>>
  /\ UNCHANGED <<locks, cpus, idx, kids, status, named, budget>>

(* allocproc() passes over a slot in use, or finds none at all. *)
ForkScan(c, p) ==
  LET i == idx[p] IN
  /\ At(c, p, "fork")
  /\ \/ /\ i <= NPROC /\ plock[i] = Free /\ state[i] # "UNUSED"
        /\ idx' = [idx EXCEPT ![p] = i + 1]
        /\ UNCHANGED <<pc, shell>>
     \/ /\ i > NPROC
        /\ Return(p, -1)
        /\ UNCHANGED idx
  /\ UNCHANGED <<fields, locks, cpus, ret, kids, child, status, nextpid, named, budget>>

(* Under wait_lock: np->parent = p. *)
ForkParent(c, p) ==
  /\ At(c, p, "fork_parent") /\ wait_lock = Free
  /\ parent' = [parent EXCEPT ![child[p]] = p]
  /\ Goto(p, "fork_run")
  /\ UNCHANGED <<state, pid, chan, killed, xstate, locks, cpus, ret, idx, kids,
                 child, status, aux>>

(* Under np->lock: the child may run. *)
ForkRun(c, p) ==
  /\ At(c, p, "fork_run") /\ plock[child[p]] = Free
  /\ state' = [state EXCEPT ![child[p]] = "RUNNABLE"]
  /\ child' = [child EXCEPT ![p] = NoProc]
  /\ Return(p, pid[child[p]])
  /\ UNCHANGED <<parent, pid, chan, killed, xstate, locks, cpus, ret, idx, kids,
                 status, nextpid, named, budget>>

-----------------------------------------------------------------------------
(* wait(): acquire(&wait_lock) and the start of a scan. *)
WaitLock(c, p) ==
  /\ At(c, p, "wait") /\ wait_lock = Free
  /\ wait_lock' = c
  /\ idx' = [idx EXCEPT ![p] = 1] /\ kids' = [kids EXCEPT ![p] = 0]
  /\ Goto(p, "wait_scan")
  /\ UNCHANGED <<fields, plock, cpus, ret, child, status, aux>>

(* The children that the scan has still to visit. *)
Unvisited(p) == {q \in Procs : q >= idx[p] /\ parent[q] = p}

(* A child that is not a ZOMBIE; wait_lock keeps p->parent still, so the   *)
(* scan may skip to the next child.                                        *)
WaitScan(c, p) ==
  /\ At(c, p, "wait_scan")
  /\ IF Unvisited(p) = {}
       THEN Goto(p, "wait_check") /\ UNCHANGED <<idx, kids>>
       ELSE LET q == Min(Unvisited(p)) IN
            /\ plock[q] = Free /\ state[q] # "ZOMBIE"
            /\ idx' = [idx EXCEPT ![p] = q + 1]
            /\ kids' = [kids EXCEPT ![p] = 1]
            /\ UNCHANGED pc
  /\ UNCHANGED <<fields, locks, cpus, ret, child, status, aux>>

(* The child is freed without acquiring np->lock. *)
Mut_WaitReap(c, p, copied) ==
  LET q == Min(Unvisited(p)) IN
  /\ At(c, p, "wait_scan") /\ Unvisited(p) # {}
  /\ state[q] = "ZOMBIE" /\ copied
  /\ wait_lock' = Free
  /\ freeproc(q)
  /\ Return(p, pid[q])
  /\ UNCHANGED <<plock, cpus, ret, idx, kids, child, status, nextpid, named, budget>>

(* The pid is returned and the child not freed. *)
Mut_WaitReap2(c, p, copied) ==
  LET q == Min(Unvisited(p)) IN
  /\ At(c, p, "wait_scan") /\ Unvisited(p) # {}
  /\ plock[q] = Free /\ state[q] = "ZOMBIE" /\ copied
  /\ wait_lock' = Free
  /\ Return(p, pid[q])
  /\ UNCHANGED <<fields, plock, cpus, ret, idx, kids, child, status, nextpid, named, budget>>

(* A ZOMBIE child: freeproc() it and return its pid.  With a bad address   *)
(* for the status, copyout() fails and the child stays.                    *)
WaitReap(c, p, copied) ==
  LET q == Min(Unvisited(p)) IN
  /\ At(c, p, "wait_scan") /\ Unvisited(p) # {}
  /\ plock[q] = Free /\ state[q] = "ZOMBIE"
  /\ p = initproc => copied
  /\ wait_lock' = Free
  /\ IF copied
       THEN /\ freeproc(q)
            /\ Return(p, pid[q])
       ELSE /\ Return(p, -1)
            /\ UNCHANGED fields
  /\ UNCHANGED <<plock, cpus, ret, idx, kids, child, status, nextpid, named, budget>>

(* wait_lock is dropped before sleep() has taken p->lock. *)
Mut_WaitCheck(c, p) ==
  /\ At(c, p, "wait_check")
  /\ IF kids[p] = 0 \/ killed[p] = 1
       THEN Return(p, -1)
       ELSE Goto(p, "sleep") /\ UNCHANGED shell
  /\ wait_lock' = Free
  /\ UNCHANGED <<fields, plock, cpus, ret, idx, kids, child, status, nextpid, named, budget>>

(* No child to wait for, or killed: return -1.  p->killed is read without  *)
(* p->lock.                                                                *)
WaitCheck(c, p) ==
  /\ At(c, p, "wait_check")
  /\ IF kids[p] = 0 \/ killed[p] = 1
       THEN Return(p, -1) /\ wait_lock' = Free
       ELSE Goto(p, "sleep") /\ UNCHANGED <<shell, wait_lock>>
  /\ UNCHANGED <<fields, plock, cpus, ret, idx, kids, child, status, nextpid, named, budget>>

(* sleep(p, &wait_lock): acquire(&p->lock) ... *)
SleepLock(c, p) ==
  /\ At(c, p, "sleep") /\ plock[p] = Free
  /\ plock' = [plock EXCEPT ![p] = c]
  /\ Goto(p, "sleeping")
  /\ UNCHANGED <<fields, wait_lock, cpus, ret, idx, kids, child, status, aux>>

(* release(lk) is forgotten. *)
Mut_Sleep(c, p) ==
  /\ At(c, p, "sleeping")
  /\ chan' = [chan EXCEPT ![p] = p]
  /\ state' = [state EXCEPT ![p] = "SLEEPING"]
  /\ ret' = [ret EXCEPT ![p] = "wait"]
  /\ Goto(p, "sched")
  /\ UNCHANGED <<parent, pid, killed, xstate, locks, cpus, idx, kids, child, status, aux>>

(* ... release(lk), then go to sleep; wait() starts over when awakened. *)
Sleep(c, p) ==
  /\ At(c, p, "sleeping")
  /\ wait_lock' = Free
  /\ chan' = [chan EXCEPT ![p] = p]
  /\ state' = [state EXCEPT ![p] = "SLEEPING"]
  /\ ret' = [ret EXCEPT ![p] = "wait"]
  /\ Goto(p, "sched")
  /\ UNCHANGED <<parent, pid, killed, xstate, plock, cpus, idx, kids, child, status, aux>>

-----------------------------------------------------------------------------
(* exit(): init must not; others have closed their files and take          *)
(* wait_lock.                                                              *)
Exit(c, p) ==
  /\ At(c, p, "exit")
  /\ IF p = initproc
       THEN Goto(p, "panic") /\ UNCHANGED wait_lock
       ELSE wait_lock = Free /\ wait_lock' = c /\ Goto(p, "reparent")
  /\ UNCHANGED <<fields, plock, cpus, ret, idx, kids, child, status, aux>>

(* reparent(): give a child to init and wake init; after the last one,     *)
(* exit() wakes its own parent.                                            *)
Reparent(c, p) ==
  LET mine == {q \in Procs : parent[q] = p} IN
  /\ At(c, p, "reparent")
  /\ IF mine # {}
       THEN /\ parent' = [parent EXCEPT ![Min(mine)] = initproc]
            /\ ret' = [ret EXCEPT ![p] = "reparent"]
       ELSE /\ ret' = [ret EXCEPT ![p] = "zombie"]
            /\ UNCHANGED parent
  /\ idx' = [idx EXCEPT ![p] = 1]
  /\ Goto(p, "wakeup")
  /\ UNCHANGED <<state, pid, chan, killed, xstate, locks, cpus, kids, child, status, aux>>

(* The channel of the wakeup() that p is in. *)
WakeChan(p) == IF ret[p] = "reparent" THEN initproc ELSE parent[p]

(* wakeup(): visit the next slot other than p's own, under its lock. *)
Wakeup(c, p) ==
  LET i == idx[p] IN
  /\ At(c, p, "wakeup")
  /\ IF i > NPROC
       THEN Goto(p, ret[p]) /\ UNCHANGED <<state, idx>>
       ELSE /\ i # p => plock[i] = Free
            /\ state' = IF i # p /\ state[i] = "SLEEPING" /\ chan[i] = WakeChan(p)
                          THEN [state EXCEPT ![i] = "RUNNABLE"] ELSE state
            /\ idx' = [idx EXCEPT ![p] = i + 1]
            /\ UNCHANGED pc
  /\ UNCHANGED <<parent, pid, chan, killed, xstate, locks, cpus, ret, kids, child, status, aux>>

(* The end of exit(): ZOMBIE under p->lock, then release(&wait_lock). *)
Zombie(c, p) ==
  /\ At(c, p, "zombie") /\ plock[p] = Free
  /\ plock' = [plock EXCEPT ![p] = c]
  /\ xstate' = [xstate EXCEPT ![p] = status[p]]
  /\ state' = [state EXCEPT ![p] = "ZOMBIE"]
  /\ wait_lock' = Free
  /\ ret' = [ret EXCEPT ![p] = "panic"]
  /\ Goto(p, "sched")
  /\ UNCHANGED <<parent, pid, chan, killed, cpus, idx, kids, child, status, aux>>

(* kill(t): the first slot whose pid is t, under its lock; the others are  *)
(* only looked at.                                                         *)
Kill(c, p, t) ==
  /\ At(c, p, "user") /\ killed[p] = 0 /\ p # initproc /\ budget > 0
  /\ IF t \notin Range(pid)
       THEN UNCHANGED <<killed, state>>
       ELSE LET i == Min({i \in Procs : pid[i] = t}) IN
            /\ plock[i] = Free
            /\ killed' = [killed EXCEPT ![i] = 1]
            /\ state' = IF state[i] = "SLEEPING"
                          THEN [state EXCEPT ![i] = "RUNNABLE"] ELSE state
  /\ named' = named \cup {t}
  /\ budget' = budget - 1
  /\ UNCHANGED <<parent, pid, chan, xstate, locks, cpus, thread, nextpid, shell>>

-----------------------------------------------------------------------------
(* The steps of the kernel thread of p, once it is in the kernel. *)
Kernel(c, p) ==
  \/ Sched(c, p) \/ Resume(c, p)
  \/ ForkScan(c, p) \/ (\E ok \in BOOLEAN : ForkAlloc(c, p, ok))
  \/ ForkParent(c, p) \/ ForkRun(c, p)
  \/ WaitLock(c, p) \/ WaitScan(c, p) \/ (\E ok \in BOOLEAN : WaitReap(c, p, ok))
  \/ WaitCheck(c, p) \/ SleepLock(c, p) \/ Sleep(c, p)
  \/ Exit(c, p) \/ Reparent(c, p) \/ Wakeup(c, p) \/ Zombie(c, p)

(* What user programs and the timer choose. *)
User(c, p) ==
  \/ \E l \in {"fork", "wait", "exit"} : Syscall(c, p, l)
  \/ \E t \in KillPids : Kill(c, p, t)
  \/ Yield(c, p)

Next ==
  \E c \in CPUs :
    \/ SchedReturn(c)
    \/ \E p \in Procs : SchedPick(c, p) \/ Kernel(c, p) \/ User(c, p)

Spec == Init /\ [][Next]_vars

(* A CPU executes on: scheduler() visits every slot in turn, a process in  *)
(* the kernel takes its next step, and init.c makes its next call.  Other  *)
(* programs need not make any call.                                        *)
Fairness ==
  /\ \A c \in CPUs : WF_vars(SchedReturn(c))
  /\ \A p \in Procs : WF_vars(\E c \in CPUs : SchedPick(c, p))
  /\ \A p \in Procs : WF_vars(\E c \in CPUs : Kernel(c, p))
  /\ WF_vars(\E c \in CPUs, l \in {"fork", "wait", "exit"} : Syscall(c, initproc, l))

FairSpec == Spec /\ Fairness

-----------------------------------------------------------------------------
(* A process executes on one CPU at a time, although its state is already  *)
(* RUNNABLE, SLEEPING or ZOMBIE while it still uses its stack in sched():  *)
(* p->lock, held across swtch(), keeps other CPUs and wait() away.  And    *)
(* every field keeps its type.                                             *)
StackExclusive ==
  /\ TypeOK
  /\ \A c \in CPUs : ctx[c] # NoProc =>
       /\ cpuproc[c] = ctx[c]
       /\ state[ctx[c]] \notin {"UNUSED", "USED"}
       /\ \A d \in CPUs : ctx[d] = ctx[c] => d = c

(* sched() finds what it checks, so it never panics: the process holds     *)
(* p->lock and no other lock, and has changed its state.                   *)
SchedNeverPanics ==
  \A c \in CPUs, p \in Procs : At(c, p, "sched") => SchedChecks(c, p)

(* No exit is missed: with wait_lock free, whoever sleeps in wait() has no *)
(* ZOMBIE child, neither its own nor, for init, an inherited one.          *)
NoMissedExit ==
  wait_lock = Free =>
    \A p, q \in Procs :
      state[p] = "SLEEPING" /\ chan[p] = p /\ parent[q] = p => state[q] # "ZOMBIE"

(* Every process can be waited for: with wait_lock free, each live or      *)
(* ZOMBIE process but init has a parent that is neither free nor a ZOMBIE. *)
NoOrphans ==
  wait_lock = Free =>
    \A q \in Procs \ {initproc} :
      state[q] \notin {"UNUSED", "USED"} =>
        parent[q] # NoProc /\ state[parent[q]] \in {"SLEEPING", "RUNNABLE", "RUNNING"}

(* Parents and children find each other, however exit(), reparent() and    *)
(* wait() interleave: no exit is missed and no process is left without a   *)
(* parent that can wait for it.                                            *)
ParentsServed == NoMissedExit /\ NoOrphans

(* The lock that CPU c is about to acquire, if any, as the CPU holding it. *)
SpinsOn(c) ==
  LET p == ctx[c] IN
  IF p = NoProc THEN Free
  ELSE CASE pc[p] \in {"wait", "exit", "fork_parent"} -> wait_lock
         [] pc[p] \in {"sleep", "zombie"} -> plock[p]
         [] pc[p] = "fork_run" -> plock[child[p]]
         [] pc[p] = "wakeup" /\ idx[p] <= NPROC /\ idx[p] # p -> plock[idx[p]]
         [] pc[p] = "wait_scan" /\ Unvisited(p) # {} -> plock[Min(Unvisited(p))]
         [] pc[p] = "fork" /\ idx[p] <= NPROC -> plock[idx[p]]
         [] OTHER -> Free

(* No deadlock among spinlocks: the CPU that holds the lock another one    *)
(* spins on is not itself spinning on a lock held by a spinning CPU, and   *)
(* no CPU spins on its own.  proc.c:26: wait_lock "must be acquired before *)
(* any p->lock".                                                           *)
NoLockCycle ==
  \A c \in CPUs : SpinsOn(c) # Free =>
    /\ SpinsOn(c) # c
    /\ SpinsOn(SpinsOn(c)) # Free => SpinsOn(SpinsOn(SpinsOn(c))) = Free

(* The locks of proc.c are taken in an order and held over a time such     *)
(* that sched() never panics and no CPUs wait for each other.              *)
LocksRight == SchedNeverPanics /\ NoLockCycle

(* Pids of processes in use are distinct, also when slots are reused. *)
PidsUnique ==
  \A p, q \in Procs :
    state[p] # "UNUSED" /\ state[q] # "UNUSED" /\ pid[p] = pid[q] => p = q

(* Only a process whose pid was passed to kill() is killed: proc.c:575     *)
(* "Kill the process with the given pid".  Not so after kill(0), which     *)
(* marks a free slot.                                                      *)
KilledWasNamed ==
  0 \notin named =>
    \A p \in Procs : state[p] # "UNUSED" /\ killed[p] = 1 => pid[p] \in named

(* kill() strikes the process it names and no other, also when slots are   *)
(* freed and reused at the same time.                                      *)
KillsRight == PidsUnique /\ KilledWasNamed

(* A killed process is not left asleep: proc.c:588 "Wake process from      *)
(* sleep()".                                                               *)
KilledNotAsleep ==
  \A p \in Procs : state[p] = "SLEEPING" /\ plock[p] = Free => killed[p] = 0

(* init gave up because it could not fork, or has no pid left in the model. *)
InitStopped == pc[initproc] = "panic" \/ (shell = 0 /\ nextpid > MaxPid)

(* A ZOMBIE child of init, its own or inherited, is freed in the end: init *)
(* is woken for it however exit(), reparent() and wait() interleave.       *)
InheritedReaped ==
  \A q \in Procs :
    (state[q] = "ZOMBIE" /\ parent[q] = initproc) ~> (state[q] = "UNUSED" \/ InitStopped)
=============================================================================
