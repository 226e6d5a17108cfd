----------------------------- MODULE ProcProofs -----------------------------
(***************************************************************************)
(* The inductive invariant of processes and CPUs, ProcInv, a lemma for     *)
(* each action that keeps it, and the theorems that follow from it.        *)
(***************************************************************************)
EXTENDS Proc, FiniteSetTheorems, TLAPS

(* The default prover. *)
USE ZenonT(60)

(* The labels at which a process holds p->lock, and those at which it      *)
(* holds wait_lock.                                                        *)
UnderOwnLock == {"sched", "resume", "sleeping"}
UnderWaitLock == {"wait_scan", "wait_check", "sleep", "sleeping", "reparent", "wakeup",
                  "zombie"}

(* A CPU that runs p has it as c->proc; no two CPUs have the same process; *)
(* back in scheduler() it still holds the lock of the process it left.     *)
InvCpu ==
  \A c \in CPUs :
    /\ ctx[c] # NoProc => cpuproc[c] = ctx[c]
    /\ \A d \in CPUs : cpuproc[c] # NoProc /\ cpuproc[d] = cpuproc[c] => d = c
    /\ ctx[c] = NoProc /\ cpuproc[c] # NoProc =>
         /\ pc[cpuproc[c]] = "resume"
         /\ state[cpuproc[c]] \in {"RUNNABLE", "SLEEPING", "ZOMBIE"}

(* Who holds each lock, exactly. *)
InvPlock ==
  \A c \in CPUs, p \in Procs :
    plock[p] = c <=> cpuproc[c] = p /\ (ctx[c] = NoProc \/ pc[p] \in UnderOwnLock)
InvWaitLock ==
  \A c \in CPUs :
    wait_lock = c <=> ctx[c] # NoProc /\ pc[ctx[c]] \in UnderWaitLock

(* The state of a process agrees with where it is. *)
PlaceAt(p) ==
  /\ pc[p] \notin {"none", "resume"} => \E c \in CPUs : ctx[c] = p
  /\ \A c \in CPUs : ctx[c] = p =>
       state[p] \in IF pc[p] = "sched" THEN {"RUNNABLE", "SLEEPING", "ZOMBIE"}
                                       ELSE {"RUNNING"}
  /\ pc[p] = "none" => state[p] = "UNUSED"
  /\ pc[p] \in {"sched", "resume"} =>
       /\ ret[p] \in Preemptible \cup {"panic"}
       /\ ret[p] = "panic" <=> state[p] \in {"UNUSED", "ZOMBIE"}
  /\ state[p] = "USED" => pc[p] = "resume" /\ ret[p] = "user"
  /\ pc[p] = "wakeup" => ret[p] \in {"reparent", "zombie"}
InvPlace == \A p \in Procs : PlaceAt(p)

(* The label at which p goes on, and whether it has a child half made. *)
Place(p) == IF pc[p] \in {"sched", "resume"} THEN ret[p] ELSE pc[p]
Forking(p) == Place(p) \in {"fork_parent", "fork_run"}

(* A child under construction belongs to one fork(). *)
InvFork ==
  /\ \A p \in Procs : Forking(p) =>
       child[p] \in Procs /\ state[child[p]] = "USED"
  /\ \A p, q \in Procs : Forking(p) /\ Forking(q) /\ child[p] = child[q] => p = q
  /\ \A p \in Procs : Place(p) = "fork_run" => parent[child[p]] = p

(* Processes without children: not yet running, or past reparent(). *)
Childless(p) ==
  \/ state[p] \in {"UNUSED", "USED", "ZOMBIE"}
  \/ pc[p] = "zombie" \/ (pc[p] = "wakeup" /\ ret[p] = "zombie")

InvFamily ==
  /\ parent[initproc] = NoProc /\ state[initproc] \notin {"UNUSED", "USED", "ZOMBIE"}
  /\ \A p \in Procs : state[p] = "UNUSED" => parent[p] = NoProc
  /\ \A p \in Procs \ {initproc} :
       state[p] \notin {"UNUSED", "USED"} => parent[p] # NoProc
  /\ \A p, q \in Procs : Childless(p) => parent[q] # p
  /\ \A p \in Procs : pc[p] \in {"reparent", "wakeup", "zombie"} => p # initproc

(* p sleeps in wait(). *)
Waits(p) == state[p] = "SLEEPING" /\ chan[p] = p

(* The scan of wait() has found no ZOMBIE so far, and at its end there is  *)
(* none. *)
InvScan ==
  \A p, q \in Procs : parent[q] = p =>
    /\ pc[p] = "wait_scan" /\ q < idx[p] => state[q] # "ZOMBIE"
    /\ pc[p] \in {"wait_check", "sleep", "sleeping"} => state[q] # "ZOMBIE"

(* exit() has woken its parent, as far as wakeup() has come. *)
InvWoken ==
  \A p, q \in Procs : parent[q] = p /\ Waits(p) =>
    /\ pc[q] # "zombie"
    /\ pc[q] = "wakeup" /\ ret[q] = "zombie" => idx[q] <= p

(* A parent asleep has a ZOMBIE only while reparent() has still to wake it. *)
InvSleep ==
  \A p, q \in Procs : Waits(p) /\ parent[q] = p /\ state[q] = "ZOMBIE" =>
    p = initproc /\ \E r \in Procs : pc[r] = "wakeup" /\ ret[r] = "reparent" /\ idx[r] <= p

InvPids ==
  /\ nextpid > 0
  /\ \A p \in Procs : pid[p] < nextpid /\ (pid[p] = 0 <=> state[p] = "UNUSED")
  /\ \A p \in Procs : 0 \notin named /\ killed[p] = 1 => pid[p] \in named
  /\ \A p, q \in Procs : pid[p] = pid[q] => p = q \/ pid[p] = 0

ProcInv ==
  /\ TypeOK /\ InvCpu /\ InvPlock /\ InvWaitLock /\ InvPlace /\ InvFork
  /\ InvFamily /\ InvScan /\ InvWoken /\ InvSleep /\ InvPids

(* Min is defined on sets of slots. *)
LeastSlot ==
  \A S \in SUBSET Procs : S # {} => Min(S) \in S /\ \A m \in S : Min(S) <= m

(* The types, and what tells the values apart. *)
LEMMA Types ==
  ASSUME ProcInv
  PROVE  /\ state \in [Procs -> procstate] /\ parent \in [Procs -> Procs \cup {NoProc}]
         /\ pid \in [Procs -> Nat] /\ chan \in [Procs -> Procs \cup {NoProc}]
         /\ killed \in [Procs -> {0, 1}] /\ xstate \in [Procs -> {0, -1}]
         /\ plock \in [Procs -> CPUs \cup {Free}] /\ wait_lock \in CPUs \cup {Free}
         /\ cpuproc \in [CPUs -> Procs \cup {NoProc}] /\ ctx \in [CPUs -> Procs \cup {NoProc}]
         /\ pc \in [Procs -> Labels] /\ ret \in [Procs -> Labels]
         /\ idx \in [Procs -> 1 .. NPROC + 1] /\ kids \in [Procs -> {0, 1}]
         /\ child \in [Procs -> Procs \cup {NoProc}] /\ status \in [Procs -> {0, -1}]
         /\ nextpid \in Nat /\ shell \in Nat \cup {-1}
         /\ named \subseteq Nat /\ budget \in 0 .. Budget
         /\ Free \notin CPUs /\ NoProc \notin Procs /\ initproc \in Procs
  BY SMTT(60), ProcConstants DEF ProcInv, TypeOK, Procs, NoProc, initproc

(* A CPU that executes p is alone with it, and holds its lock and          *)
(* wait_lock where the code says so.                                       *)
RunsAt(c, p) ==
  /\ cpuproc[c] = p /\ p # NoProc
  /\ \A d \in CPUs : cpuproc[d] = p \/ ctx[d] = p => d = c
  /\ pc[p] # "sched" => state[p] = "RUNNING"
  /\ plock[p] = IF pc[p] \in UnderOwnLock THEN c ELSE Free
  /\ pc[p] \in UnderWaitLock <=> wait_lock = c

(* The invariant gives this for the process a CPU executes. *)
LEMMA Here ==
  ASSUME ProcInv, NEW c \in CPUs, NEW p \in Procs, ctx[c] = p
  PROVE  RunsAt(c, p)
<1>1. cpuproc[c] = p /\ p # NoProc /\ \A d \in CPUs : cpuproc[d] = p \/ ctx[d] = p => d = c
  BY SMTT(60), Types DEF ProcInv, InvCpu
<1>2. pc[p] # "sched" => state[p] = "RUNNING"
  BY SMTT(60) DEF ProcInv, InvPlace, PlaceAt
<1>3. plock[p] = IF pc[p] \in UnderOwnLock THEN c ELSE Free
  BY SMTT(60), <1>1, Types DEF ProcInv, InvPlock
<1>4. pc[p] \in UnderWaitLock <=> wait_lock = c
  BY <1>1 DEF ProcInv, InvWaitLock
<1> QED
  BY <1>1, <1>2, <1>3, <1>4 DEF RunsAt

(* At most one process is in a section that wait_lock protects, and none   *)
(* is while it is free.                                                    *)
LEMMA OneHolder ==
  ASSUME ProcInv, NEW p \in Procs, pc[p] \in UnderWaitLock
  PROVE  wait_lock # Free /\ \A q \in Procs : pc[q] \in UnderWaitLock => q = p
<1>1. ASSUME NEW q \in Procs, pc[q] \in UnderWaitLock
      PROVE  \E c \in CPUs : ctx[c] = q /\ wait_lock = c
  <2>1. PICK c \in CPUs : ctx[c] = q
    BY <1>1 DEF ProcInv, InvPlace, PlaceAt, UnderWaitLock
  <2> QED
    BY <1>1, <2>1, Here DEF RunsAt
<1> QED
  BY SMTT(60), <1>1, Types

(* A process off the CPUs goes on where sched() left it. *)
LEMMA Away ==
  ASSUME ProcInv, NEW q \in Procs, plock[q] = Free, state[q] # "RUNNING"
  PROVE  /\ \A d \in CPUs : ctx[d] # q /\ cpuproc[d] # q
         /\ pc[q] \in {"none", "resume"}
<1>1. ASSUME NEW d \in CPUs, ctx[d] = q PROVE FALSE
  BY <1>1, Here, Types DEF RunsAt, UnderOwnLock
<1>2. ASSUME NEW d \in CPUs, cpuproc[d] = q PROVE FALSE
  <2>1. ctx[d] = NoProc
    BY <1>1, <1>2, Types DEF ProcInv, InvCpu
  <2> QED
    BY SMTT(60), <1>2, <2>1, Types DEF ProcInv, InvPlock
<1> QED
  BY SMTT(60), <1>1, <1>2 DEF ProcInv, InvPlace, PlaceAt

(* A process that runs, or whose lock is held, is past fork(). *)
LEMMA Live ==
  ASSUME ProcInv, NEW q \in Procs, NEW d \in CPUs, ctx[d] = q \/ plock[q] = d
  PROVE  state[q] \notin {"UNUSED", "USED"}
<1>1. CASE ctx[d] = q
  BY <1>1 DEF ProcInv, InvPlace, PlaceAt
<1>2. CASE ctx[d] # q /\ plock[q] = d
  <2>1. cpuproc[d] = q /\ ctx[d] = NoProc /\ q # NoProc
    BY SMTT(60), <1>2, Types DEF ProcInv, InvPlock, InvCpu
  <2> QED
    BY <2>1 DEF ProcInv, InvCpu
<1> QED
  BY <1>1, <1>2

-----------------------------------------------------------------------------
(* What a step of process p on CPU c does, short of switching away, seen   *)
(* from the locks and the states: another process may be awakened, started *)
(* or freed, under its lock, or its slot taken.                            *)
Moved(q) ==
  /\ plock[q] = Free
  /\ \/ state[q] = "SLEEPING" /\ state'[q] = "RUNNABLE"
     \/ state[q] = "USED" /\ state'[q] = "RUNNABLE"
     \/ state[q] = "ZOMBIE" /\ state'[q] = "UNUSED"

Same(q) ==
  pc'[q] = pc[q] /\ ret'[q] = ret[q] /\ (state'[q] = state[q] \/ Moved(q))

Taken(q) ==
  state[q] = "UNUSED" /\ state'[q] = "USED" /\ pc'[q] = "resume" /\ ret'[q] = "user"

OthersKept(p) ==
  \A q \in Procs : q # p =>
    /\ plock'[q] = plock[q] /\ idx'[q] = idx[q] /\ child'[q] = child[q]
    /\ Same(q) \/ Taken(q)

OwnStep(c, p) ==
  /\ plock'[p] = IF pc'[p] \in UnderOwnLock THEN c ELSE Free
  /\ wait_lock' = IF pc'[p] \in UnderWaitLock THEN c
                  ELSE IF pc[p] \in UnderWaitLock THEN Free ELSE wait_lock
  /\ pc'[p] \in UnderWaitLock => pc[p] \in UnderWaitLock \/ wait_lock = Free
  /\ pc'[p] \notin {"none", "resume"}
  /\ IF pc'[p] = "sched"
       THEN /\ state'[p] \in {"RUNNABLE", "SLEEPING", "ZOMBIE"}
            /\ ret'[p] \in Preemptible \cup {"panic"}
            /\ ret'[p] = "panic" <=> state'[p] = "ZOMBIE"
       ELSE state'[p] = "RUNNING"
  /\ pc'[p] = "wakeup" => ret'[p] \in {"reparent", "zombie"}

ThreadStep(c, p) ==
  /\ ctx[c] = p /\ pc[p] # "sched" /\ ctx' = ctx /\ cpuproc' = cpuproc
  /\ OthersKept(p) /\ OwnStep(c, p)

(* Such a step keeps the locks and the states right. *)
LEMMA ThreadStepKeeps ==
  ASSUME ProcInv, NEW c \in CPUs, NEW p \in Procs, ThreadStep(c, p)
  PROVE  InvCpu' /\ InvPlock' /\ InvWaitLock' /\ InvPlace'
<1>1. ctx[c] = p /\ ctx' = ctx /\ cpuproc' = cpuproc
  BY DEF ThreadStep
<1>2. /\ ctx[c] = p /\ cpuproc[c] = p /\ \A d \in CPUs : cpuproc[d] = p \/ ctx[d] = p => d = c
      /\ pc[p] \in UnderWaitLock <=> wait_lock = c
  BY <1>1, Here DEF RunsAt
<1>3. ASSUME NEW q \in Procs, q # p, plock[q] # Free \/ state[q] = "RUNNING"
      PROVE  pc'[q] = pc[q] /\ ret'[q] = ret[q] /\ state'[q] = state[q]
  <2>1. Same(q) \/ Taken(q)
    BY <1>3 DEF ThreadStep, OthersKept
  <2>2. CASE Same(q)
    BY <1>3, <2>2 DEF Same, Moved
  <2>3. ~Taken(q)
    <3>1. SUFFICES ASSUME state[q] = "UNUSED" PROVE FALSE
      BY DEF Taken
    <3>2. PICK d \in CPUs : plock[q] = d
      BY <1>3, <3>1, Types
    <3> QED
      BY <3>1, <3>2, Live
  <2> QED
    BY <2>1, <2>2, <2>3
<1>4. InvCpu'
  <2> SUFFICES ASSUME NEW d \in CPUs, ctx[d] = NoProc, cpuproc[d] # NoProc
               PROVE  /\ pc'[cpuproc[d]] = "resume"
                      /\ state'[cpuproc[d]] \in {"RUNNABLE", "SLEEPING", "ZOMBIE"}
    BY <1>1 DEF ProcInv, InvCpu
  <2>1. cpuproc[d] \in Procs /\ cpuproc[d] # p /\ plock[cpuproc[d]] # Free
    BY SMTT(60), <1>2, Types DEF ProcInv, InvPlock
  <2> QED
    BY <1>3, <2>1 DEF ProcInv, InvCpu
<1>5. InvPlock'
  <2> SUFFICES ASSUME NEW d \in CPUs, NEW q \in Procs
               PROVE  plock'[q] = d <=>
                        cpuproc[d] = q /\ (ctx[d] = NoProc \/ pc'[q] \in UnderOwnLock)
    BY <1>1 DEF InvPlock
  <2>1. CASE q = p
    BY <1>2, <2>1, Types DEF ThreadStep, OwnStep
  <2>2. CASE q # p
    <3>1. plock'[q] = plock[q]
      BY <2>2 DEF ThreadStep, OthersKept
    <3>2. CASE plock[q] # Free \/ state[q] = "RUNNING"
      BY SMTT(60), <1>3, <2>2, <3>1, <3>2 DEF ProcInv, InvPlock
    <3>3. CASE plock[q] = Free /\ state[q] # "RUNNING"
      BY <3>1, <3>3, Away, Types
    <3> QED
      BY <3>2, <3>3
  <2> QED
    BY <2>1, <2>2
<1>6. InvWaitLock'
  <2> SUFFICES ASSUME NEW d \in CPUs
               PROVE  wait_lock' = d <=> ctx[d] # NoProc /\ pc'[ctx[d]] \in UnderWaitLock
    BY <1>1 DEF InvWaitLock
  <2>1. CASE d = c
    BY <1>2, <2>1, Types DEF ThreadStep, OwnStep
  <2>2. CASE d # c
    <3>1. wait_lock' = d <=> wait_lock = d
      BY <1>2, <2>2, Types DEF ThreadStep, OwnStep
    <3>2. ASSUME ctx[d] # NoProc PROVE pc'[ctx[d]] = pc[ctx[d]]
      <4>1. ctx[d] \in Procs /\ ctx[d] # p
        BY <1>2, <2>2, <3>2, Types
      <4>2. plock[ctx[d]] # Free \/ state[ctx[d]] = "RUNNING"
        BY SMTT(60), <4>1, Here, Types DEF RunsAt, UnderOwnLock
      <4> QED
        BY <1>3, <4>1, <4>2
    <3> QED
      BY <3>1, <3>2 DEF ProcInv, InvWaitLock
  <2> QED
    BY <2>1, <2>2
<1>7. InvPlace'
  <2> SUFFICES ASSUME NEW q \in Procs PROVE PlaceAt(q)'
    BY DEF InvPlace
  <2>1. CASE q = p
    BY <1>2, <1>1, <2>1, Types DEF ThreadStep, OwnStep, PlaceAt
  <2>2. CASE q # p /\ pc'[q] = pc[q] /\ ret'[q] = ret[q] /\ state'[q] = state[q]
    BY SMTT(60), <1>1, <2>2 DEF ProcInv, InvPlace, PlaceAt
  <2>3. CASE q # p /\ (pc'[q] # pc[q] \/ ret'[q] # ret[q] \/ state'[q] # state[q])
    <3>1. plock[q] = Free /\ state[q] # "RUNNING" /\ (Same(q) \/ Taken(q))
      BY <1>3, <2>3 DEF ThreadStep, OthersKept
    <3>2. (\A d \in CPUs : ctx[d] # q) /\ pc[q] \in {"none", "resume"} /\ PlaceAt(q)
      BY <3>1, Away DEF ProcInv, InvPlace
    <3>3. CASE Same(q)
      BY SMTT(60), <1>1, <2>3, <3>2, <3>3 DEF Same, Moved, PlaceAt
    <3>4. CASE Taken(q)
      BY <1>1, <3>2, <3>4 DEF Taken, PlaceAt, Preemptible
    <3> QED
      BY <3>1, <3>3, <3>4
  <2> QED
    BY <2>1, <2>2, <2>3
<1> QED
  BY <1>4, <1>5, <1>6, <1>7

(* Most steps leave families, pids and the sets of free, new and ZOMBIE    *)
(* processes alone.                                                        *)
QuietStep(p) ==
  /\ \A q \in Procs :
       /\ parent'[q] = parent[q] /\ child'[q] = child[q]
       /\ \A s \in {"UNUSED", "USED", "ZOMBIE"} : state'[q] = s <=> state[q] = s
  /\ Forking(p)' => Place(p)' = Place(p)
  /\ Childless(p)' => Childless(p)
  /\ pc'[p] \in {"reparent", "wakeup", "zombie"} => p # initproc

(* A step of p moves no other process to a label of wait() or exit(). *)
LEMMA PlaceOfOthers ==
  ASSUME ProcInv, NEW c \in CPUs, NEW p \in Procs, ThreadStep(c, p), NEW q \in Procs, q # p
  PROVE  /\ Forking(q)' => Forking(q) /\ child'[q] = child[q] /\ Place(q)' = Place(q)
         /\ Childless(q)' => Childless(q) \/ (state[q] = "USED" /\ state'[q] = "RUNNABLE")
         /\ pc'[q] \in UnderWaitLock =>
              /\ pc[q] \in UnderWaitLock /\ pc'[q] = pc[q]
              /\ ret'[q] = ret[q] /\ idx'[q] = idx[q]
<1>1. child'[q] = child[q] /\ idx'[q] = idx[q] /\ (Same(q) \/ Taken(q))
  BY DEF ThreadStep, OthersKept
<1>2. CASE Same(q)
  BY <1>1, <1>2 DEF Same, Moved, Forking, Place, Childless
<1>3. CASE Taken(q)
  BY <1>1, <1>3 DEF Taken, Forking, Place, Childless, UnderWaitLock
<1> QED
  BY <1>1, <1>2, <1>3

(* The half-made children of other processes stay as they are. *)
LEMMA ForkKeeps ==
  ASSUME ProcInv, NEW c \in CPUs, NEW p \in Procs, ThreadStep(c, p),
         \A q \in Procs : q # p /\ Forking(q) =>
           /\ state'[child[q]] = "USED"
           /\ Place(q) = "fork_run" => parent'[child[q]] = parent[child[q]]
           /\ Forking(p)' => child'[p] # child[q],
         Forking(p)' => /\ child'[p] \in Procs /\ state'[child'[p]] = "USED"
                        /\ Place(p)' = "fork_run" => parent'[child'[p]] = p
  PROVE  InvFork'
<1>1. ASSUME NEW q \in Procs, q # p, Forking(q)'
      PROVE  /\ Forking(q) /\ child'[q] = child[q]
             /\ child'[q] \in Procs /\ state'[child'[q]] = "USED"
             /\ Place(q)' = "fork_run" => parent'[child'[q]] = q
             /\ Forking(p)' => child'[p] # child'[q]
  BY SMTT(60), <1>1, PlaceOfOthers DEF ProcInv, InvFork
<1>2. ASSUME NEW q \in Procs, NEW r \in Procs, Forking(q)', Forking(r)', child'[q] = child'[r]
      PROVE  q = r
  BY SMTT(60), <1>1, <1>2 DEF ProcInv, InvFork
<1> QED
  BY <1>1, <1>2 DEF InvFork, Forking

(* The pids stay right if no slot is taken or freed. *)
LEMMA PidsKeep ==
  ASSUME ProcInv, \A q \in Procs : state'[q] = "UNUSED" <=> state[q] = "UNUSED",
         pid' = pid, killed' = killed, nextpid' = nextpid, named' = named
  PROVE  InvPids'
  BY DEF ProcInv, InvPids

(* Such a step keeps half-made children and families right. *)
LEMMA QuietStepKeeps ==
  ASSUME ProcInv, NEW c \in CPUs, NEW p \in Procs, ThreadStep(c, p), QuietStep(p)
  PROVE  InvFork' /\ InvFamily'
<1>1. ASSUME NEW q \in Procs, Forking(q)' PROVE Forking(q) /\ Place(q)' = Place(q)
  BY <1>1, PlaceOfOthers DEF QuietStep, Forking
<1>2. ASSUME NEW q \in Procs, Childless(q)' PROVE Childless(q)
  BY <1>2, PlaceOfOthers DEF QuietStep
<1>3. InvFork'
  <2>1. ASSUME NEW q \in Procs, Forking(q)
        PROVE  /\ child[q] \in Procs /\ state'[child[q]] = "USED"
               /\ parent'[child[q]] = parent[child[q]]
    BY <2>1 DEF ProcInv, InvFork, QuietStep
  <2>2. Forking(p)' => Forking(p) /\ child'[p] = child[p] /\ Place(p)' = Place(p)
    BY <1>1 DEF QuietStep
  <2>3. \A q \in Procs : q # p /\ Forking(q) => (Forking(p)' => child'[p] # child[q])
    BY <2>2 DEF ProcInv, InvFork
  <2>4. Forking(p)' => /\ child'[p] \in Procs /\ state'[child'[p]] = "USED"
                       /\ Place(p)' = "fork_run" => parent'[child'[p]] = p
    BY <2>1, <2>2 DEF ProcInv, InvFork
  <2> QED
    BY SMTT(60), <2>1, <2>3, <2>4, ForkKeeps
<1>4. ASSUME NEW q \in Procs, pc'[q] \in {"reparent", "wakeup", "zombie"} PROVE q # initproc
  BY SMTT(60), <1>4, PlaceOfOthers DEF QuietStep, UnderWaitLock, ProcInv, InvFamily
<1>5. InvFamily'
  BY SMTT(60), <1>2, <1>4, Types DEF ProcInv, InvFamily, QuietStep
<1> QED
  BY <1>3, <1>5

(* A step of a process that does not hold wait_lock makes no ZOMBIE, gives *)
(* no process but a new one another parent, and puts nobody to sleep.      *)
OutsideStep(p) ==
  /\ pc[p] \notin UnderWaitLock
  /\ pc'[p] \in UnderWaitLock =>
       pc'[p] = "reparent" \/ (pc'[p] = "wait_scan" /\ idx'[p] = 1)
  /\ \A q \in Procs :
       /\ state'[q] = "ZOMBIE" => state[q] = "ZOMBIE"
       /\ state[q] # "USED" => parent'[q] \in {parent[q], NoProc}
       /\ state'[q] = "SLEEPING" => state[q] = "SLEEPING" /\ chan'[q] = chan[q]

(* Such a step cannot make wait() miss an exit. *)
LEMMA OutsideStepKeeps ==
  ASSUME ProcInv, NEW c \in CPUs, NEW p \in Procs, ThreadStep(c, p), OutsideStep(p)
  PROVE  InvScan' /\ InvWoken' /\ InvSleep'
<1>1. ASSUME NEW q \in Procs, NEW r \in Procs, parent'[q] = r, state[q] # "USED"
      PROVE  parent[q] = r
  BY <1>1, Types DEF OutsideStep
<1>2. ASSUME NEW r \in Procs, Waits(r)' PROVE Waits(r)
  BY <1>2 DEF OutsideStep, Waits
<1>3. InvScan'
  <2> SUFFICES ASSUME NEW r \in Procs, NEW q \in Procs, parent'[q] = r, state'[q] = "ZOMBIE",
                      \/ pc'[r] = "wait_scan" /\ q < idx'[r]
                      \/ pc'[r] \in {"wait_check", "sleep", "sleeping"}
               PROVE  FALSE
    BY DEF InvScan
  <2>1. state[q] = "ZOMBIE" /\ parent[q] = r
    BY <1>1 DEF OutsideStep
  <2>2. CASE r = p
    <3>1. q < 1
      BY <2>2 DEF OutsideStep, UnderWaitLock
    <3> QED
      BY SMTT(60), <3>1 DEF Procs
  <2>3. CASE r # p
    BY SMTT(60), <2>1, <2>3, PlaceOfOthers DEF UnderWaitLock, ProcInv, InvScan
  <2> QED
    BY <2>2, <2>3
<1>4. ASSUME NEW q \in Procs, pc'[q] \in {"wakeup", "zombie"}
      PROVE  q # p /\ state[q] # "USED" /\ pc'[q] = pc[q] /\ ret'[q] = ret[q] /\ idx'[q] = idx[q]
  <2>1. q # p
    BY <1>4 DEF OutsideStep, UnderWaitLock
  <2>2. pc'[q] = pc[q] /\ ret'[q] = ret[q] /\ idx'[q] = idx[q]
    BY <1>4, <2>1, PlaceOfOthers DEF UnderWaitLock
  <2> QED
    BY <1>4, <2>1, <2>2 DEF ProcInv, InvPlace, PlaceAt
<1>5. InvWoken'
  BY <1>1, <1>2, <1>4 DEF ProcInv, InvWoken
<1>6. InvSleep'
  <2> SUFFICES ASSUME NEW r \in Procs, NEW q \in Procs, Waits(r)', parent'[q] = r,
                      state'[q] = "ZOMBIE"
               PROVE  /\ r = initproc
                      /\ \E x \in Procs : pc'[x] = "wakeup" /\ ret'[x] = "reparent" /\ idx'[x] <= r
    BY DEF InvSleep
  <2>1. Waits(r) /\ state[q] = "ZOMBIE" /\ parent[q] = r
    BY <1>1, <1>2 DEF OutsideStep
  <2>2. r = initproc /\ \E x \in Procs : pc[x] = "wakeup" /\ ret[x] = "reparent" /\ idx[x] <= r
    BY <2>1 DEF ProcInv, InvSleep
  <2>3. PICK x \in Procs : pc[x] = "wakeup" /\ ret[x] = "reparent" /\ idx[x] <= r
    BY <2>2
  <2>4. x # p /\ idx'[x] = idx[x] /\ (Same(x) \/ Taken(x)) /\ state[x] = "RUNNING"
    <3>1. PICK d \in CPUs : ctx[d] = x
      BY <2>3 DEF ProcInv, InvPlace, PlaceAt
    <3> QED
      BY SMTT(60), <2>3, <3>1, Here DEF RunsAt, OutsideStep, UnderWaitLock, ThreadStep, OthersKept
  <2>5. pc'[x] = pc[x] /\ ret'[x] = ret[x]
    BY <2>4 DEF Same, Taken
  <2> QED
    BY <2>2, <2>3, <2>4, <2>5
<1> QED
  BY <1>3, <1>5, <1>6

(* A step of the process that holds wait_lock: it is enough to look at it. *)
InsideFacts(p) ==
  /\ \A q \in Procs : parent[q] = p /\ state[q] = "ZOMBIE" =>
       /\ pc[p] = "wait_scan" => idx[p] <= q
       /\ pc[p] \notin {"wait_check", "sleep", "sleeping"}
  /\ \A r \in Procs : parent[p] = r /\ Waits(r) =>
       /\ pc[p] # "zombie"
       /\ pc[p] = "wakeup" /\ ret[p] = "zombie" => idx[p] <= r
  /\ \A r, q \in Procs : Waits(r) /\ parent[q] = r /\ state[q] = "ZOMBIE" =>
       r = initproc /\ pc[p] = "wakeup" /\ ret[p] = "reparent" /\ idx[p] <= r

(* The invariant gives these facts for the holder of wait_lock. *)
LEMMA InsideHave ==
  ASSUME ProcInv, NEW p \in Procs, pc[p] \in UnderWaitLock
  PROVE  InsideFacts(p)
<1>1. ASSUME NEW q \in Procs, parent[q] = p, state[q] = "ZOMBIE", pc[p] = "wait_scan"
      PROVE  idx[p] <= q
  <2>1. ~(q < idx[p])
    BY <1>1 DEF ProcInv, InvScan
  <2> QED
    BY SMTT(60), <2>1, Types DEF Procs
<1>2. ASSUME NEW r \in Procs, NEW q \in Procs, Waits(r), parent[q] = r, state[q] = "ZOMBIE"
      PROVE  r = initproc /\ pc[p] = "wakeup" /\ ret[p] = "reparent" /\ idx[p] <= r
  <2>1. r = initproc /\ \E x \in Procs : pc[x] = "wakeup" /\ ret[x] = "reparent" /\ idx[x] <= r
    BY <1>2 DEF ProcInv, InvSleep
  <2> QED
    BY <2>1, OneHolder DEF UnderWaitLock
<1> QED
  BY <1>1, <1>2 DEF InsideFacts, ProcInv, InvScan, InvWoken

(* If they hold of it after its step, the step keeps wait() right. *)
LEMMA InsideStepKeeps ==
  ASSUME ProcInv, NEW c \in CPUs, NEW p \in Procs, ThreadStep(c, p), pc[p] \in UnderWaitLock,
         TypeOK', InsideFacts(p)'
  PROVE  InvScan' /\ InvWoken' /\ InvSleep'
<1>1. idx'[p] \in Nat
  <2>1. idx' \in [Procs -> 1 .. NPROC + 1]
    BY DEF TypeOK
  <2> QED
    BY SMTT(60), <2>1, ProcConstants
<1>2. ASSUME NEW q \in Procs, pc'[q] \in UnderWaitLock PROVE q = p
  BY <1>2, PlaceOfOthers, OneHolder
<1>3. InvScan'
  <2> SUFFICES ASSUME NEW q \in Procs, parent'[q] = p, state'[q] = "ZOMBIE"
               PROVE  /\ ~(pc'[p] = "wait_scan" /\ q < idx'[p])
                      /\ pc'[p] \notin {"wait_check", "sleep", "sleeping"}
    BY <1>2 DEF InvScan, UnderWaitLock
  <2>1. pc'[p] = "wait_scan" => idx'[p] <= q
    BY DEF InsideFacts
  <2>2. ~(pc'[p] = "wait_scan" /\ q < idx'[p])
    BY SMTT(60), <1>1, <2>1 DEF Procs
  <2> QED
    BY <2>2 DEF InsideFacts
<1>4. InvWoken'
  BY <1>2 DEF InvWoken, InsideFacts, UnderWaitLock
<1>5. InvSleep'
  BY DEF InvSleep, InsideFacts
<1> QED
  BY <1>3, <1>4, <1>5

-----------------------------------------------------------------------------
(* One lemma for each action; first, the steps outside wait_lock. *)

(* A process comes back from swtch(). *)
LEMMA ResumeInv ==
  ASSUME ProcInv, NEW c \in CPUs, NEW p \in Procs, Resume(c, p)
  PROVE  ProcInv'
<1>1. ctx[c] = p /\ pc[p] = "resume" /\ RunsAt(c, p) /\ PlaceAt(p)
  BY Here DEF Resume, At, ProcInv, InvPlace
<1>2. TypeOK'
  BY Types DEF TypeOK, Labels, Resume, Goto, cpus, aux
<1>3. OthersKept(p)
  BY <1>1, Types DEF OthersKept, Same, Resume, Goto
<1>4. OwnStep(c, p)
  BY <1>1, Types DEF OwnStep, RunsAt, PlaceAt, Preemptible, UnderOwnLock, UnderWaitLock,
     Resume, Goto
<1>5. ThreadStep(c, p)
  BY <1>1, <1>3, <1>4 DEF ThreadStep, Resume, cpus
<1>6. QuietStep(p)
  BY <1>1, Types DEF QuietStep, RunsAt, PlaceAt, Preemptible, Forking, Place, Childless,
     Resume, Goto
<1>7. OutsideStep(p)
  BY <1>1, Types DEF OutsideStep, RunsAt, PlaceAt, Preemptible, UnderWaitLock, Resume, Goto
<1>8. InvPids'
  BY PidsKeep DEF Resume, aux
<1> QED
  BY <1>2, <1>5, <1>6, <1>7, <1>8, ThreadStepKeeps, QuietStepKeeps, OutsideStepKeeps DEF ProcInv

(* yield(), on a timer interrupt. *)
LEMMA YieldInv ==
  ASSUME ProcInv, NEW c \in CPUs, NEW p \in Procs, Yield(c, p)
  PROVE  ProcInv'
<1>1. ctx[c] = p /\ pc[p] \in Preemptible /\ RunsAt(c, p)
  BY Here DEF Yield
<1>2. TypeOK'
  <2>1. budget' \in 0 .. Budget
    BY SMTT(60), Types, ProcConstants DEF Yield
  <2> QED
    BY <2>1, Types DEF TypeOK, Labels, procstate, Yield, Goto, cpus
<1>3. OthersKept(p)
  BY <1>1, Types DEF OthersKept, Same, Yield, Goto
<1>4. OwnStep(c, p)
  BY <1>1, Types DEF OwnStep, RunsAt, Preemptible, UnderOwnLock, UnderWaitLock, Yield, Goto
<1>5. ThreadStep(c, p)
  BY <1>1, <1>3, <1>4 DEF ThreadStep, Preemptible, Yield, cpus
<1>6. QuietStep(p)
  BY <1>1, Types DEF QuietStep, RunsAt, Preemptible, Forking, Place, Childless, Yield, Goto
<1>7. OutsideStep(p)
  BY <1>1, Types DEF OutsideStep, RunsAt, Preemptible, UnderWaitLock, Yield, Goto
<1>8. InvPids'
  BY <1>6, PidsKeep DEF QuietStep, Yield
<1> QED
  BY <1>2, <1>5, <1>6, <1>7, <1>8, ThreadStepKeeps, QuietStepKeeps, OutsideStepKeeps DEF ProcInv

(* A system call. *)
LEMMA SyscallInv ==
  ASSUME ProcInv, NEW c \in CPUs, NEW p \in Procs, NEW l \in {"fork", "wait", "exit"},
         Syscall(c, p, l)
  PROVE  ProcInv'
<1>1. ctx[c] = p /\ pc[p] = "user" /\ RunsAt(c, p)
  BY Here DEF Syscall, At
<1>2. TypeOK'
  <2>1. budget' \in 0 .. Budget /\ idx' \in [Procs -> 1 .. NPROC + 1]
    BY SMTT(60), Types, ProcConstants DEF Syscall
  <2> QED
    BY <2>1, Types DEF TypeOK, Labels, Syscall, Goto, fields, locks, cpus
<1>3. OthersKept(p)
  BY <1>1, Types DEF OthersKept, Same, Syscall, Goto, fields, locks
<1>4. OwnStep(c, p)
  BY <1>1, Types DEF OwnStep, RunsAt, UnderOwnLock, UnderWaitLock, Syscall, Goto, fields, locks
<1>5. ThreadStep(c, p)
  BY <1>1, <1>3, <1>4 DEF ThreadStep, Syscall, cpus
<1>6. QuietStep(p)
  BY <1>1, Types DEF QuietStep, RunsAt, Forking, Place, Childless, Syscall, Goto, fields
<1>7. OutsideStep(p)
  BY <1>1, Types DEF OutsideStep, UnderWaitLock, Syscall, Goto, fields
<1>8. InvPids'
  BY PidsKeep DEF Syscall, fields
<1> QED
  BY <1>2, <1>5, <1>6, <1>7, <1>8, ThreadStepKeeps, QuietStepKeeps, OutsideStepKeeps DEF ProcInv

(* allocproc() passes over a slot. *)
LEMMA ForkScanInv ==
  ASSUME ProcInv, NEW c \in CPUs, NEW p \in Procs, ForkScan(c, p)
  PROVE  ProcInv'
<1>1. ctx[c] = p /\ pc[p] = "fork" /\ RunsAt(c, p)
  BY Here DEF ForkScan, At
<1>2. TypeOK'
  <2>1. idx' \in [Procs -> 1 .. NPROC + 1] /\ shell' \in Nat \cup {-1}
    BY SMTT(60), Types, ProcConstants DEF ForkScan, Return
  <2>2. pc' \in [Procs -> Labels]
    BY Types DEF Labels, ForkScan, Return, Goto
  <2> QED
    BY <2>1, <2>2, Types DEF TypeOK, ForkScan, fields, locks, cpus
<1>3. OthersKept(p)
  BY <1>1, Types DEF OthersKept, Same, ForkScan, Return, Goto, fields, locks
<1>4. OwnStep(c, p)
  BY <1>1, Types DEF OwnStep, RunsAt, UnderOwnLock, UnderWaitLock, ForkScan, Return, Goto,
     fields, locks
<1>5. ThreadStep(c, p)
  BY <1>1, <1>3, <1>4 DEF ThreadStep, ForkScan, cpus
<1>6. QuietStep(p)
  BY <1>1, Types DEF QuietStep, RunsAt, Forking, Place, Childless, ForkScan, Return, Goto, fields
<1>7. OutsideStep(p)
  BY <1>1, Types DEF OutsideStep, UnderWaitLock, ForkScan, Return, Goto, fields
<1>8. InvPids'
  BY PidsKeep DEF ForkScan, fields
<1> QED
  BY <1>2, <1>5, <1>6, <1>7, <1>8, ThreadStepKeeps, QuietStepKeeps, OutsideStepKeeps DEF ProcInv

(* wait() acquires wait_lock. *)
LEMMA WaitLockInv ==
  ASSUME ProcInv, NEW c \in CPUs, NEW p \in Procs, WaitLock(c, p)
  PROVE  ProcInv'
<1>1. ctx[c] = p /\ pc[p] = "wait" /\ RunsAt(c, p)
  BY Here DEF WaitLock, At
<1>2. TypeOK'
  <2>1. idx' \in [Procs -> 1 .. NPROC + 1]
    BY SMTT(60), Types, ProcConstants DEF WaitLock
  <2> QED
    BY <2>1, Types DEF TypeOK, Labels, WaitLock, Goto, fields, cpus, aux
<1>3. OthersKept(p)
  BY <1>1, Types DEF OthersKept, Same, WaitLock, Goto, fields
<1>4. OwnStep(c, p)
  BY <1>1, Types DEF OwnStep, RunsAt, UnderOwnLock, UnderWaitLock, WaitLock, Goto, fields
<1>5. ThreadStep(c, p)
  BY <1>1, <1>3, <1>4 DEF ThreadStep, WaitLock, cpus
<1>6. QuietStep(p)
  BY <1>1, Types DEF QuietStep, RunsAt, Forking, Place, Childless, WaitLock, Goto, fields
<1>7. OutsideStep(p)
  BY <1>1, Types DEF OutsideStep, UnderWaitLock, WaitLock, Goto, fields
<1>8. InvPids'
  BY PidsKeep DEF WaitLock, fields, aux
<1> QED
  BY <1>2, <1>5, <1>6, <1>7, <1>8, ThreadStepKeeps, QuietStepKeeps, OutsideStepKeeps DEF ProcInv

(* exit() acquires wait_lock. *)
LEMMA ExitInv ==
  ASSUME ProcInv, NEW c \in CPUs, NEW p \in Procs, Exit(c, p)
  PROVE  ProcInv'
<1>1. ctx[c] = p /\ pc[p] = "exit" /\ RunsAt(c, p)
  BY Here DEF Exit, At
<1>2. TypeOK'
  BY Types DEF TypeOK, Labels, Exit, Goto, fields, cpus, aux
<1>3. OthersKept(p)
  BY <1>1, Types DEF OthersKept, Same, Exit, Goto, fields
<1>4. OwnStep(c, p)
  BY SMTT(60), <1>1, Types DEF OwnStep, RunsAt, UnderOwnLock, UnderWaitLock, Exit, Goto, fields
<1>5. ThreadStep(c, p)
  BY <1>1, <1>3, <1>4 DEF ThreadStep, Exit, cpus
<1>6. QuietStep(p)
  BY SMTT(60), <1>1, Types DEF QuietStep, RunsAt, Forking, Place, Childless, Exit, Goto, fields
<1>7. OutsideStep(p)
  BY SMTT(60), <1>1, Types DEF OutsideStep, UnderWaitLock, Exit, Goto, fields
<1>8. InvPids'
  BY PidsKeep DEF Exit, fields, aux
<1> QED
  BY <1>2, <1>5, <1>6, <1>7, <1>8, ThreadStepKeeps, QuietStepKeeps, OutsideStepKeeps DEF ProcInv

(* kill() marks the process and makes it RUNNABLE. *)
LEMMA KillInv ==
  ASSUME LeastSlot, ProcInv, NEW c \in CPUs, NEW p \in Procs, NEW t \in KillPids, Kill(c, p, t)
  PROVE  ProcInv'
<1>1. ctx[c] = p /\ pc[p] = "user" /\ RunsAt(c, p)
  BY Here DEF Kill, At
<1>2. \/ UNCHANGED <<killed, state>>
      \/ \E i \in Procs :
           /\ pid[i] = t /\ plock[i] = Free
           /\ killed' = [killed EXCEPT ![i] = 1]
           /\ state' = IF state[i] = "SLEEPING"
                         THEN [state EXCEPT ![i] = "RUNNABLE"] ELSE state
  <2>1. t \in Range(pid) => {i \in Procs : pid[i] = t} # {}
    BY Types DEF Range
  <2>2. t \in Range(pid) => LET i == Min({i \in Procs : pid[i] = t}) IN i \in Procs /\ pid[i] = t
    BY <2>1 DEF LeastSlot
  <2> QED
    BY <2>2 DEF Kill
<1>3. TypeOK'
  <2>1. budget' \in 0 .. Budget /\ named' \subseteq Nat
    BY SMTT(60), Types, ProcConstants DEF Kill
  <2>2. killed' \in [Procs -> {0, 1}] /\ state' \in [Procs -> procstate]
    BY SMTT(60), <1>2, Types DEF procstate
  <2> QED
    BY <2>1, <2>2, Types DEF TypeOK, Kill, locks, cpus, thread
<1>4. \A q \in Procs : state'[q] = state[q] \/
        (plock[q] = Free /\ state[q] = "SLEEPING" /\ state'[q] = "RUNNABLE")
  BY SMTT(60), <1>2, Types
<1>5. OthersKept(p)
  BY <1>4 DEF OthersKept, Same, Moved, Kill, locks, thread
<1>6. OwnStep(c, p)
  BY <1>1, <1>4 DEF OwnStep, RunsAt, UnderOwnLock, UnderWaitLock, Kill, locks, thread
<1>7. ThreadStep(c, p)
  BY <1>1, <1>5, <1>6 DEF ThreadStep, Kill, cpus
<1>8. QuietStep(p)
  BY <1>1, <1>4 DEF QuietStep, RunsAt, Forking, Place, Childless, Kill, thread
<1>9. OutsideStep(p)
  BY <1>1, <1>4 DEF OutsideStep, UnderWaitLock, Kill, thread
<1>10. InvPids'
  <2>1. \A q \in Procs : killed'[q] = 1 => killed[q] = 1 \/ pid[q] = t
    BY <1>2, Types
  <2>2. named' = named \cup {t} /\ pid' = pid /\ nextpid' = nextpid
    BY DEF Kill
  <2>3. \A q \in Procs : state'[q] = "UNUSED" <=> state[q] = "UNUSED"
    BY <1>4
  <2> QED
    BY <2>1, <2>2, <2>3 DEF ProcInv, InvPids
<1> QED
  BY <1>3, <1>7, <1>8, <1>9, <1>10, ThreadStepKeeps, QuietStepKeeps, OutsideStepKeeps DEF ProcInv

(* fork() without memory: the slot is freed again. *)
LEMMA ForkFailsInv ==
  ASSUME ProcInv, NEW c \in CPUs, NEW p \in Procs, ForkAlloc(c, p, FALSE)
  PROVE  ProcInv'
<1> DEFINE i == idx[p]
<1>1. ctx[c] = p /\ pc[p] = "fork" /\ RunsAt(c, p)
  BY Here DEF ForkAlloc, At
<1>2. i \in Procs /\ i # p /\ state[i] = "UNUSED" /\ parent[i] = NoProc /\ pid[i] = 0
  <2>1. i \in Procs
    BY SMTT(60), Types DEF ForkAlloc, Procs
  <2> QED
    BY <1>1, <2>1, Types DEF ForkAlloc, RunsAt, ProcInv, InvFamily, InvPids
<1>3. /\ freeproc(i) /\ Return(p, -1) /\ nextpid' = nextpid + 1
      /\ UNCHANGED <<locks, cpus, ret, child, idx, kids, status, named, budget>>
  BY DEF ForkAlloc, allocpid
<1>4. \A q \in Procs : state'[q] = state[q] /\ parent'[q] = parent[q] /\ pid'[q] = pid[q]
  BY <1>2, <1>3, Types DEF freeproc
<1>5. pc' = [pc EXCEPT ![p] = "user"]
  BY <1>3 DEF Return, Goto
<1>6. TypeOK'
  <2>1. nextpid' \in Nat /\ shell' \in Nat \cup {-1}
    BY SMTT(60), <1>3, Types DEF Return
  <2>2. /\ state' \in [Procs -> procstate] /\ parent' \in [Procs -> Procs \cup {NoProc}]
        /\ pid' \in [Procs -> Nat] /\ chan' \in [Procs -> Procs \cup {NoProc}]
        /\ killed' \in [Procs -> {0, 1}] /\ xstate' \in [Procs -> {0, -1}]
    BY <1>2, <1>3, Types DEF freeproc, procstate
  <2>3. pc' \in [Procs -> Labels]
    BY <1>5, Types DEF Labels
  <2> QED
    BY <1>3, <2>1, <2>2, <2>3, Types DEF TypeOK, locks, cpus
<1>7. OthersKept(p)
  BY <1>3, <1>4, <1>5, Types DEF OthersKept, Same, locks
<1>8. OwnStep(c, p)
  BY <1>1, <1>3, <1>4, <1>5, Types DEF OwnStep, RunsAt, UnderOwnLock, UnderWaitLock, locks
<1>9. ThreadStep(c, p)
  BY <1>1, <1>3, <1>7, <1>8 DEF ThreadStep, cpus
<1>10. QuietStep(p)
  BY <1>1, <1>3, <1>4, <1>5, Types DEF QuietStep, RunsAt, Forking, Place, Childless
<1>11. OutsideStep(p)
  <2>1. \A q \in Procs : state[q] = "SLEEPING" => chan'[q] = chan[q]
    BY <1>2, <1>3, Types DEF freeproc
  <2> QED
    BY <1>1, <1>4, <1>5, <2>1, Types DEF OutsideStep, UnderWaitLock
<1>12. InvPids'
  <2>1. \A q \in Procs : killed'[q] = 1 => killed[q] = 1
    BY <1>2, <1>3, Types DEF freeproc
  <2>2. nextpid' > 0 /\ \A q \in Procs : pid'[q] < nextpid'
    BY SMTT(60), <1>3, <1>4, Types DEF ProcInv, InvPids
  <2> QED
    BY SMTT(60), <1>3, <1>4, <2>1, <2>2 DEF ProcInv, InvPids
<1> QED
  BY <1>6, <1>9, <1>10, <1>11, <1>12, ThreadStepKeeps, QuietStepKeeps, OutsideStepKeeps DEF ProcInv

(* fork() takes a slot and a pid. *)
LEMMA ForkTakesInv ==
  ASSUME ProcInv, NEW c \in CPUs, NEW p \in Procs, ForkAlloc(c, p, TRUE)
  PROVE  ProcInv'
<1> DEFINE i == idx[p]
<1>1. ctx[c] = p /\ pc[p] = "fork" /\ RunsAt(c, p)
  BY Here DEF ForkAlloc, At
<1>2. i \in Procs /\ i # p /\ state[i] = "UNUSED"
  <2>1. i \in Procs
    BY SMTT(60), Types DEF ForkAlloc, Procs
  <2> QED
    BY <1>1, <2>1 DEF ForkAlloc, RunsAt
<1>3. /\ pid' = [pid EXCEPT ![i] = nextpid] /\ nextpid' = nextpid + 1
      /\ state' = [state EXCEPT ![i] = "USED"]
      /\ pc' = [pc EXCEPT ![p] = "fork_parent", ![i] = "resume"]
      /\ ret' = [ret EXCEPT ![i] = "user"]
      /\ child' = [child EXCEPT ![p] = i]
      /\ UNCHANGED <<parent, chan, killed, xstate, shell>>
      /\ UNCHANGED <<locks, cpus, idx, kids, status, named, budget>>
  BY DEF ForkAlloc, allocpid
<1>4. TypeOK'
  <2>1. nextpid' \in Nat
    BY SMTT(60), <1>3, Types
  <2> QED
    BY <1>2, <1>3, <2>1, Types DEF TypeOK, procstate, Labels, locks, cpus
<1>5. pc'[p] = "fork_parent" /\ child'[p] = i /\ state'[p] = "RUNNING" /\ ret'[p] = ret[p]
  BY <1>1, <1>2, <1>3, Types DEF RunsAt
<1>6. state'[i] = "USED" /\ pc'[i] = "resume" /\ ret'[i] = "user" /\ child'[i] = child[i]
  BY <1>2, <1>3, Types
<1>7. ASSUME NEW q \in Procs, q # p, q # i
      PROVE  pc'[q] = pc[q] /\ ret'[q] = ret[q] /\ state'[q] = state[q] /\ child'[q] = child[q]
  BY <1>2, <1>3, <1>7, Types
<1>8. OthersKept(p)
  BY <1>2, <1>3, <1>6, <1>7 DEF OthersKept, Same, Taken, locks
<1>9. OwnStep(c, p)
  BY <1>1, <1>3, <1>5 DEF OwnStep, RunsAt, UnderOwnLock, UnderWaitLock, locks
<1>10. ThreadStep(c, p)
  BY <1>1, <1>3, <1>8, <1>9 DEF ThreadStep, cpus
<1>11. InvFork'
  <2>1. \A q \in Procs : q # p /\ Forking(q) =>
          /\ state'[child[q]] = "USED" /\ parent'[child[q]] = parent[child[q]]
          /\ Forking(p)' => child'[p] # child[q]
    BY <1>2, <1>3, <1>5, Types DEF ProcInv, InvFork
  <2>2. Place(p)' = "fork_parent"
    BY <1>5 DEF Place
  <2> QED
    BY SMTT(60), <1>2, <1>5, <1>6, <1>10, <2>1, <2>2, ForkKeeps
<1>12. InvFamily'
  <2>1. ASSUME NEW q \in Procs, Childless(q)' PROVE Childless(q)
    BY <1>2, <1>5, <1>6, <1>7, <2>1 DEF Childless
  <2>2. ASSUME NEW q \in Procs
        PROVE  /\ state'[q] = "UNUSED" => state[q] = "UNUSED"
               /\ state'[q] \notin {"UNUSED", "USED"} => state'[q] = state[q]
               /\ pc'[q] \in {"reparent", "wakeup", "zombie"} => pc'[q] = pc[q]
    <3>1. CASE q = p
      BY <1>1, <1>5, <3>1 DEF RunsAt
    <3>2. CASE q # p
      BY <1>6, <1>7, <3>2
    <3> QED
      BY <3>1, <3>2
  <2>3. state'[initproc] = state[initproc]
    BY <1>2, <1>3, Types DEF ProcInv, InvFamily
  <2> QED
    BY <1>3, <2>1, <2>2, <2>3 DEF ProcInv, InvFamily
<1>13. OutsideStep(p)
  BY SMTT(60), <1>1, <1>3, <1>5, <1>6, <1>7 DEF OutsideStep, UnderWaitLock, RunsAt
<1>14. InvPids'
  <2>1. \A q \in Procs : pid'[q] = IF q = i THEN nextpid ELSE pid[q]
    BY <1>2, <1>3, Types
  <2>2. nextpid' > nextpid /\ nextpid' > 0
    BY SMTT(60), <1>3, Types
  <2>3. ASSUME NEW q \in Procs
        PROVE  /\ pid'[q] < nextpid' /\ (pid'[q] = 0 <=> state'[q] = "UNUSED")
               /\ 0 \notin named /\ killed[q] = 1 => pid'[q] \in named
               /\ \A r \in Procs : pid'[q] = pid'[r] => q = r \/ pid'[q] = 0
    <3>1. /\ pid[q] \in Nat /\ pid[q] < nextpid /\ nextpid > 0
          /\ pid[q] = 0 <=> state[q] = "UNUSED"
          /\ 0 \notin named /\ killed[q] = 1 => pid[q] \in named
          /\ \A r \in Procs : pid[r] \in Nat /\ pid[r] < nextpid
          /\ \A r \in Procs : pid[q] = pid[r] => q = r \/ pid[q] = 0
      BY Types DEF ProcInv, InvPids
    <3>2. CASE q = i
      BY SMTT(60), <1>2, <1>6, <2>1, <2>2, <3>1, <3>2, Types
    <3>3. CASE q # i
      <4>1. pid'[q] = pid[q] /\ (state'[q] = "UNUSED" <=> state[q] = "UNUSED")
        BY <1>1, <1>5, <1>7, <2>1, <3>3 DEF RunsAt
      <4>2. pid'[q] < nextpid' /\ pid[q] # nextpid
        BY SMTT(60), <1>3, <3>1, <4>1, Types
      <4> QED
        BY <2>1, <3>1, <3>3, <4>1, <4>2
    <3> QED
      BY <3>2, <3>3
  <2> QED
    BY <1>3, <2>2, <2>3 DEF InvPids
<1> QED
  BY <1>4, <1>10, <1>11, <1>12, <1>13, <1>14, ThreadStepKeeps, OutsideStepKeeps DEF ProcInv

(* fork() sets the child's parent. *)
LEMMA ForkParentInv ==
  ASSUME ProcInv, NEW c \in CPUs, NEW p \in Procs, ForkParent(c, p)
  PROVE  ProcInv'
<1> DEFINE i == child[p]
<1>1. ctx[c] = p /\ pc[p] = "fork_parent" /\ RunsAt(c, p)
  BY Here DEF ForkParent, At
<1>2. Forking(p) /\ i \in Procs /\ state[i] = "USED" /\ i # p /\ i # initproc
  <2>1. Forking(p)
    BY <1>1 DEF Forking, Place
  <2> QED
    BY <1>1, <2>1 DEF ProcInv, InvFork, InvFamily, RunsAt
<1>3. TypeOK'
  BY <1>2, Types DEF TypeOK, Labels, ForkParent, Goto, locks, cpus, aux
<1>4. OthersKept(p)
  BY <1>1, Types DEF OthersKept, Same, ForkParent, Goto, locks
<1>5. OwnStep(c, p)
  BY <1>1, Types DEF OwnStep, RunsAt, UnderOwnLock, UnderWaitLock, ForkParent, Goto, locks
<1>6. ThreadStep(c, p)
  BY <1>1, <1>4, <1>5 DEF ThreadStep, ForkParent, cpus
<1>7. /\ \A q \in Procs : parent'[q] = IF q = i THEN p ELSE parent[q]
      /\ \A q \in Procs : q # p => pc'[q] = pc[q]
      /\ pc'[p] = "fork_run" /\ UNCHANGED <<state, chan, ret, child, pid, killed, nextpid, named>>
  BY <1>2, Types DEF ForkParent, Goto, aux
<1>8. InvFork'
  <2>1. \A q \in Procs : q # p /\ Forking(q) =>
          child[q] \in Procs /\ state[child[q]] = "USED" /\ child[q] # i
    BY <1>2 DEF ProcInv, InvFork
  <2> QED
    BY SMTT(60), <1>2, <1>6, <1>7, <2>1, ForkKeeps
<1>9. InvFamily'
  <2>1. \A q \in Procs : Childless(q)' => Childless(q) /\ q # p
    BY <1>1, <1>7 DEF Childless, RunsAt
  <2>2. \A q \in Procs : pc'[q] \in {"reparent", "wakeup", "zombie"} => pc'[q] = pc[q]
    BY <1>7
  <2>3. initproc \in Procs /\ p # NoProc
    BY Types
  <2> QED
    BY SMTT(60), <1>2, <1>7, <2>1, <2>2, <2>3 DEF ProcInv, InvFamily
<1>10. OutsideStep(p)
  BY <1>1, <1>2, <1>7 DEF OutsideStep, UnderWaitLock
<1>11. InvPids'
  BY <1>7, PidsKeep
<1> QED
  BY <1>3, <1>6, <1>8, <1>9, <1>10, <1>11, ThreadStepKeeps, OutsideStepKeeps DEF ProcInv

(* fork() lets the child run. *)
LEMMA ForkRunInv ==
  ASSUME ProcInv, NEW c \in CPUs, NEW p \in Procs, ForkRun(c, p)
  PROVE  ProcInv'
<1> DEFINE i == child[p]
<1>1. ctx[c] = p /\ pc[p] = "fork_run" /\ RunsAt(c, p) /\ plock[i] = Free
  BY Here DEF ForkRun, At
<1>2. /\ Forking(p) /\ i \in Procs /\ state[i] = "USED" /\ i # p /\ i # initproc
      /\ parent[i] = p
  <2>1. Forking(p) /\ Place(p) = "fork_run"
    BY <1>1 DEF Forking, Place
  <2> QED
    BY <1>1, <2>1 DEF ProcInv, InvFork, InvFamily, RunsAt
<1>3. /\ state' = [state EXCEPT ![i] = "RUNNABLE"] /\ child' = [child EXCEPT ![p] = NoProc]
      /\ pc' = [pc EXCEPT ![p] = "user"]
      /\ UNCHANGED <<parent, pid, chan, killed, xstate, locks, cpus, ret, idx, kids, status,
                     nextpid, named, budget>>
  BY DEF ForkRun, Return, Goto
<1>4. TypeOK'
  <2>1. shell' \in Nat \cup {-1}
    BY SMTT(60), <1>2, Types DEF ForkRun, Return
  <2> QED
    BY <1>2, <1>3, <2>1, Types DEF TypeOK, procstate, Labels, locks, cpus
<1>5. /\ \A q \in Procs : state'[q] = IF q = i THEN "RUNNABLE" ELSE state[q]
      /\ \A q \in Procs : q # p => pc'[q] = pc[q] /\ child'[q] = child[q]
      /\ pc'[p] = "user" /\ ret' = ret /\ parent' = parent
  BY <1>2, <1>3, Types
<1>6. OthersKept(p)
  BY SMTT(60), <1>1, <1>2, <1>3, <1>5 DEF OthersKept, Same, Moved, locks
<1>7. OwnStep(c, p)
  BY <1>1, <1>2, <1>3, <1>5 DEF OwnStep, RunsAt, UnderOwnLock, UnderWaitLock, locks
<1>8. ThreadStep(c, p)
  BY <1>1, <1>3, <1>6, <1>7 DEF ThreadStep, cpus
<1>9. InvFork'
  <2>1. \A q \in Procs : q # p /\ Forking(q) =>
          child[q] \in Procs /\ state[child[q]] = "USED" /\ child[q] # i
    BY <1>2 DEF ProcInv, InvFork
  <2>2. ~Forking(p)'
    BY <1>5 DEF Forking, Place
  <2> QED
    BY SMTT(60), <1>5, <1>8, <2>1, <2>2, ForkKeeps
<1>10. InvFamily'
  <2>1. \A q \in Procs : Childless(q)' => Childless(q)
    BY <1>1, <1>2, <1>5 DEF Childless, RunsAt
  <2>2. \A q \in Procs : pc'[q] \in {"reparent", "wakeup", "zombie"} => pc'[q] = pc[q]
    BY <1>5
  <2>3. initproc \in Procs /\ p # NoProc
    BY Types
  <2> QED
    BY SMTT(60), <1>2, <1>5, <2>1, <2>2, <2>3 DEF ProcInv, InvFamily
<1>11. OutsideStep(p)
  BY SMTT(60), <1>1, <1>2, <1>3, <1>5 DEF OutsideStep, UnderWaitLock
<1>12. InvPids'
  BY SMTT(60), <1>2, <1>3, <1>5, PidsKeep
<1> QED
  BY <1>4, <1>8, <1>9, <1>10, <1>11, <1>12, ThreadStepKeeps, OutsideStepKeeps DEF ProcInv

-----------------------------------------------------------------------------
(* The steps under wait_lock. *)

(* wait() visits a child that is not a ZOMBIE, or has visited all. *)
LEMMA WaitScanInv ==
  ASSUME LeastSlot, ProcInv, NEW c \in CPUs, NEW p \in Procs, WaitScan(c, p)
  PROVE  ProcInv'
<1> DEFINE m == Min(Unvisited(p))
<1>1. ctx[c] = p /\ pc[p] = "wait_scan" /\ RunsAt(c, p) /\ pc[p] \in UnderWaitLock
  BY Here DEF WaitScan, At, UnderWaitLock
<1>2. Unvisited(p) # {} => m \in Procs /\ \A q \in Unvisited(p) : m <= q
  BY DEF LeastSlot, Unvisited
<1>3. \A q \in Procs : parent[q] = p /\ idx[p] <= q => q \in Unvisited(p)
  BY SMTT(60), Types DEF Unvisited, Procs
<1>4. TypeOK'
  <2>1. idx' \in [Procs -> 1 .. NPROC + 1]
    <3>1. CASE Unvisited(p) = {}
      BY <3>1, Types DEF WaitScan
    <3>2. CASE Unvisited(p) # {}
      <4>1. m + 1 \in 1 .. NPROC + 1
        BY SMTT(60), <1>2, <3>2, ProcConstants DEF Procs
      <4> QED
        BY <3>2, <4>1, Types DEF WaitScan
    <3> QED
      BY <3>1, <3>2
  <2>2. pc' \in [Procs -> Labels] /\ kids' \in [Procs -> {0, 1}]
    BY Types DEF Labels, WaitScan, Goto
  <2> QED
    BY <2>1, <2>2, Types DEF TypeOK, WaitScan, fields, locks, cpus, aux
<1>5. OthersKept(p)
  BY <1>1, Types DEF OthersKept, Same, WaitScan, Goto, fields, locks
<1>6. OwnStep(c, p)
  BY SMTT(60), <1>1, Types DEF OwnStep, RunsAt, UnderOwnLock, UnderWaitLock,
        WaitScan, Goto, fields, locks
<1>7. ThreadStep(c, p)
  BY <1>1, <1>5, <1>6 DEF ThreadStep, WaitScan, cpus
<1>8. QuietStep(p)
  BY SMTT(60), <1>1, Types DEF QuietStep, RunsAt, Forking, Place, Childless, WaitScan, Goto, fields
<1>9. InsideFacts(p)'
  <2>1. InsideFacts(p)
    BY <1>1, InsideHave
  <2>2. CASE Unvisited(p) = {}
    <3>1. pc'[p] = "wait_check" /\ UNCHANGED <<parent, state, chan, idx, ret>>
      BY <2>2, Types DEF WaitScan, Goto, fields
    <3>2. \A q \in Procs : parent[q] = p => ~(idx[p] <= q)
      BY <1>3, <2>2
    <3> QED
      BY <1>1, <2>1, <3>1, <3>2 DEF InsideFacts, Waits
  <2>3. CASE Unvisited(p) # {}
    <3>1. idx'[p] = m + 1 /\ state[m] # "ZOMBIE" /\ UNCHANGED <<parent, state, chan, pc, ret>>
      BY SMTT(60), <2>3, Types DEF WaitScan, fields
    <3>2. ASSUME NEW q \in Procs, parent[q] = p, state[q] = "ZOMBIE" PROVE idx'[p] <= q
      <4>1. idx[p] <= q /\ q # m
        BY <1>1, <2>1, <3>1, <3>2 DEF InsideFacts
      <4>2. m <= q
        BY <1>2, <1>3, <2>3, <3>2, <4>1
      <4> QED
        BY SMTT(60), <1>2, <2>3, <3>1, <4>1, <4>2 DEF Procs
    <3> QED
      BY <1>1, <2>1, <3>1, <3>2 DEF InsideFacts, Waits
  <2> QED
    BY <2>2, <2>3
<1>10. InvPids'
  BY PidsKeep DEF WaitScan, fields, aux
<1> QED
  BY <1>1, <1>4, <1>7, <1>8, <1>9, <1>10, ThreadStepKeeps, QuietStepKeeps, InsideStepKeeps
     DEF ProcInv

(* wait() returns -1 or goes on to sleep. *)
LEMMA WaitCheckInv ==
  ASSUME ProcInv, NEW c \in CPUs, NEW p \in Procs, WaitCheck(c, p)
  PROVE  ProcInv'
<1>1. ctx[c] = p /\ pc[p] = "wait_check" /\ RunsAt(c, p) /\ pc[p] \in UnderWaitLock
  BY Here DEF WaitCheck, At, UnderWaitLock
<1>2. TypeOK'
  <2>1. shell' \in Nat \cup {-1}
    BY SMTT(60), Types DEF WaitCheck, Return
  <2>2. pc' \in [Procs -> Labels] /\ wait_lock' \in CPUs \cup {Free}
    BY Types DEF Labels, WaitCheck, Return, Goto
  <2> QED
    BY <2>1, <2>2, Types DEF TypeOK, WaitCheck, fields, cpus
<1>3. OthersKept(p)
  BY <1>1, Types DEF OthersKept, Same, WaitCheck, Return, Goto, fields
<1>4. OwnStep(c, p)
  BY SMTT(60), <1>1, Types DEF OwnStep, RunsAt, UnderOwnLock, UnderWaitLock,
        WaitCheck, Return, Goto, fields
<1>5. ThreadStep(c, p)
  BY <1>1, <1>3, <1>4 DEF ThreadStep, WaitCheck, cpus
<1>6. QuietStep(p)
  BY SMTT(60), <1>1, Types DEF QuietStep, RunsAt, Forking, Place, Childless,
        WaitCheck, Return, Goto, fields
<1>7. InsideFacts(p)'
  <2>1. InsideFacts(p)
    BY <1>1, InsideHave
  <2>2. pc'[p] \in {"user", "sleep"} /\ UNCHANGED <<parent, state, chan, idx, ret>>
    BY Types DEF WaitCheck, Return, Goto, fields
  <2> QED
    BY <1>1, <2>1, <2>2 DEF InsideFacts, Waits
<1>8. InvPids'
  BY PidsKeep DEF WaitCheck, fields
<1> QED
  BY <1>1, <1>2, <1>5, <1>6, <1>7, <1>8, ThreadStepKeeps, QuietStepKeeps, InsideStepKeeps
     DEF ProcInv

(* sleep() acquires p->lock. *)
LEMMA SleepLockInv ==
  ASSUME ProcInv, NEW c \in CPUs, NEW p \in Procs, SleepLock(c, p)
  PROVE  ProcInv'
<1>1. ctx[c] = p /\ pc[p] = "sleep" /\ RunsAt(c, p) /\ pc[p] \in UnderWaitLock
  BY Here DEF SleepLock, At, UnderWaitLock
<1>2. TypeOK'
  BY Types DEF TypeOK, Labels, SleepLock, Goto, fields, cpus, aux
<1>3. OthersKept(p)
  BY <1>1, Types DEF OthersKept, Same, SleepLock, Goto, fields
<1>4. OwnStep(c, p)
  BY <1>1, Types DEF OwnStep, RunsAt, UnderOwnLock, UnderWaitLock, SleepLock, Goto, fields
<1>5. ThreadStep(c, p)
  BY <1>1, <1>3, <1>4 DEF ThreadStep, SleepLock, cpus
<1>6. QuietStep(p)
  BY <1>1, Types DEF QuietStep, RunsAt, Forking, Place, Childless, SleepLock, Goto, fields
<1>7. InsideFacts(p)'
  <2>1. InsideFacts(p)
    BY <1>1, InsideHave
  <2>2. pc'[p] = "sleeping" /\ UNCHANGED <<parent, state, chan, idx, ret>>
    BY Types DEF SleepLock, Goto, fields
  <2> QED
    BY <1>1, <2>1, <2>2 DEF InsideFacts, Waits
<1>8. InvPids'
  BY PidsKeep DEF SleepLock, fields, aux
<1> QED
  BY <1>1, <1>2, <1>5, <1>6, <1>7, <1>8, ThreadStepKeeps, QuietStepKeeps, InsideStepKeeps
     DEF ProcInv

(* sleep() releases wait_lock; the process is SLEEPING. *)
LEMMA SleepInv ==
  ASSUME ProcInv, NEW c \in CPUs, NEW p \in Procs, Sleep(c, p)
  PROVE  ProcInv'
<1>1. ctx[c] = p /\ pc[p] = "sleeping" /\ RunsAt(c, p) /\ pc[p] \in UnderWaitLock
  BY Here DEF Sleep, At, UnderWaitLock
<1>2. TypeOK'
  BY Types DEF TypeOK, Labels, procstate, Sleep, Goto, cpus, aux
<1>3. OthersKept(p)
  BY <1>1, Types DEF OthersKept, Same, Sleep, Goto
<1>4. OwnStep(c, p)
  BY <1>1, Types DEF OwnStep, RunsAt, Preemptible, UnderOwnLock, UnderWaitLock, Sleep, Goto
<1>5. ThreadStep(c, p)
  BY <1>1, <1>3, <1>4 DEF ThreadStep, Sleep, cpus
<1>6. QuietStep(p)
  BY <1>1, Types DEF QuietStep, RunsAt, Forking, Place, Childless, Sleep, Goto
<1>7. InsideFacts(p)'
  <2>1. InsideFacts(p)
    BY <1>1, InsideHave
  <2>2. /\ pc'[p] = "sched" /\ state'[p] = "SLEEPING" /\ UNCHANGED <<parent, idx>>
        /\ \A q \in Procs : q # p => state'[q] = state[q] /\ chan'[q] = chan[q]
    BY Types DEF Sleep, Goto
  <2> QED
    BY SMTT(60), <1>1, <2>1, <2>2 DEF InsideFacts, Waits
<1>8. InvPids'
  BY <1>6, PidsKeep DEF QuietStep, Sleep, aux
<1> QED
  BY <1>1, <1>2, <1>5, <1>6, <1>7, <1>8, ThreadStepKeeps, QuietStepKeeps, InsideStepKeeps
     DEF ProcInv

(* wakeup() visits a slot. *)
LEMMA WakeupInv ==
  ASSUME ProcInv, NEW c \in CPUs, NEW p \in Procs, Wakeup(c, p)
  PROVE  ProcInv'
<1> DEFINE i == idx[p]
<1>1. /\ ctx[c] = p /\ pc[p] = "wakeup" /\ RunsAt(c, p) /\ pc[p] \in UnderWaitLock
      /\ ret[p] \in {"reparent", "zombie"} /\ p # initproc
  BY SMTT(60), Here DEF Wakeup, At, UnderWaitLock, ProcInv, InvPlace, PlaceAt, InvFamily
<1>2. i > NPROC => pc' = [pc EXCEPT ![p] = ret[p]] /\ UNCHANGED <<state, idx>>
  BY DEF Wakeup, Goto
<1>3. ~(i > NPROC) =>
        /\ i \in Procs /\ i + 1 \in 1 .. NPROC + 1
        /\ i # p => plock[i] = Free
        /\ state' = IF i # p /\ state[i] = "SLEEPING" /\ chan[i] = WakeChan(p)
                      THEN [state EXCEPT ![i] = "RUNNABLE"] ELSE state
        /\ idx' = [idx EXCEPT ![p] = i + 1] /\ UNCHANGED pc
  <2>1. i \in 1 .. NPROC + 1
    BY Types
  <2>2. ~(i > NPROC) => i \in Procs /\ i + 1 \in 1 .. NPROC + 1
    BY SMTT(60), <2>1, ProcConstants DEF Procs
  <2> QED
    BY <2>2 DEF Wakeup
<1>4. UNCHANGED <<parent, pid, chan, killed, xstate, locks, cpus, ret, kids, child, status, aux>>
  BY DEF Wakeup
<1>5. /\ pc'[p] = "wakeup" \/ (i > NPROC /\ pc'[p] = ret[p])
      /\ \A q \in Procs : q # p => pc'[q] = pc[q] /\ idx'[q] = idx[q]
      /\ state'[p] = state[p]
      /\ \A q \in Procs :
           \/ state'[q] = state[q]
           \/ state[q] = "SLEEPING" /\ plock[q] = Free /\ state'[q] = "RUNNABLE"
  BY SMTT(60), <1>1, <1>2, <1>3, Types
<1>6. TypeOK'
  <2>1. state' \in [Procs -> procstate] /\ idx' \in [Procs -> 1 .. NPROC + 1]
    BY SMTT(60), <1>2, <1>3, Types DEF procstate
  <2>2. pc' \in [Procs -> Labels]
    BY <1>2, <1>3, Types
  <2> QED
    BY <1>4, <2>1, <2>2, Types DEF TypeOK, locks, cpus, aux
<1>7. OthersKept(p)
  BY <1>4, <1>5 DEF OthersKept, Same, Moved, locks
<1>8. OwnStep(c, p)
  BY <1>1, <1>4, <1>5 DEF OwnStep, RunsAt, UnderOwnLock, UnderWaitLock, locks
<1>9. ThreadStep(c, p)
  BY <1>1, <1>4, <1>7, <1>8 DEF ThreadStep, cpus
<1>10. QuietStep(p)
  BY <1>1, <1>4, <1>5 DEF QuietStep, RunsAt, Forking, Place, Childless
<1>11. InsideFacts(p)'
  <2>1. InsideFacts(p) /\ UNCHANGED <<parent, chan, ret>>
    BY <1>1, <1>4, InsideHave
  <2>2. \A r \in Procs : Waits(r)' => Waits(r)
    BY <1>4, <1>5 DEF Waits
  <2>3. CASE i > NPROC
    <3>1. \A r \in Procs : ~(i <= r)
      <4>1. i \in 1 .. NPROC + 1
        BY Types
      <4> QED
        BY SMTT(60), <2>3, <4>1, ProcConstants DEF Procs
    <3> QED
      BY SMTT(60), <1>1, <1>2, <1>5, <2>1, <2>2, <2>3, <3>1 DEF InsideFacts
  <2>4. CASE ~(i > NPROC)
    <3>1. pc'[p] = "wakeup" /\ idx'[p] = i + 1
      BY <1>1, <1>3, <2>4, Types
    <3>2. ASSUME NEW r \in Procs, Waits(r)', r = WakeChan(p), i <= r PROVE i + 1 <= r
      <4>1. i # r
        <5>1. SUFFICES ASSUME i = r PROVE FALSE
          OBVIOUS
        <5>2. Waits(i) /\ i # p
          BY <1>1, <2>2, <3>2, <5>1 DEF Waits, RunsAt
        <5>3. state'[i] = "RUNNABLE"
          BY SMTT(60), <1>3, <2>4, <3>2, <5>1, <5>2, Types DEF Waits
        <5> QED
          BY <3>2, <5>1, <5>3 DEF Waits
      <4> QED
        BY SMTT(60), <1>3, <2>4, <3>2, <4>1 DEF Procs
    <3>3. ASSUME NEW r \in Procs, parent[p] = r, Waits(r)', ret[p] = "zombie" PROVE i + 1 <= r
      BY <1>1, <2>1, <2>2, <3>2, <3>3 DEF InsideFacts, WakeChan
    <3>4. ASSUME NEW r \in Procs, NEW q \in Procs, Waits(r)', parent[q] = r, state'[q] = "ZOMBIE"
          PROVE  r = initproc /\ ret[p] = "reparent" /\ i + 1 <= r
      <4>1. state[q] = "ZOMBIE"
        BY <1>5, <3>4
      <4> QED
        BY <1>1, <2>1, <2>2, <3>2, <3>4, <4>1 DEF InsideFacts, WakeChan
    <3> QED
      BY <2>1, <3>1, <3>3, <3>4 DEF InsideFacts
  <2> QED
    BY <2>3, <2>4
<1>12. InvPids'
  BY <1>4, <1>10, PidsKeep DEF QuietStep, aux
<1> QED
  BY <1>1, <1>6, <1>9, <1>10, <1>11, <1>12, ThreadStepKeeps, QuietStepKeeps, InsideStepKeeps
     DEF ProcInv

(* reparent() gives a child to init, or finds none left. *)
LEMMA ReparentInv ==
  ASSUME LeastSlot, ProcInv, NEW c \in CPUs, NEW p \in Procs, Reparent(c, p)
  PROVE  ProcInv'
<1> DEFINE mine == {q \in Procs : parent[q] = p}
<1> DEFINE k == Min(mine)
<1>1. /\ ctx[c] = p /\ pc[p] = "reparent" /\ RunsAt(c, p) /\ pc[p] \in UnderWaitLock
      /\ p # initproc
  BY Here DEF Reparent, At, UnderWaitLock, ProcInv, InvFamily
<1>2. mine # {} => k \in Procs /\ parent[k] = p
  BY DEF LeastSlot
<1>3. /\ mine # {} => /\ parent' = [parent EXCEPT ![k] = initproc]
                      /\ ret' = [ret EXCEPT ![p] = "reparent"]
      /\ mine = {} => parent' = parent /\ ret' = [ret EXCEPT ![p] = "zombie"]
      /\ idx' = [idx EXCEPT ![p] = 1] /\ pc' = [pc EXCEPT ![p] = "wakeup"]
      /\ UNCHANGED <<state, pid, chan, killed, xstate, locks, cpus, kids, child, status, aux>>
  BY DEF Reparent, Goto
<1>4. /\ pc'[p] = "wakeup" /\ idx'[p] = 1
      /\ ret'[p] = IF mine # {} THEN "reparent" ELSE "zombie"
      /\ \A q \in Procs : q # p => pc'[q] = pc[q] /\ ret'[q] = ret[q] /\ idx'[q] = idx[q]
      /\ \A q \in Procs : parent'[q] = IF mine # {} /\ q = k THEN initproc ELSE parent[q]
  BY <1>2, <1>3, Types
<1>5. TypeOK'
  <2>1. idx' \in [Procs -> 1 .. NPROC + 1]
    <3>1. 1 \in 1 .. NPROC + 1
      BY SMTT(60), ProcConstants
    <3> QED
      BY <1>3, <3>1, Types
  <2>2. /\ pc' \in [Procs -> Labels] /\ ret' \in [Procs -> Labels]
        /\ parent' \in [Procs -> Procs \cup {NoProc}]
    <3>1. CASE mine = {}
      BY <1>3, <3>1, Types DEF Labels
    <3>2. CASE mine # {}
      <4>1. pc' \in [Procs -> Labels] /\ ret' \in [Procs -> Labels]
        BY SMTT(60), <1>3, <3>2, Types DEF Labels
      <4>2. parent' = [parent EXCEPT ![k] = initproc] /\ k \in Procs
        BY <1>2, <1>3, <3>2
      <4> HIDE DEF mine, k
      <4> QED
        BY <4>1, <4>2, Types
    <3> QED
      BY <3>1, <3>2
  <2> QED
    BY <1>3, <2>1, <2>2, Types DEF TypeOK, locks, cpus, aux
<1>6. OthersKept(p)
  BY <1>3, <1>4 DEF OthersKept, Same, locks
<1>7. OwnStep(c, p)
  BY <1>1, <1>3, <1>4 DEF OwnStep, RunsAt, UnderOwnLock, UnderWaitLock, locks
<1>8. ThreadStep(c, p)
  BY <1>1, <1>3, <1>6, <1>7 DEF ThreadStep, cpus
<1>9. InvFork'
  <2>1. ~Forking(p)'
    BY <1>4 DEF Forking, Place
  <2>2. \A q \in Procs : q # p /\ Forking(q) =>
          /\ child[q] \in Procs /\ state[child[q]] = "USED"
          /\ Place(q) = "fork_run" => parent[child[q]] = q
    BY DEF ProcInv, InvFork
  <2>3. \A q \in Procs : q # p /\ Forking(q) =>
          /\ state'[child[q]] = "USED"
          /\ Place(q) = "fork_run" => parent'[child[q]] = parent[child[q]]
    BY SMTT(60), <1>2, <1>3, <1>4, <2>2
  <2> QED
    BY <1>8, <2>1, <2>3, ForkKeeps
<1>10. InvFamily'
  <2>1. \A q \in Procs : Childless(q)' => Childless(q) \/ (q = p /\ mine = {})
    BY <1>1, <1>3, <1>4 DEF Childless, RunsAt
  <2>2. \A q \in Procs : pc'[q] \in {"reparent", "wakeup", "zombie"} => q # initproc
    BY <1>1, <1>4 DEF ProcInv, InvFamily
  <2>3. /\ initproc \in Procs /\ p # NoProc /\ initproc # NoProc
        /\ mine # {} => k # initproc /\ state[k] # "UNUSED"
    BY <1>2, Types DEF ProcInv, InvFamily
  <2>4. ASSUME NEW q \in Procs, NEW r \in Procs, Childless(q)' PROVE parent'[r] # q
    <3>1. CASE q = p /\ mine = {}
      BY <1>4, <3>1
    <3>2. CASE Childless(q)
      <4>1. parent[r] # q /\ q # initproc
        BY <2>3, <3>2 DEF ProcInv, InvFamily, Childless
      <4> QED
        BY <1>4, <4>1
    <3> QED
      BY <2>1, <2>4, <3>1, <3>2
  <2>5. parent'[initproc] = NoProc /\ \A q \in Procs : state[q] = "UNUSED" => parent'[q] = NoProc
    BY SMTT(60), <1>4, <2>3 DEF ProcInv, InvFamily
  <2>6. \A q \in Procs \ {initproc} : state[q] \notin {"UNUSED", "USED"} => parent'[q] # NoProc
    BY SMTT(60), <1>4, <2>3 DEF ProcInv, InvFamily
  <2>7. state' = state /\ state[initproc] \notin {"UNUSED", "USED", "ZOMBIE"}
    BY <1>3 DEF ProcInv, InvFamily
  <2> QED
    BY <2>2, <2>4, <2>5, <2>6, <2>7 DEF InvFamily
<1>11. InsideFacts(p)'
  <2>1. InsideFacts(p) /\ UNCHANGED <<state, chan>>
    BY <1>1, <1>3, InsideHave
  <2>2. \A r \in Procs : 1 <= r
    BY SMTT(60) DEF Procs
  <2>3. ASSUME NEW r \in Procs, NEW q \in Procs, Waits(r), parent'[q] = r, state[q] = "ZOMBIE"
        PROVE  r = initproc /\ mine # {}
    <3>1. parent[q] # r
      BY <1>1, <2>1, <2>3 DEF InsideFacts
    <3> QED
      BY <1>4, <2>3, <3>1
  <2> QED
    BY <1>4, <2>1, <2>2, <2>3 DEF InsideFacts, Waits
<1>12. InvPids'
  BY <1>3, PidsKeep DEF aux
<1> QED
  BY <1>1, <1>5, <1>8, <1>9, <1>10, <1>11, <1>12, ThreadStepKeeps, InsideStepKeeps DEF ProcInv

(* The end of exit(). *)
LEMMA ZombieInv ==
  ASSUME ProcInv, NEW c \in CPUs, NEW p \in Procs, Zombie(c, p)
  PROVE  ProcInv'
<1>1. /\ ctx[c] = p /\ pc[p] = "zombie" /\ RunsAt(c, p) /\ pc[p] \in UnderWaitLock
      /\ p # initproc
  BY Here DEF Zombie, At, UnderWaitLock, ProcInv, InvFamily
<1>2. /\ plock' = [plock EXCEPT ![p] = c] /\ xstate' = [xstate EXCEPT ![p] = status[p]]
      /\ state' = [state EXCEPT ![p] = "ZOMBIE"] /\ wait_lock' = Free
      /\ ret' = [ret EXCEPT ![p] = "panic"] /\ pc' = [pc EXCEPT ![p] = "sched"]
      /\ UNCHANGED <<parent, pid, chan, killed, cpus, idx, kids, child, status, aux>>
  BY DEF Zombie, Goto
<1>3. /\ plock'[p] = c /\ state'[p] = "ZOMBIE" /\ ret'[p] = "panic" /\ pc'[p] = "sched"
      /\ \A q \in Procs : q # p => /\ plock'[q] = plock[q] /\ state'[q] = state[q]
                                   /\ ret'[q] = ret[q] /\ pc'[q] = pc[q]
  BY <1>2, Types
<1>4. TypeOK'
  BY <1>2, Types DEF TypeOK, Labels, procstate, cpus, aux
<1>5. OthersKept(p)
  BY <1>2, <1>3 DEF OthersKept, Same
<1>6. OwnStep(c, p)
  BY <1>1, <1>2, <1>3 DEF OwnStep, UnderOwnLock, UnderWaitLock
<1>7. ThreadStep(c, p)
  BY <1>1, <1>2, <1>5, <1>6 DEF ThreadStep, cpus
<1>8. InvFork'
  <2>1. ~Forking(p)'
    BY <1>3 DEF Forking, Place
  <2>2. \A q \in Procs : q # p /\ Forking(q) => child[q] \in Procs /\ state[child[q]] = "USED"
    BY DEF ProcInv, InvFork
  <2>3. \A q \in Procs : q # p /\ Forking(q) =>
          state'[child[q]] = "USED" /\ parent'[child[q]] = parent[child[q]]
    BY SMTT(60), <1>1, <1>2, <1>3, <2>2 DEF RunsAt
  <2> QED
    BY <1>7, <2>1, <2>3, ForkKeeps
<1>9. InvFamily'
  <2>1. \A q \in Procs : Childless(q)' => Childless(q)
    BY <1>1, <1>3 DEF Childless
  <2>2. \A q \in Procs : pc'[q] \in {"reparent", "wakeup", "zombie"} => pc'[q] = pc[q]
    BY <1>3
  <2>3. initproc \in Procs /\ parent' = parent /\ state[p] = "RUNNING"
    BY <1>1, <1>2, Types DEF RunsAt
  <2> QED
    BY SMTT(60), <1>1, <1>3, <2>1, <2>2, <2>3 DEF ProcInv, InvFamily
<1>10. InsideFacts(p)'
  <2>1. InsideFacts(p) /\ UNCHANGED <<parent, chan>>
    BY <1>1, <1>2, InsideHave
  <2>2. \A r \in Procs : Waits(r)' => Waits(r)
    BY <1>2, <1>3 DEF Waits
  <2>3. ASSUME NEW r \in Procs, NEW q \in Procs, Waits(r)', parent[q] = r, state'[q] = "ZOMBIE"
        PROVE  FALSE
    <3>1. CASE q = p
      BY <1>1, <2>1, <2>2, <2>3, <3>1 DEF InsideFacts
    <3>2. CASE q # p
      BY SMTT(60), <1>1, <1>3, <2>1, <2>2, <2>3, <3>2 DEF InsideFacts
    <3> QED
      BY <3>1, <3>2
  <2> QED
    BY <1>3, <2>1, <2>3 DEF InsideFacts
<1>11. InvPids'
  <2>1. \A q \in Procs : state'[q] = "UNUSED" <=> state[q] = "UNUSED"
    BY <1>1, <1>3 DEF RunsAt
  <2> QED
    BY <1>2, <2>1, PidsKeep DEF aux
<1> QED
  BY <1>1, <1>4, <1>7, <1>8, <1>9, <1>10, <1>11, ThreadStepKeeps, InsideStepKeeps DEF ProcInv

(* wait() frees a ZOMBIE, or fails to copy out its status. *)
LEMMA WaitReapInv ==
  ASSUME LeastSlot, ProcInv, NEW c \in CPUs, NEW p \in Procs, NEW copied \in BOOLEAN,
         WaitReap(c, p, copied)
  PROVE  ProcInv'
<1> DEFINE m == Min(Unvisited(p))
<1>1. ctx[c] = p /\ pc[p] = "wait_scan" /\ RunsAt(c, p) /\ pc[p] \in UnderWaitLock
  BY Here DEF WaitReap, At, UnderWaitLock
<1>2. /\ m \in Procs /\ plock[m] = Free /\ state[m] = "ZOMBIE" /\ m # p /\ m # initproc
      /\ parent[m] = p
  <2>1. m \in Unvisited(p) /\ m \in Procs
    BY DEF LeastSlot, WaitReap, Unvisited
  <2> QED
    BY <1>1, <2>1 DEF WaitReap, Unvisited, RunsAt, ProcInv, InvFamily
<1>3. /\ wait_lock' = Free /\ pc' = [pc EXCEPT ![p] = "user"]
      /\ copied => freeproc(m)
      /\ ~copied => UNCHANGED fields
      /\ UNCHANGED <<plock, cpus, ret, idx, kids, child, status, nextpid, named, budget>>
  BY DEF WaitReap, Return, Goto
<1>4. shell' \in Nat \cup {-1}
  <2>1. pid[m] \in Nat
    BY <1>2, Types
  <2>2. /\ copied => Return(p, pid[m])
        /\ ~copied => Return(p, -1)
    BY DEF WaitReap
  <2> QED
    BY SMTT(60), <2>1, <2>2, Types DEF Return
<1>5. /\ pc'[p] = "user" /\ \A q \in Procs : q # p => pc'[q] = pc[q]
      /\ \A q \in Procs : state'[q] = IF copied /\ q = m THEN "UNUSED" ELSE state[q]
      /\ \A q \in Procs : parent'[q] = IF copied /\ q = m THEN NoProc ELSE parent[q]
      /\ \A q \in Procs : pid'[q] = IF copied /\ q = m THEN 0 ELSE pid[q]
      /\ \A q \in Procs : killed'[q] = IF copied /\ q = m THEN 0 ELSE killed[q]
      /\ \A q \in Procs : chan'[q] = IF copied /\ q = m THEN NoProc ELSE chan[q]
  BY SMTT(60), <1>2, <1>3, Types DEF freeproc, fields
<1>6. TypeOK'
  <2>1. /\ state' \in [Procs -> procstate] /\ parent' \in [Procs -> Procs \cup {NoProc}]
        /\ pid' \in [Procs -> Nat] /\ chan' \in [Procs -> Procs \cup {NoProc}]
        /\ killed' \in [Procs -> {0, 1}] /\ xstate' \in [Procs -> {0, -1}]
    <3>1. CASE copied
      BY SMTT(60), <1>3, <3>1, Types DEF freeproc, procstate
    <3>2. CASE ~copied
      BY <1>3, <3>2, Types DEF fields
    <3> QED
      BY <3>1, <3>2
  <2>2. pc' \in [Procs -> Labels] /\ wait_lock' \in CPUs \cup {Free}
    BY <1>3, Types DEF Labels
  <2> QED
    BY <1>3, <1>4, <2>1, <2>2, Types DEF TypeOK, cpus
<1>7. OthersKept(p)
  BY <1>2, <1>3, <1>5 DEF OthersKept, Same, Moved
<1>8. OwnStep(c, p)
  BY <1>1, <1>2, <1>3, <1>5 DEF OwnStep, RunsAt, UnderOwnLock, UnderWaitLock
<1>9. ThreadStep(c, p)
  BY <1>1, <1>3, <1>7, <1>8 DEF ThreadStep, cpus
<1>10. InvFork'
  <2>1. ~Forking(p)'
    BY <1>5 DEF Forking, Place
  <2>2. \A q \in Procs : q # p /\ Forking(q) => child[q] \in Procs /\ state[child[q]] = "USED"
    BY DEF ProcInv, InvFork
  <2>3. \A q \in Procs : q # p /\ Forking(q) =>
          state'[child[q]] = "USED" /\ parent'[child[q]] = parent[child[q]]
    BY <1>2, <1>5, <2>2
  <2> QED
    BY <1>9, <2>1, <2>3, ForkKeeps
<1>11. InvFamily'
  <2>1. \A q \in Procs : Childless(q)' => Childless(q)
    BY <1>1, <1>2, <1>3, <1>5 DEF Childless, RunsAt
  <2>2. \A q \in Procs : pc'[q] \in {"reparent", "wakeup", "zombie"} => pc'[q] = pc[q]
    BY <1>5
  <2>3. initproc \in Procs /\ NoProc \notin Procs
    BY Types
  <2>4. \A q \in Procs : \/ state'[q] = state[q] /\ parent'[q] = parent[q]
                         \/ q # initproc /\ state'[q] = "UNUSED" /\ parent'[q] = NoProc
    BY <1>2, <1>5
  <2> QED
    BY SMTT(60), <2>1, <2>2, <2>3, <2>4 DEF ProcInv, InvFamily
<1>12. InsideFacts(p)'
  <2>1. InsideFacts(p)
    BY <1>1, InsideHave
  <2>2. \A r \in Procs : Waits(r)' => Waits(r)
    BY <1>5 DEF Waits
  <2>3. ASSUME NEW r \in Procs, NEW q \in Procs, parent'[q] = r, state'[q] = "ZOMBIE"
        PROVE  parent[q] = r /\ state[q] = "ZOMBIE"
    BY <1>5, <2>3
  <2> QED
    BY SMTT(60), <1>1, <1>5, <2>1, <2>2, <2>3 DEF InsideFacts
<1>13. InvPids'
  <2>1. CASE copied
    BY SMTT(60), <1>2, <1>3, <1>5, <2>1 DEF ProcInv, InvPids
  <2>2. CASE ~copied
    BY <1>3, <2>2, PidsKeep DEF fields
  <2> QED
    BY <2>1, <2>2
<1> QED
  BY <1>1, <1>6, <1>9, <1>10, <1>11, <1>12, <1>13, ThreadStepKeeps, InsideStepKeeps DEF ProcInv

-----------------------------------------------------------------------------
(* The context switches. *)

(* A switch leaves families and pids alone, and where a process goes on. *)
Switch ==
  /\ UNCHANGED <<parent, pid, chan, killed, ret, idx, child, nextpid, named>>
  /\ \A q \in Procs :
       /\ pc'[q] = pc[q] \/ (pc[q] = "sched" /\ pc'[q] = "resume")
       /\ state'[q] = state[q] \/ (state[q] = "RUNNABLE" /\ state'[q] = "RUNNING")

(* Such a step keeps what wait_lock protects, and pids. *)
LEMMA SwitchKeeps ==
  ASSUME ProcInv, Switch
  PROVE  InvFork' /\ InvFamily' /\ InvScan' /\ InvWoken' /\ InvSleep' /\ InvPids'
<1>1. UNCHANGED <<parent, pid, chan, killed, ret, idx, child, nextpid, named>>
  BY DEF Switch
<1>2. ASSUME NEW q \in Procs
      PROVE  /\ Place(q)' = Place(q) /\ (Childless(q)' <=> Childless(q))
             /\ Waits(q)' <=> Waits(q)
             /\ \A s \in {"UNUSED", "USED", "ZOMBIE"} : state'[q] = s <=> state[q] = s
             /\ \A l \in UnderWaitLock : pc'[q] = l <=> pc[q] = l
  <2>1. /\ pc'[q] = pc[q] \/ (pc[q] = "sched" /\ pc'[q] = "resume")
        /\ state'[q] = state[q] \/ (state[q] = "RUNNABLE" /\ state'[q] = "RUNNING")
    BY DEF Switch
  <2>2. Place(q)' = Place(q)
    BY <1>1, <2>1 DEF Place
  <2>3. Childless(q)' <=> Childless(q)
    BY <1>1, <2>1 DEF Childless
  <2>4. Waits(q)' <=> Waits(q)
    BY <1>1, <2>1 DEF Waits
  <2> QED
    BY <2>1, <2>2, <2>3, <2>4 DEF UnderWaitLock
<1>3. InvFork'
  <2>1. InvFork /\ \A q \in Procs : Forking(q)' <=> Forking(q)
    BY <1>2 DEF ProcInv, Forking
  <2> QED
    BY SMTT(60), <1>1, <1>2, <2>1 DEF InvFork
<1>4. InvFamily'
  <2>1. InvFamily /\ initproc \in Procs
    BY Types DEF ProcInv
  <2> QED
    BY <1>1, <1>2, <2>1 DEF InvFamily, UnderWaitLock
<1>5. InvScan'
  <2>1. InvScan
    BY DEF ProcInv
  <2> QED
    BY SMTT(60), <1>1, <1>2, <2>1 DEF InvScan, UnderWaitLock
<1>6. InvWoken'
  <2>1. InvWoken
    BY DEF ProcInv
  <2> QED
    BY <1>1, <1>2, <2>1 DEF InvWoken, UnderWaitLock
<1>7. InvSleep'
  <2>1. InvSleep
    BY DEF ProcInv
  <2> QED
    BY SMTT(60), <1>1, <1>2, <2>1 DEF InvSleep, UnderWaitLock
<1>8. InvPids'
  BY <1>1, <1>2, PidsKeep
<1> QED
  BY <1>3, <1>4, <1>5, <1>6, <1>7, <1>8

(* sched() switches to the scheduler. *)
LEMMA SchedInv ==
  ASSUME ProcInv, NEW c \in CPUs, NEW p \in Procs, Sched(c, p)
  PROVE  ProcInv'
<1>1. /\ ctx[c] = p /\ pc[p] = "sched" /\ RunsAt(c, p)
      /\ state[p] \in {"RUNNABLE", "SLEEPING", "ZOMBIE"}
  <2>1. ctx[c] = p /\ pc[p] = "sched" /\ PlaceAt(p)
    BY DEF Sched, At, ProcInv, InvPlace
  <2> QED
    BY <2>1, Here DEF PlaceAt
<1>2. /\ ctx' = [ctx EXCEPT ![c] = NoProc] /\ pc' = [pc EXCEPT ![p] = "resume"]
      /\ UNCHANGED <<fields, locks, cpuproc, ret, idx, kids, child, status, aux>>
  BY DEF Sched, Goto
<1>3. ctx'[c] = NoProc /\ \A d \in CPUs : d # c => ctx'[d] = ctx[d] /\ ctx[d] # p
  BY <1>1, <1>2, Types DEF RunsAt
<1>4. pc'[p] = "resume" /\ \A q \in Procs : q # p => pc'[q] = pc[q]
  BY <1>2, Types
<1>5. /\ cpuproc[c] = p /\ p # NoProc /\ \A d \in CPUs : d # c => cpuproc[d] # p
      /\ plock[p] = c /\ wait_lock # c
  BY <1>1 DEF RunsAt, UnderOwnLock, UnderWaitLock
<1>6. UNCHANGED <<state, parent, pid, chan, killed, plock, wait_lock, cpuproc, ret, idx, child,
                  nextpid, named>>
  BY <1>2 DEF fields, locks, aux
<1>7. TypeOK'
  BY <1>2, Types DEF TypeOK, Labels, fields, locks, aux
<1>8. InvCpu'
  <2>1. InvCpu
    BY DEF ProcInv
  <2> SUFFICES ASSUME NEW d \in CPUs
               PROVE  /\ ctx'[d] # NoProc => cpuproc[d] = ctx'[d]
                      /\ ctx'[d] = NoProc /\ cpuproc[d] # NoProc =>
                           /\ pc'[cpuproc[d]] = "resume"
                           /\ state[cpuproc[d]] \in {"RUNNABLE", "SLEEPING", "ZOMBIE"}
    BY SMTT(60), <1>6, <2>1 DEF InvCpu
  <2>2. CASE d = c
    BY <1>1, <1>3, <1>4, <1>5, <2>2
  <2>3. CASE d # c
    <3>1. ctx'[d] = ctx[d] /\ (cpuproc[d] # NoProc => pc'[cpuproc[d]] = pc[cpuproc[d]])
      BY SMTT(60), <1>3, <1>4, <1>5, <2>3, Types
    <3> QED
      BY <2>1, <3>1 DEF InvCpu
  <2> QED
    BY <2>2, <2>3
<1>9. InvPlock'
  <2> SUFFICES ASSUME NEW d \in CPUs, NEW q \in Procs
               PROVE  plock[q] = d <=>
                        cpuproc[d] = q /\ (ctx'[d] = NoProc \/ pc'[q] \in UnderOwnLock)
    BY <1>6 DEF InvPlock
  <2>1. plock[q] = d <=> cpuproc[d] = q /\ (ctx[d] = NoProc \/ pc[q] \in UnderOwnLock)
    BY DEF ProcInv, InvPlock
  <2>2. CASE d = c
    BY <1>1, <1>3, <1>4, <1>5, <2>1, <2>2 DEF UnderOwnLock
  <2>3. CASE d # c
    BY <1>3, <1>4, <1>5, <2>1, <2>3
  <2> QED
    BY <2>2, <2>3
<1>10. InvWaitLock'
  <2> SUFFICES ASSUME NEW d \in CPUs
               PROVE  wait_lock = d <=> ctx'[d] # NoProc /\ pc'[ctx'[d]] \in UnderWaitLock
    BY <1>6 DEF InvWaitLock
  <2>1. wait_lock = d <=> ctx[d] # NoProc /\ pc[ctx[d]] \in UnderWaitLock
    BY DEF ProcInv, InvWaitLock
  <2>2. CASE d = c
    BY <1>3, <1>5, <2>2
  <2>3. CASE d # c
    <3>1. ctx'[d] = ctx[d] /\ (ctx[d] # NoProc => pc'[ctx[d]] = pc[ctx[d]])
      BY SMTT(60), <1>3, <1>4, <2>3, Types
    <3> QED
      BY <2>1, <3>1
  <2> QED
    BY <2>2, <2>3
<1>11. InvPlace'
  <2> SUFFICES ASSUME NEW q \in Procs PROVE PlaceAt(q)'
    BY DEF InvPlace
  <2>1. PlaceAt(q)
    BY DEF ProcInv, InvPlace
  <2>2. CASE q = p
    <3>1. \A d \in CPUs : ctx'[d] # p
      BY <1>3, <1>5
    <3> QED
      BY <1>1, <1>4, <1>6, <2>1, <2>2, <3>1 DEF PlaceAt
  <2>3. CASE q # p
    <3>1. \A d \in CPUs : ctx'[d] = q <=> ctx[d] = q
      BY <1>1, <1>3, <2>3, Types
    <3> QED
      BY <1>4, <1>6, <2>1, <2>3, <3>1 DEF PlaceAt
  <2> QED
    BY <2>2, <2>3
<1>12. Switch
  BY <1>1, <1>4, <1>6 DEF Switch
<1> QED
  BY <1>7, <1>8, <1>9, <1>10, <1>11, <1>12, SwitchKeeps DEF ProcInv

(* scheduler() switches to a process. *)
LEMMA SchedPickInv ==
  ASSUME ProcInv, NEW c \in CPUs, NEW p \in Procs, SchedPick(c, p)
  PROVE  ProcInv'
<1>1. /\ ctx[c] = NoProc /\ cpuproc[c] = NoProc /\ plock[p] = Free /\ state[p] = "RUNNABLE"
      /\ plock' = [plock EXCEPT ![p] = c] /\ state' = [state EXCEPT ![p] = "RUNNING"]
      /\ cpuproc' = [cpuproc EXCEPT ![c] = p] /\ ctx' = [ctx EXCEPT ![c] = p]
      /\ UNCHANGED <<parent, pid, chan, killed, xstate, wait_lock, thread, aux>>
  BY DEF SchedPick
<1>2. (\A d \in CPUs : ctx[d] # p /\ cpuproc[d] # p) /\ pc[p] \in {"none", "resume"}
  BY <1>1, Away
<1>3. pc[p] = "resume" /\ ret[p] \in Preemptible
  <2>1. PlaceAt(p)
    BY DEF ProcInv, InvPlace
  <2> QED
    BY <1>1, <1>2, <2>1 DEF PlaceAt
<1>4. /\ ctx'[c] = p /\ cpuproc'[c] = p
      /\ \A d \in CPUs : d # c => ctx'[d] = ctx[d] /\ cpuproc'[d] = cpuproc[d]
  BY <1>1, Types
<1>5. /\ plock'[p] = c /\ state'[p] = "RUNNING" /\ p # NoProc
      /\ \A q \in Procs : q # p => plock'[q] = plock[q] /\ state'[q] = state[q]
  BY <1>1, Types
<1>6. UNCHANGED <<parent, pid, chan, killed, wait_lock, pc, ret, idx, child, nextpid, named>>
  BY <1>1 DEF thread, aux
<1>7. TypeOK'
  BY <1>1, Types DEF TypeOK, procstate, thread, aux
<1>8. InvCpu'
  <2>1. InvCpu
    BY DEF ProcInv
  <2>2. ASSUME NEW d \in CPUs, ctx'[d] # NoProc PROVE cpuproc'[d] = ctx'[d]
    BY <1>4, <2>1, <2>2 DEF InvCpu
  <2>3. ASSUME NEW d \in CPUs, NEW e \in CPUs, cpuproc'[d] # NoProc, cpuproc'[e] = cpuproc'[d]
        PROVE  e = d
    <3>1. CASE d # c /\ e # c
      BY SMTT(60), <1>4, <2>1, <2>3, <3>1 DEF InvCpu
    <3>2. CASE d = c \/ e = c
      BY <1>2, <1>4, <2>3, <3>2
    <3> QED
      BY <3>1, <3>2
  <2>4. ASSUME NEW d \in CPUs, ctx'[d] = NoProc, cpuproc'[d] # NoProc
        PROVE  /\ pc[cpuproc'[d]] = "resume"
               /\ state'[cpuproc'[d]] \in {"RUNNABLE", "SLEEPING", "ZOMBIE"}
    <3>1. d # c /\ ctx[d] = NoProc /\ cpuproc'[d] = cpuproc[d] /\ cpuproc[d] # NoProc
      BY <1>4, <1>5, <2>4
    <3>2. state'[cpuproc[d]] = state[cpuproc[d]]
      BY <1>2, <1>5, <3>1, Types
    <3> QED
      BY <2>1, <3>1, <3>2 DEF InvCpu
  <2> QED
    BY <1>6, <2>2, <2>3, <2>4 DEF InvCpu
<1>9. InvPlock'
  <2> SUFFICES ASSUME NEW d \in CPUs, NEW q \in Procs
               PROVE  plock'[q] = d <=>
                        cpuproc'[d] = q /\ (ctx'[d] = NoProc \/ pc[q] \in UnderOwnLock)
    BY SMTT(60), <1>6 DEF InvPlock
  <2>1. plock[q] = d <=> cpuproc[d] = q /\ (ctx[d] = NoProc \/ pc[q] \in UnderOwnLock)
    BY DEF ProcInv, InvPlock
  <2>2. CASE q = p
    BY <1>2, <1>3, <1>4, <1>5, <2>2 DEF UnderOwnLock
  <2>3. CASE q # p /\ d # c
    BY <1>4, <1>5, <2>1, <2>3
  <2>4. CASE q # p /\ d = c
    BY SMTT(60), <1>1, <1>4, <1>5, <2>1, <2>4, Types
  <2> QED
    BY <2>2, <2>3, <2>4
<1>10. InvWaitLock'
  <2> SUFFICES ASSUME NEW d \in CPUs
               PROVE  wait_lock = d <=> ctx'[d] # NoProc /\ pc[ctx'[d]] \in UnderWaitLock
    BY <1>6 DEF InvWaitLock
  <2>1. wait_lock = d <=> ctx[d] # NoProc /\ pc[ctx[d]] \in UnderWaitLock
    BY DEF ProcInv, InvWaitLock
  <2>2. CASE d = c
    BY <1>1, <1>3, <1>4, <2>1, <2>2 DEF UnderWaitLock
  <2>3. CASE d # c
    BY <1>4, <2>1, <2>3
  <2> QED
    BY <2>2, <2>3
<1>11. InvPlace'
  <2> SUFFICES ASSUME NEW q \in Procs PROVE PlaceAt(q)'
    BY DEF InvPlace
  <2>1. CASE q = p
    <3>1. /\ pc'[p] = "resume" /\ ret'[p] \in Preemptible /\ ret'[p] # "panic"
          /\ state'[p] = "RUNNING"
      BY <1>3, <1>5, <1>6 DEF Preemptible
    <3> QED
      BY <2>1, <3>1 DEF PlaceAt
  <2>2. CASE q # p
    <3>1. PlaceAt(q)
      BY DEF ProcInv, InvPlace
    <3>2. \A d \in CPUs : ctx'[d] = q <=> ctx[d] = q
      BY <1>1, <1>4, <2>2, Types
    <3> QED
      BY <1>5, <1>6, <2>2, <3>1, <3>2 DEF PlaceAt
  <2> QED
    BY <2>1, <2>2
<1>12. Switch
  BY <1>1, <1>5, <1>6 DEF Switch
<1> QED
  BY <1>7, <1>8, <1>9, <1>10, <1>11, <1>12, SwitchKeeps DEF ProcInv

(* scheduler() drops the lock of the process it left. *)
LEMMA SchedReturnInv ==
  ASSUME ProcInv, NEW c \in CPUs, SchedReturn(c)
  PROVE  ProcInv'
<1> DEFINE p == cpuproc[c]
<1>1. /\ ctx[c] = NoProc /\ p # NoProc /\ cpuproc' = [cpuproc EXCEPT ![c] = NoProc]
      /\ plock' = [plock EXCEPT ![p] = Free]
      /\ UNCHANGED <<fields, wait_lock, ctx, thread, aux>>
  BY DEF SchedReturn
<1>2. p \in Procs /\ InvCpu
  BY <1>1, Types DEF ProcInv
<1>3. /\ cpuproc'[c] = NoProc /\ plock'[p] = Free
      /\ \A d \in CPUs : d # c => cpuproc'[d] = cpuproc[d]
      /\ \A q \in Procs : q # p => plock'[q] = plock[q]
  BY <1>1, <1>2, Types
<1>4. \A d \in CPUs : d # c => cpuproc[d] # p
  BY <1>1, <1>2 DEF InvCpu
<1>5. UNCHANGED <<state, parent, pid, chan, killed, wait_lock, ctx, pc, ret, idx, child,
                  nextpid, named>>
  BY <1>1 DEF fields, thread, aux
<1>6. TypeOK'
  BY <1>1, <1>2, Types DEF TypeOK, fields, thread, aux
<1>7. InvCpu'
  <2>1. \A d \in CPUs : cpuproc'[d] # NoProc => d # c /\ cpuproc'[d] = cpuproc[d]
    BY <1>3
  <2>2. \A d \in CPUs : ctx[d] # NoProc => cpuproc'[d] = ctx[d]
    BY <1>1, <1>2, <1>3 DEF InvCpu
  <2>3. ASSUME NEW d \in CPUs, NEW b \in CPUs, cpuproc'[d] # NoProc, cpuproc'[b] = cpuproc'[d]
        PROVE  b = d
    <3>1. cpuproc[d] # NoProc /\ cpuproc[b] = cpuproc[d]
      BY <2>1, <2>3
    <3> QED
      BY <1>2, <3>1 DEF InvCpu
  <2>4. \A d \in CPUs : ctx[d] = NoProc /\ cpuproc'[d] # NoProc =>
          /\ pc[cpuproc'[d]] = "resume"
          /\ state[cpuproc'[d]] \in {"RUNNABLE", "SLEEPING", "ZOMBIE"}
    BY <1>2, <2>1 DEF InvCpu
  <2> QED
    BY <1>5, <2>2, <2>3, <2>4 DEF InvCpu
<1>8. InvPlock'
  <2> SUFFICES ASSUME NEW d \in CPUs, NEW q \in Procs
               PROVE  plock'[q] = d <=>
                        cpuproc'[d] = q /\ (ctx[d] = NoProc \/ pc[q] \in UnderOwnLock)
    BY SMTT(60), <1>5 DEF InvPlock
  <2>1. plock[q] = d <=> cpuproc[d] = q /\ (ctx[d] = NoProc \/ pc[q] \in UnderOwnLock)
    BY DEF ProcInv, InvPlock
  <2>2. CASE q = p
    BY <1>1, <1>3, <1>4, <2>2, Types
  <2>3. CASE q # p
    BY SMTT(60), <1>1, <1>3, <2>1, <2>3, Types
  <2> QED
    BY <2>2, <2>3
<1>9. InvWaitLock'
  BY <1>5 DEF ProcInv, InvWaitLock
<1>10. InvPlace'
  <2>1. ASSUME NEW q \in Procs PROVE PlaceAt(q)'
    <3>1. PlaceAt(q)
      BY DEF ProcInv, InvPlace
    <3> QED
      BY <1>5, <3>1 DEF PlaceAt
  <2> QED
    BY <2>1 DEF InvPlace
<1>11. Switch
  BY <1>5 DEF Switch
<1> QED
  BY <1>6, <1>7, <1>8, <1>9, <1>10, <1>11, SwitchKeeps DEF ProcInv

(* A step that changes nothing. *)
LEMMA StutterInv ==
  ASSUME ProcInv, UNCHANGED vars
  PROVE  ProcInv'
<1>1. /\ UNCHANGED <<state, parent, pid, chan, killed, xstate>>
      /\ UNCHANGED <<plock, wait_lock, cpuproc, ctx>>
      /\ UNCHANGED <<pc, ret, idx, kids, child, status, nextpid, shell, named, budget>>
  BY DEF vars, fields, locks, cpus, thread, aux
<1>2. TypeOK'
  BY <1>1 DEF ProcInv, TypeOK
<1>3. InvCpu'
  <2>1. InvCpu
    BY DEF ProcInv
  <2> QED
    BY <1>1, <2>1 DEF InvCpu
<1>4. InvPlock' /\ InvWaitLock'
  <2>1. InvPlock /\ InvWaitLock
    BY DEF ProcInv
  <2> QED
    BY <1>1, <2>1 DEF InvPlock, InvWaitLock
<1>5. InvPlace'
  <2>1. InvPlace
    BY DEF ProcInv
  <2> QED
    BY SMTT(60), <1>1, <2>1 DEF InvPlace, PlaceAt
<1>6. Switch
  BY <1>1 DEF Switch
<1> QED
  BY <1>2, <1>3, <1>4, <1>5, <1>6, SwitchKeeps DEF ProcInv

-----------------------------------------------------------------------------
(* The invariant holds after userinit(). *)
LEMMA InitInv == Init => ProcInv
<1> SUFFICES ASSUME Init PROVE ProcInv
  OBVIOUS
<1>1. initproc \in Procs /\ NoProc \notin Procs /\ Free \notin CPUs /\ initproc # NoProc
  BY SMTT(60), ProcConstants DEF Procs, NoProc, initproc
<1>2. /\ \A p \in Procs : /\ state[p] = IF p = initproc THEN "RUNNABLE" ELSE "UNUSED"
                          /\ pid[p] = IF p = initproc THEN 1 ELSE 0
                          /\ pc[p] = IF p = initproc THEN "resume" ELSE "none"
                          /\ ret[p] = IF p = initproc THEN "user" ELSE "none"
                          /\ parent[p] = NoProc /\ plock[p] = Free /\ killed[p] = 0
      /\ \A c \in CPUs : cpuproc[c] = NoProc /\ ctx[c] = NoProc
      /\ wait_lock = Free /\ nextpid = 2 /\ named = {}
  BY DEF Init
<1>3. TypeOK
  <2>1. 1 \in 1 .. NPROC + 1 /\ Budget \in 0 .. Budget
    BY SMTT(60), ProcConstants
  <2>2. /\ pid \in [Procs -> Nat] /\ killed \in [Procs -> {0, 1}] /\ xstate \in [Procs -> {0, -1}]
        /\ nextpid \in Nat /\ shell \in Nat \cup {-1} /\ status \in [Procs -> {0, -1}]
        /\ kids \in [Procs -> {0, 1}]
    BY SMTT(60) DEF Init
  <2> QED
    BY <1>1, <2>1, <2>2 DEF TypeOK, Init, procstate, Labels
<1>4. InvCpu /\ InvPlock /\ InvWaitLock
  BY <1>1, <1>2 DEF InvCpu, InvPlock, InvWaitLock
<1>5. InvPlace
  <2> SUFFICES ASSUME NEW p \in Procs PROVE PlaceAt(p)
    BY DEF InvPlace
  <2>1. \A c \in CPUs : ctx[c] # p
    BY <1>1, <1>2
  <2>2. CASE p = initproc
    <3>1. state[p] = "RUNNABLE" /\ pc[p] = "resume" /\ ret[p] = "user"
      BY <1>2, <2>2
    <3> QED
      BY <2>1, <3>1 DEF PlaceAt, Preemptible
  <2>3. CASE p # initproc
    <3>1. state[p] = "UNUSED" /\ pc[p] = "none"
      BY <1>2, <2>3
    <3> QED
      BY <2>1, <3>1 DEF PlaceAt
  <2> QED
    BY <2>2, <2>3
<1>6. InvFork /\ InvFamily
  <2>1. \A p \in Procs : ~Forking(p) /\ Place(p) # "fork_run"
    BY <1>2 DEF Forking, Place
  <2>2. \A p \in Procs : pc[p] \notin {"reparent", "wakeup", "zombie"}
    BY <1>2
  <2>3. \A p \in Procs : parent[p] \notin Procs
    BY <1>1, <1>2
  <2>4. state[initproc] = "RUNNABLE" /\ \A p \in Procs \ {initproc} : state[p] = "UNUSED"
    BY <1>1, <1>2
  <2>5. InvFork
    BY <2>1 DEF InvFork
  <2>6. InvFamily
    BY <1>1, <1>2, <2>2, <2>3, <2>4 DEF InvFamily
  <2> QED
    BY <2>5, <2>6
<1>7. InvScan /\ InvWoken /\ InvSleep
  <2>1. \A p \in Procs : parent[p] \notin Procs
    BY <1>1, <1>2
  <2> QED
    BY <2>1 DEF InvScan, InvWoken, InvSleep
<1>8. InvPids
  BY SMTT(60), <1>2 DEF InvPids
<1> QED
  BY <1>3, <1>4, <1>5, <1>6, <1>8, <1>7 DEF ProcInv

(* Every step keeps it. *)
LEMMA StepInv ==
  ASSUME LeastSlot, ProcInv, [Next]_vars
  PROVE  ProcInv'
<1>1. CASE UNCHANGED vars
  BY <1>1, StutterInv
<1>2. ASSUME NEW c \in CPUs, SchedReturn(c) PROVE ProcInv'
  BY <1>2, SchedReturnInv
<1>3. ASSUME NEW c \in CPUs, NEW p \in Procs, SchedPick(c, p) PROVE ProcInv'
  BY <1>3, SchedPickInv
<1>4. ASSUME NEW c \in CPUs, NEW p \in Procs, Kernel(c, p) PROVE ProcInv'
  <2>1. ASSUME NEW ok \in BOOLEAN, ForkAlloc(c, p, ok) PROVE ProcInv'
    BY <2>1, ForkTakesInv, ForkFailsInv
  <2>2. ASSUME NEW ok \in BOOLEAN, WaitReap(c, p, ok) PROVE ProcInv'
    BY <2>2, WaitReapInv
  <2> QED
    BY <1>4, <2>1, <2>2, SchedInv, ResumeInv, ForkScanInv, ForkParentInv, ForkRunInv,
       WaitLockInv, WaitScanInv, WaitCheckInv, SleepLockInv, SleepInv, ExitInv, ReparentInv,
       WakeupInv, ZombieInv DEF Kernel
<1>5. ASSUME NEW c \in CPUs, NEW p \in Procs, User(c, p) PROVE ProcInv'
  <2>1. ASSUME NEW l \in {"fork", "wait", "exit"}, Syscall(c, p, l) PROVE ProcInv'
    BY <2>1, SyscallInv
  <2>2. ASSUME NEW t \in KillPids, Kill(c, p, t) PROVE ProcInv'
    BY <2>2, KillInv
  <2> QED
    BY <1>5, <2>1, <2>2, YieldInv DEF User
<1> QED
  BY <1>1, <1>2, <1>3, <1>4, <1>5 DEF Next

(* The properties follow from the invariant. *)
LEMMA StackFollows == ProcInv => StackExclusive
<1> SUFFICES ASSUME ProcInv PROVE StackExclusive
  OBVIOUS
<1>1. TypeOK
  BY DEF ProcInv
<1>2. ASSUME NEW c \in CPUs, ctx[c] # NoProc
      PROVE  /\ cpuproc[c] = ctx[c] /\ state[ctx[c]] \notin {"UNUSED", "USED"}
             /\ \A d \in CPUs : ctx[d] = ctx[c] => d = c
  <2>1. ctx[c] \in Procs
    BY <1>2, Types
  <2> QED
    BY <2>1, Here, Live DEF RunsAt
<1> QED
  BY <1>1, <1>2 DEF StackExclusive

(* With wait_lock free nobody is inside wait() or exit(). *)
LEMMA ParentsFollow == ProcInv => ParentsServed
<1> SUFFICES ASSUME ProcInv, wait_lock = Free
             PROVE  /\ \A p, q \in Procs :
                         state[p] = "SLEEPING" /\ chan[p] = p /\ parent[q] = p =>
                           state[q] # "ZOMBIE"
                    /\ \A q \in Procs \ {initproc} :
                         state[q] \notin {"UNUSED", "USED"} =>
                           /\ parent[q] # NoProc
                           /\ state[parent[q]] \in {"SLEEPING", "RUNNABLE", "RUNNING"}
  BY DEF ParentsServed, NoMissedExit, NoOrphans
<1>1. \A r \in Procs : pc[r] \notin UnderWaitLock
  BY OneHolder
<1>2. ASSUME NEW p \in Procs, NEW q \in Procs, state[p] = "SLEEPING", chan[p] = p, parent[q] = p
      PROVE  state[q] # "ZOMBIE"
  BY <1>1, <1>2 DEF ProcInv, InvSleep, Waits, UnderWaitLock
<1>3. ASSUME NEW q \in Procs \ {initproc}, state[q] \notin {"UNUSED", "USED"}
      PROVE  /\ parent[q] # NoProc
             /\ state[parent[q]] \in {"SLEEPING", "RUNNABLE", "RUNNING"}
  <2>1. parent[q] # NoProc /\ parent[q] \in Procs
    BY SMTT(60), <1>3, Types DEF ProcInv, InvFamily
  <2>2. ~Childless(parent[q]) /\ state[parent[q]] \in procstate
    BY <2>1, Types DEF ProcInv, InvFamily
  <2> QED
    BY <2>1, <2>2 DEF Childless, procstate
<1> QED
  BY <1>2, <1>3

(* Pids and marks are right. *)
LEMMA KillsFollow == ProcInv => KillsRight
  BY DEF ProcInv, InvPids, KillsRight, PidsUnique, KilledWasNamed

(* A CPU that holds a p->lock spins on no lock: it is in scheduler(), at   *)
(* sched() or resuming, or about to sleep.                                 *)
LEMMA HolderOfProc ==
  ASSUME ProcInv, NEW c \in CPUs, NEW p \in Procs, plock[p] = c
  PROVE  SpinsOn(c) = Free
<1>1. cpuproc[c] = p /\ (ctx[c] = NoProc \/ pc[p] \in UnderOwnLock)
  BY DEF ProcInv, InvPlock
<1>2. ctx[c] # NoProc => ctx[c] = p
  BY <1>1 DEF ProcInv, InvCpu
<1> QED
  BY <1>1, <1>2 DEF SpinsOn, UnderOwnLock

(* Whatever a CPU spins on is wait_lock, which it does not hold, or the    *)
(* lock of a process that another CPU holds.                               *)
LEMMA SpinsOnOther ==
  ASSUME LeastSlot, ProcInv, NEW c \in CPUs, SpinsOn(c) # Free
  PROVE  \/ SpinsOn(c) = wait_lock /\ wait_lock # c
         \/ \E p \in Procs : SpinsOn(c) = plock[p]
<1> DEFINE p == ctx[c]
<1>1. p # NoProc /\ p \in Procs
  BY Types DEF SpinsOn
<1>2. CASE pc[p] \in {"wait", "exit", "fork_parent"}
  <2>1. wait_lock # c
    BY <1>1, <1>2, Here DEF RunsAt, UnderWaitLock
  <2> QED
    BY <1>1, <1>2, <2>1 DEF SpinsOn
<1>3. CASE pc[p] \in {"sleep", "zombie"}
  BY <1>1, <1>3 DEF SpinsOn
<1>4. CASE pc[p] = "fork_run"
  <2>1. child[p] \in Procs
    BY <1>1, <1>4 DEF ProcInv, InvFork, Forking, Place
  <2> QED
    BY <1>1, <1>4, <2>1 DEF SpinsOn
<1>5. CASE pc[p] = "wakeup" \/ pc[p] = "fork"
  <2>1. idx[p] <= NPROC
    BY <1>1, <1>5 DEF SpinsOn
  <2>2. idx[p] \in Procs
    BY SMTT(60), <1>1, <2>1, Types DEF Procs
  <2> QED
    BY <1>1, <1>5, <2>1, <2>2 DEF SpinsOn
<1>6. CASE pc[p] = "wait_scan"
  <2>1. Unvisited(p) # {}
    BY <1>1, <1>6 DEF SpinsOn
  <2>2. Min(Unvisited(p)) \in Procs
    BY <2>1 DEF LeastSlot, Unvisited
  <2> QED
    BY <1>1, <1>6, <2>1, <2>2 DEF SpinsOn
<1>7. \/ pc[p] \in {"wait", "exit", "fork_parent"} \/ pc[p] \in {"sleep", "zombie"}
      \/ pc[p] = "fork_run" \/ pc[p] = "wakeup" \/ pc[p] = "fork" \/ pc[p] = "wait_scan"
  BY <1>1 DEF SpinsOn
<1> QED
  BY <1>2, <1>3, <1>4, <1>5, <1>6, <1>7

-----------------------------------------------------------------------------
(* Every set of naturals has a least element: Min is defined on it. *)
LEMMA MinIsLeast ==
  ASSUME NEW S \in SUBSET Nat, S # {}
  PROVE  Min(S) \in S /\ \A m \in S : Min(S) <= m
<1> DEFINE Less == OpToRel(<, Nat)
<1>1. PICK n \in S : \A m \in S : <<m, n>> \notin Less
  <2>1. IsWellFoundedOn(Less, Nat)
    BY NatLessThanWellFounded
  <2> HIDE DEF Less
  <2> QED
    BY <2>1, WFMin
<1>2. ASSUME NEW m \in S PROVE n <= m
  <2>1. ~(m < n)
    BY <1>1 DEF OpToRel
  <2> QED
    BY SMTT(60), <2>1
<1> QED
  BY <1>2 DEF Min

(* The same of a set of slots of the process table. *)
LEMMA LeastProc ==
  ASSUME NEW S \in SUBSET Procs, S # {}
  PROVE  Min(S) \in S /\ Min(S) \in Procs /\ \A m \in S : Min(S) <= m
<1>1. S \in SUBSET Nat
  BY SMTT(60) DEF Procs
<1> QED
  BY <1>1, MinIsLeast

(* Every step keeps the invariant. *)
LEMMA NextInv == ProcInv /\ [Next]_vars => ProcInv'
<1>1. LeastSlot
  BY LeastProc DEF LeastSlot
<1> QED
  BY <1>1, StepInv

(* The inductive invariant holds in every state of every behaviour. *)
THEOREM ProcInvariant == Spec => []ProcInv
  BY InitInv, NextInv, PTL DEF Spec

(* sched() is entered with one lock held. *)
LEMMA SchedFollows == ProcInv => SchedNeverPanics
<1> SUFFICES ASSUME ProcInv, NEW c \in CPUs, NEW p \in Procs, ctx[c] = p, pc[p] = "sched"
             PROVE  plock[p] = c /\ noff(c) = 1 /\ state[p] # "RUNNING"
  BY DEF SchedNeverPanics, SchedChecks, At
<1>1. RunsAt(c, p) /\ PlaceAt(p)
  BY Here DEF ProcInv, InvPlace
<1>2. plock[p] = c /\ wait_lock # c /\ state[p] # "RUNNING"
  BY <1>1 DEF RunsAt, PlaceAt, UnderOwnLock, UnderWaitLock
<1>3. {q \in Procs : plock[q] = c} = {p}
  BY SMTT(60), <1>1, <1>2 DEF ProcInv, InvPlock, RunsAt
<1>4. Cardinality({p}) = 1
  BY FS_Singleton
<1> QED
  BY SMTT(60), <1>2, <1>3, <1>4 DEF noff

(* Chains of spinning CPUs are at most two long. *)
LEMMA CyclesFollow == ProcInv => NoLockCycle
<1>1. LeastSlot
  BY LeastProc DEF LeastSlot
<1> SUFFICES ASSUME ProcInv, NEW c \in CPUs, SpinsOn(c) # Free
             PROVE  /\ SpinsOn(c) # c
                    /\ SpinsOn(SpinsOn(c)) # Free => SpinsOn(SpinsOn(SpinsOn(c))) = Free
  BY DEF NoLockCycle
<1>2. ASSUME NEW d \in CPUs, NEW p \in Procs, SpinsOn(d) = plock[p], SpinsOn(d) # Free
      PROVE  SpinsOn(d) \in CPUs /\ SpinsOn(d) # d /\ SpinsOn(SpinsOn(d)) = Free
  <2>1. plock[p] \in CPUs
    BY <1>2, Types
  <2> QED
    BY <1>2, <2>1, HolderOfProc
<1>3. CASE \E p \in Procs : SpinsOn(c) = plock[p]
  BY <1>2, <1>3
<1>4. CASE SpinsOn(c) = wait_lock /\ wait_lock # c
  <2>1. SUFFICES ASSUME SpinsOn(wait_lock) # Free PROVE SpinsOn(SpinsOn(wait_lock)) = Free
    BY <1>4
  <2>2. wait_lock \in CPUs
    BY <1>4, Types
  <2>3. ~(SpinsOn(wait_lock) = wait_lock)
    <3>1. SUFFICES ASSUME SpinsOn(wait_lock) = wait_lock PROVE FALSE
      OBVIOUS
    <3>2. PICK p \in Procs : wait_lock = plock[p]
      BY <2>1, <2>2, <3>1, <1>1, SpinsOnOther
    <3> QED
      BY <2>1, <2>2, <3>2, HolderOfProc
  <2>4. PICK p \in Procs : SpinsOn(wait_lock) = plock[p]
    BY <2>1, <2>2, <2>3, <1>1, SpinsOnOther
  <2> QED
    BY <1>2, <2>1, <2>2, <2>4
<1> QED
  BY <1>3, <1>4, <1>1, SpinsOnOther

(* A process executes on one CPU at a time, and its stack is in use by it  *)
(* alone while its state already says otherwise: p->lock is held across    *)
(* swtch().                                                                *)
THEOREM StacksAreExclusive == Spec => []StackExclusive
  BY ProcInvariant, StackFollows, PTL

(* sched() never panics, and no CPUs spin on each other's locks. *)
THEOREM LocksAreRight == Spec => []LocksRight
<1>1. ProcInv => LocksRight
  BY SchedFollows, CyclesFollow DEF LocksRight
<1> QED
  BY <1>1, ProcInvariant, PTL

(* No exit is missed by wait(), and every process has a parent to wait for *)
(* it.                                                                     *)
THEOREM ParentsAreServed == Spec => []ParentsServed
  BY ProcInvariant, ParentsFollow, PTL

(* Pids are unique and kill() strikes whom it names. *)
THEOREM KillsAreRight == Spec => []KillsRight
  BY ProcInvariant, KillsFollow, PTL
=============================================================================
