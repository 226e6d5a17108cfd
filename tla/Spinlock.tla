------------------------------ MODULE Spinlock ------------------------------
(***************************************************************************)
(* Spinlocks and interrupts: acquire(), release(), holding(), push_off()   *)
(* and pop_off() of kernel/spinlock.c, at the grain of their accesses to   *)
(* shared memory, under device interrupts (kerneltrap()) and under the     *)
(* migration of kernel threads between CPUs (sched() and scheduler()).     *)
(*                                                                         *)
(* There is one lock per process, p->lock, and one more, Outer, that is    *)
(* taken before any p->lock, as tickslock and wait_lock are.  Threads and  *)
(* interrupt handlers acquire and release in any way that respects this    *)
(* order.  A context is a kernel thread or the scheduler() of a CPU.       *)
(***************************************************************************)
EXTENDS Integers, FiniteSets

CONSTANTS CPUs, Threads,
          Outer    \* the lock that is not a p->lock

ASSUME SpinConstants ==
  IsFiniteSet(Threads) /\ CPUs \cap Threads = {} /\ Outer \notin Threads

Free == "free"
Locks == Threads \cup {Outer}   \* thread t stands for its own p->lock
Contexts == Threads \cup CPUs   \* cpu c stands for its scheduler()

ASSUME FreeIsNoCpu == Free \notin CPUs

VARIABLES
  owner,   \* the CPU whose amoswap took the lock; lk->locked = (owner # Free)
  lcpu,    \* lk->cpu
  intr,    \* whether device interrupts are enabled on each CPU
  noff, intena,    \* struct cpu
  run,     \* the context that each CPU executes
  pc, lk, old,     \* position, lock and local old of each context
  frame,   \* whether a context is in an interrupt handler
  saved,   \* what the interrupted code goes back to
  si,      \* the local intena of sched()
  want     \* history: whether the thread has interrupts on outside of locks

locks == <<owner, lcpu>>
cpu == <<intr, noff, intena, run>>
context == <<pc, lk, old, frame, saved, si, want>>
vars == <<locks, cpu, context>>

Labels == {"idle", "push", "spin", "setcpu", "unlock", "pop", "back", "parked", "panic"}

(* Every thread waits in sched(), called from where interrupts were on     *)
(* (si), or off, as in kerneltrap() and usertrap(); every CPU is at the    *)
(* top of scheduler().                                                     *)
Init ==
  /\ owner = [l \in Locks |-> Free] /\ lcpu = [l \in Locks |-> Free]
  /\ intr = [c \in CPUs |-> TRUE]
  /\ noff = [c \in CPUs |-> 0] /\ intena = [c \in CPUs |-> FALSE]
  /\ run = [c \in CPUs |-> c]
  /\ pc = [k \in Contexts |-> IF k \in CPUs THEN "idle" ELSE "parked"]
  /\ lk = [k \in Contexts |-> Outer] /\ old = [k \in Contexts |-> FALSE]
  /\ frame = [k \in Contexts |-> "base"]
  /\ saved = [k \in Contexts |-> [pc |-> "idle", lk |-> Outer]]
  /\ want \in [Threads -> BOOLEAN] /\ si = want

-----------------------------------------------------------------------------
Goto(k, l) == pc' = [pc EXCEPT ![k] = l]

(* The end of acquire() or release(); their locals are dead. *)
Done(k) ==
  /\ Goto(k, "idle")
  /\ lk' = [lk EXCEPT ![k] = Outer] /\ old' = [old EXCEPT ![k] = FALSE]

Held(c) == {l \in Locks : owner[l] = c}

(* holding(): this CPU has the lock, as far as lk->locked and lk->cpu say. *)
holding(c, l) == owner[l] # Free /\ lcpu[l] = c

(* The locks that the code running on c may take next. *)
MayAcquire(c) ==
  IF run[c] = c /\ frame[c] = "base"
    THEN (IF Held(c) = {} THEN Threads ELSE {})
    ELSE (IF Held(c) = {} THEN Locks ELSE IF Held(c) = {Outer} THEN Threads ELSE {})

(* acquire() -> push_off(): int old = intr_get(). *)
PushRead(c, l) ==
  LET k == run[c] IN
  /\ pc[k] = "idle" /\ l \in MayAcquire(c)
  /\ lk' = [lk EXCEPT ![k] = l] /\ old' = [old EXCEPT ![k] = intr[c]]
  /\ Goto(k, "push")
  /\ UNCHANGED <<locks, cpu, frame, saved, si, want>>

(* mycpu()->intena after push_off(). *)
Intena(c) == IF noff[c] = 0 THEN old[run[c]] ELSE intena[c]

(* intr_off(), intena and noff; then acquire() checks holding(). *)
PushOff(c) ==
  LET k == run[c] IN
  /\ pc[k] = "push"
  /\ intr' = [intr EXCEPT ![c] = FALSE]
  /\ intena' = [intena EXCEPT ![c] = Intena(c)]
  /\ noff' = [noff EXCEPT ![c] = @ + 1]
  /\ Goto(k, IF holding(c, lk[k]) THEN "panic" ELSE "spin")
  /\ UNCHANGED <<locks, run, lk, old, frame, saved, si, want>>

(* The amoswap that finds the lock free. *)
Swap(c) ==
  LET k == run[c] IN
  /\ pc[k] = "spin" /\ owner[lk[k]] = Free
  /\ owner' = [owner EXCEPT ![lk[k]] = c]
  /\ Goto(k, "setcpu")
  /\ UNCHANGED <<lcpu, cpu, lk, old, frame, saved, si, want>>

SetCpu(c) ==
  LET k == run[c] IN
  /\ pc[k] = "setcpu"
  /\ lcpu' = [lcpu EXCEPT ![lk[k]] = c]
  /\ Done(k)
  /\ UNCHANGED <<owner, cpu, frame, saved, si, want>>

(* lk->cpu is left as it is. *)
Mut_Release(c, l) ==
  LET k == run[c] IN
  /\ pc[k] \in {"idle", "back"} /\ l \in Held(c)
  /\ lk' = [lk EXCEPT ![k] = l]
  /\ Goto(k, "unlock")
  /\ UNCHANGED <<locks, cpu, old, frame, saved, si, want>>

(* release(): the check of holding(), lk->cpu = 0. *)
Release(c, l) ==
  LET k == run[c] IN
  /\ pc[k] \in {"idle", "back"} /\ l \in Held(c)
  /\ IF holding(c, l)
       THEN /\ lcpu' = [lcpu EXCEPT ![l] = Free]
            /\ Goto(k, "unlock")
       ELSE Goto(k, "panic") /\ UNCHANGED lcpu
  /\ lk' = [lk EXCEPT ![k] = l]
  /\ UNCHANGED <<owner, cpu, old, frame, saved, si, want>>

(* __sync_lock_release(). *)
Unlock(c) ==
  LET k == run[c] IN
  /\ pc[k] = "unlock"
  /\ owner' = [owner EXCEPT ![lk[k]] = Free]
  /\ Goto(k, "pop")
  /\ UNCHANGED <<lcpu, cpu, lk, old, frame, saved, si, want>>

(* Interrupts come back at the first pop_off(). *)
Mut_IntrOn(c) == intena[c]

IntrOn(c) == noff[c] = 1 /\ intena[c]

PopOff(c) ==
  LET k == run[c] IN
  /\ pc[k] = "pop"
  /\ IF intr[c] \/ noff[c] < 1
       THEN Goto(k, "panic") /\ UNCHANGED <<noff, intr, lk, old>>
       ELSE /\ noff' = [noff EXCEPT ![c] = @ - 1]
            /\ intr' = [intr EXCEPT ![c] = @ \/ IntrOn(c)]
            /\ Done(k)
  /\ UNCHANGED <<locks, intena, run, frame, saved, si, want>>

-----------------------------------------------------------------------------
(* A device interrupt: kernelvec enters kerneltrap() with interrupts off.  *)
Trap(c) ==
  LET k == run[c] IN
  /\ intr[c] /\ pc[k] \in {"idle", "push"}
  /\ intr' = [intr EXCEPT ![c] = FALSE]
  /\ frame' = [frame EXCEPT ![k] = "handler"]
  /\ saved' = [saved EXCEPT ![k] = [pc |-> pc[k], lk |-> lk[k]]]
  /\ Goto(k, "idle")
  /\ UNCHANGED <<locks, noff, intena, run, lk, old, si, want>>

(* sret: back to the interrupted code, interrupts on.  Its registers, the  *)
(* local old of push_off() among them, are as they were.                   *)
Sret(c) ==
  LET k == run[c] IN
  /\ frame[k] = "handler" /\ pc[k] = "idle" /\ Held(c) = {}
  /\ intr' = [intr EXCEPT ![c] = TRUE]
  /\ frame' = [frame EXCEPT ![k] = "base"]
  /\ pc' = [pc EXCEPT ![k] = saved[k].pc] /\ lk' = [lk EXCEPT ![k] = saved[k].lk]
  /\ old' = [old EXCEPT ![k] = saved[k].pc = "push"]
  /\ saved' = [saved EXCEPT ![k] = [pc |-> "idle", lk |-> Outer]]
  /\ UNCHANGED <<locks, noff, intena, run, si, want>>

(* intr_on() in syscalls, intr_off() on the way to user space. *)
SetIntr(c, on) ==
  LET k == run[c] IN
  /\ k \in Threads /\ frame[k] = "base" /\ pc[k] = "idle" /\ Held(c) = {}
  /\ intr' = [intr EXCEPT ![c] = on]
  /\ want' = [want EXCEPT ![k] = on]
  /\ UNCHANGED <<locks, noff, intena, run, pc, lk, old, frame, saved, si>>

(* sched(): save intena and swtch() to the scheduler of this CPU. *)
Sched(c) ==
  LET k == run[c] IN
  /\ k \in Threads /\ pc[k] = "idle" /\ Held(c) = {k}
  /\ IF ~holding(c, k) \/ noff[c] # 1 \/ intr[c]
       THEN Goto(k, "panic") /\ UNCHANGED <<si, run>>
       ELSE /\ si' = [si EXCEPT ![k] = intena[c]]
            /\ run' = [run EXCEPT ![c] = c]
            /\ pc' = [pc EXCEPT ![k] = "parked", ![c] = "back"]
  /\ UNCHANGED <<locks, intr, noff, intena, lk, old, frame, saved, want>>

(* The CPU keeps the intena of its last thread. *)
Mut_Switch(c, k) ==
  /\ run[c] = c /\ frame[c] = "base" /\ pc[c] = "idle" /\ Held(c) = {k}
  /\ pc[k] = "parked"
  /\ run' = [run EXCEPT ![c] = k]
  /\ Goto(k, "idle")
  /\ UNCHANGED <<locks, intr, noff, intena, lk, old, frame, saved, si, want>>

(* scheduler() switches to a thread whose p->lock it has taken; the thread *)
(* goes on in sched(): mycpu()->intena = intena.                           *)
Switch(c, k) ==
  /\ run[c] = c /\ frame[c] = "base" /\ pc[c] = "idle" /\ Held(c) = {k}
  /\ pc[k] = "parked"
  /\ run' = [run EXCEPT ![c] = k]
  /\ intena' = [intena EXCEPT ![c] = si[k]]
  /\ si' = [si EXCEPT ![k] = FALSE]
  /\ Goto(k, "idle")
  /\ UNCHANGED <<locks, intr, noff, lk, old, frame, saved, want>>

(* The top of the loop of scheduler(): intr_on(). *)
SchedulerOn(c) ==
  /\ run[c] = c /\ frame[c] = "base" /\ pc[c] = "idle" /\ Held(c) = {}
  /\ intr' = [intr EXCEPT ![c] = TRUE]
  /\ UNCHANGED <<locks, noff, intena, run, context>>

Next ==
  \E c \in CPUs :
    \/ \E l \in Locks : PushRead(c, l) \/ Release(c, l)
    \/ PushOff(c) \/ Swap(c) \/ SetCpu(c) \/ Unlock(c) \/ PopOff(c)
    \/ Trap(c) \/ Sret(c) \/ (\E on \in BOOLEAN : SetIntr(c, on))
    \/ Sched(c) \/ (\E k \in Threads : Switch(c, k)) \/ SchedulerOn(c)

Spec == Init /\ [][Next]_vars

-----------------------------------------------------------------------------
TypeOK ==
  /\ owner \in [Locks -> CPUs \cup {Free}] /\ lcpu \in [Locks -> CPUs \cup {Free}]
  /\ intr \in [CPUs -> BOOLEAN] /\ intena \in [CPUs -> BOOLEAN]
  /\ noff \in [CPUs -> Nat]
  /\ run \in [CPUs -> Contexts] /\ \A c \in CPUs : run[c] \in CPUs => run[c] = c
  /\ pc \in [Contexts -> Labels]
  /\ lk \in [Contexts -> Locks] /\ old \in [Contexts -> BOOLEAN]
  /\ frame \in [Contexts -> {"base", "handler"}]
  /\ saved \in [Contexts -> [pc : {"idle", "push"}, lk : Locks]]
  /\ si \in [Threads -> BOOLEAN] /\ want \in [Threads -> BOOLEAN]

(* None of the panics of acquire(), release(), pop_off() and sched() can   *)
(* happen, whatever interrupts arrive and wherever threads move: in        *)
(* particular no handler spins on a lock that its own CPU holds.           *)
NoPanic == \A k \in Contexts : pc[k] # "panic"

(* noff counts the locks that the CPU holds, is acquiring or has just let  *)
(* go of, and interrupts are off while it is not 0: spinlock.c:24 "disable *)
(* interrupts to avoid deadlock".                                          *)
NoffAt(c) ==
  /\ noff[c] = Cardinality(Held(c)) + (IF pc[run[c]] \in {"spin", "pop"} THEN 1 ELSE 0)
  /\ noff[c] > 0 => ~intr[c]

NoffCounts == \A c \in CPUs : NoffAt(c)

(* holding() is right whenever code asks, although it reads two words that *)
(* other CPUs change.                                                      *)
HoldingExact ==
  \A c \in CPUs, l \in Locks :
    pc[run[c]] \in {"idle", "back", "push", "spin"} => (holding(c, l) <=> owner[l] = c)

(* Outside of locks a thread has interrupts as it had them before it took  *)
(* its first lock, and a handler has them off, although the thread may     *)
(* have come back on another CPU: spinlock.c:84-86, and proc.c:468 says    *)
(* that intena "is a property of this kernel thread, not this CPU".        *)
InterruptsRestored ==
  \A c \in CPUs :
    LET k == run[c] IN
    k \in Threads /\ pc[k] = "idle" /\ Held(c) = {} =>
      intr[c] = (frame[k] = "base" /\ want[k])

-----------------------------------------------------------------------------
(* Which context a CPU executes: a thread is on one CPU or parked, and the *)
(* scheduler() of a CPU that runs a thread waits for it.                   *)
InvPlace ==
  /\ \A c, d \in CPUs : run[c] = run[d] => c = d
  /\ \A k \in Threads : pc[k] = "parked" <=> \A c \in CPUs : run[c] # k
  /\ \A c \in CPUs : pc[c] # "parked"
  /\ \A c \in CPUs : run[c] # c => pc[c] = "idle" /\ frame[c] = "base"
  /\ \A k \in Contexts : pc[k] = "back" => k \in CPUs /\ frame[k] = "base"
  /\ \A c \in CPUs : pc[run[c]] = "back" => Held(c) # {}

(* lk->cpu follows the owner, except inside acquire() and release(). *)
OwnerAt(c) ==
  LET k == run[c] IN
  /\ \A l \in Locks : lcpu[l] = c => owner[l] = c
  /\ \A l \in Locks :
       owner[l] = c => lcpu[l] = c \/ (pc[k] \in {"setcpu", "unlock"} /\ lk[k] = l)
  /\ pc[k] \in {"setcpu", "unlock"} => owner[lk[k]] = c /\ lcpu[lk[k]] = Free
  /\ pc[k] \in {"push", "spin"} => owner[lk[k]] # c

InvOwner == \A c \in CPUs : OwnerAt(c)

(* Interrupts, and where their old state is kept: in the flag itself, in   *)
(* the local old, in c->intena, or in the local intena of sched().         *)
Before(k) == frame[k] = "base" /\ want[k]

IntrAt(c) ==
  LET k == run[c] IN
  /\ pc[k] \in {"spin", "setcpu", "unlock", "pop", "back"} => ~intr[c]
  /\ k \in Threads /\ noff[c] = 0 => (intr[c] <=> Before(k))
  /\ k \in Threads /\ noff[c] > 0 => (intena[c] <=> Before(k))
  /\ pc[k] = "push" => (old[k] <=> intr[c])
  /\ frame[k] = "handler" =>
       /\ k \in Threads => want[k]
       /\ noff[c] = 0 => ~intr[c]
       /\ noff[c] > 0 => ~intena[c]

InvIntr ==
  /\ \A c \in CPUs : IntrAt(c)
  /\ \A k \in Threads : pc[k] = "parked" => (si[k] <=> Before(k))
  /\ \A k \in Threads : pc[k] = "parked" /\ frame[k] = "handler" => want[k]

(* The inductive invariant: no panic, the count of push_off()s, and the    *)
(* three groups above.                                                     *)
SpinInv ==
  /\ TypeOK /\ NoPanic /\ NoffCounts
  /\ InvPlace /\ InvOwner /\ InvIntr
=============================================================================
