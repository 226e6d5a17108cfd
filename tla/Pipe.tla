-------------------------------- MODULE Pipe --------------------------------
(***************************************************************************)
(* A pipe: pipewrite(), piperead() and pipeclose() of kernel/pipe.c, the   *)
(* sleep() and wakeup() between them, and the reference counts by which    *)
(* fileclose() of kernel/file.c decides that an end is closed.  kill() may *)
(* strike at any step: p->killed is read without p->lock.                  *)
(*                                                                         *)
(* nread and nwrite are uint: they count modulo MODULUS, a multiple of     *)
(* PIPESIZE as 2^32 is of 512.                                             *)
(***************************************************************************)
EXTENDS Integers, FiniteSets

CONSTANTS Procs,     \* the processes that share the pipe
          Bytes,     \* what a byte may be
          PIPESIZE,
          MODULUS,   \* number of values of a uint
          MaxCount,  \* bound: largest n passed to read() and write()
          Killable   \* the processes that kill() may name

Free == "free"

ASSUME PipeConstants ==
  /\ PIPESIZE \in Nat \ {0} /\ MODULUS \in Nat /\ MaxCount \in Nat
  /\ MODULUS > PIPESIZE /\ MODULUS % PIPESIZE = 0
  /\ Killable \subseteq Procs /\ Free \notin Procs /\ Bytes # {}

Ends == {"r", "w"}

VARIABLES
  data, nread, nwrite, readopen, writeopen, lock,  \* struct pipe
  freed,   \* kfree() has been called on it
  fds,     \* the ends each process has open
  pc,      \* position of each process in pipewrite() and piperead()
  left,    \* n - i there: the bytes it has still to move
  killed

pipe == <<data, nread, nwrite, readopen, writeopen>>
vars == <<pipe, lock, freed, fds, pc, left, killed>>

Labels == {"user", "w_lock", "w_loop", "w_body", "w_sleep", "w_asleep",
           "r_lock", "r_loop", "r_sleep", "r_asleep", "r_copy"}

TypeOK ==
  /\ data \in [0 .. PIPESIZE - 1 -> Bytes]
  /\ nread \in 0 .. MODULUS - 1 /\ nwrite \in 0 .. MODULUS - 1
  /\ readopen \in BOOLEAN /\ writeopen \in BOOLEAN /\ freed \in BOOLEAN
  /\ lock \in Procs \cup {Free}
  /\ fds \in [Procs -> SUBSET Ends]
  /\ pc \in [Procs -> Labels]
  /\ left \in [Procs -> 0 .. MaxCount]
  /\ killed \in [Procs -> BOOLEAN]

(* pipealloc(), and any way that fork() and close() may have spread the    *)
(* two ends over the processes.                                            *)
Init ==
  /\ data = [k \in 0 .. PIPESIZE - 1 |-> CHOOSE b \in Bytes : TRUE]
  /\ nread = 0 /\ nwrite = 0 /\ readopen = TRUE /\ writeopen = TRUE
  /\ lock = Free /\ freed = FALSE
  /\ fds \in [Procs -> SUBSET Ends]
  /\ \A e \in Ends : \E p \in Procs : e \in fds[p]
  /\ pc = [p \in Procs |-> "user"]
  /\ left = [p \in Procs |-> 0]
  /\ killed = [p \in Procs |-> FALSE]

-----------------------------------------------------------------------------
Empty == nread = nwrite

(* nread + PIPESIZE does not wrap. *)
Mut_Full == nwrite = nread + PIPESIZE

Full == nwrite = (nread + PIPESIZE) % MODULUS

(* wakeup(&pi->nread) and wakeup(&pi->nwrite), applied to positions: a     *)
(* sleeper goes on to reacquire pi->lock.                                  *)
WakeReaders(at) == [q \in Procs |-> IF at[q] = "r_asleep" THEN "r_lock" ELSE at[q]]
WakeWriters(at) == [q \in Procs |-> IF at[q] = "w_asleep" THEN "w_lock" ELSE at[q]]

(* write() or read() of k bytes reaches pipewrite() or piperead(). *)
Call(p, e, k) ==
  /\ pc[p] = "user" /\ ~killed[p] /\ e \in fds[p]
  /\ pc' = [pc EXCEPT ![p] = IF e = "w" THEN "w_lock" ELSE "r_lock"]
  /\ left' = [left EXCEPT ![p] = k]
  /\ UNCHANGED <<pipe, lock, freed, fds, killed>>

(* acquire(&pi->lock), at the start or when sleep() returns. *)
Acquire(p) ==
  /\ pc[p] \in {"w_lock", "r_lock"} /\ lock = Free
  /\ lock' = p
  /\ pc' = [pc EXCEPT ![p] = IF @ = "w_lock" THEN "w_loop" ELSE "r_loop"]
  /\ UNCHANGED <<pipe, freed, fds, left, killed>>

(* release(&pi->lock) and return; at holds the positions after wakeups. *)
Return(p, at) ==
  /\ pc' = [at EXCEPT ![p] = "user"]
  /\ left' = [left EXCEPT ![p] = 0]
  /\ lock' = Free

(* The wakeup is left out. *)
Mut_FinishRead(p) == Return(p, pc)

(* The ends of pipewrite() and of piperead(). *)
FinishWrite(p) == Return(p, WakeReaders(pc))
FinishRead(p) == Return(p, WakeWriters(pc))

Goto(p, l) == pc' = [pc EXCEPT ![p] = l] /\ UNCHANGED <<left, lock>>

(* while(i < n), and the test for a closed read end or a killed writer,    *)
(* which returns without a wakeup.                                         *)
WriteTest(p) ==
  /\ pc[p] = "w_loop"
  /\ IF left[p] = 0 THEN FinishWrite(p)
     ELSE IF ~readopen \/ killed[p] THEN Return(p, pc) ELSE Goto(p, "w_body")
  /\ UNCHANGED <<pipe, freed, fds, killed>>

(* The pipe is full: wakeup(&pi->nread), then sleep(). *)
WriteFull(p) ==
  /\ pc[p] = "w_body" /\ Full
  /\ pc' = [WakeReaders(pc) EXCEPT ![p] = "w_sleep"]
  /\ UNCHANGED <<pipe, lock, freed, fds, left, killed>>

(* The index is taken after the increment. *)
Mut_WriteByte(p, b, copied) ==
  /\ pc[p] = "w_body" /\ ~Full /\ copied
  /\ nwrite' = (nwrite + 1) % MODULUS
  /\ data' = [data EXCEPT ![nwrite' % PIPESIZE] = b]
  /\ left' = [left EXCEPT ![p] = @ - 1]
  /\ pc' = [pc EXCEPT ![p] = "w_loop"]
  /\ UNCHANGED <<nread, readopen, writeopen, lock, freed, fds, killed>>

(* Store one byte; copyin() may fail. *)
WriteByte(p, b, copied) ==
  /\ pc[p] = "w_body" /\ ~Full
  /\ IF copied
       THEN /\ data' = [data EXCEPT ![nwrite % PIPESIZE] = b]
            /\ nwrite' = (nwrite + 1) % MODULUS
            /\ left' = [left EXCEPT ![p] = @ - 1]
            /\ pc' = [pc EXCEPT ![p] = "w_loop"]
            /\ UNCHANGED lock
       ELSE FinishWrite(p) /\ UNCHANGED <<data, nwrite>>
  /\ UNCHANGED <<nread, readopen, writeopen, freed, fds, killed>>

(* sleep(chan, &pi->lock), for a writer or a reader. *)
Sleep(p) ==
  /\ pc[p] \in {"w_sleep", "r_sleep"}
  /\ pc' = [pc EXCEPT ![p] = IF @ = "w_sleep" THEN "w_asleep" ELSE "r_asleep"]
  /\ lock' = Free
  /\ UNCHANGED <<pipe, freed, fds, left, killed>>

(* while(pi->nread == pi->nwrite && pi->writeopen). *)
ReadTest(p) ==
  /\ pc[p] = "r_loop"
  /\ IF ~(Empty /\ writeopen) THEN Goto(p, "r_copy")
     ELSE IF killed[p] THEN Return(p, pc) ELSE Goto(p, "r_sleep")
  /\ UNCHANGED <<pipe, freed, fds, killed>>

(* Take one byte, if there is one and it is wanted.  When copyout() fails  *)
(* the byte is gone and the read ends.                                     *)
ReadByte(p, copied) ==
  /\ pc[p] = "r_copy"
  /\ IF left[p] = 0 \/ Empty
       THEN FinishRead(p) /\ UNCHANGED nread
       ELSE /\ nread' = (nread + 1) % MODULUS
            /\ IF copied
                 THEN left' = [left EXCEPT ![p] = @ - 1] /\ UNCHANGED <<pc, lock>>
                 ELSE FinishRead(p)
  /\ UNCHANGED <<data, nwrite, readopen, writeopen, freed, fds, killed>>

-----------------------------------------------------------------------------
(* fileclose(): --f->ref reaches 0. *)
LastRef(p, e) == \A q \in Procs \ {p} : e \notin fds[q]


pipeclose(e) ==
  /\ readopen' = (readopen /\ e # "r")
  /\ writeopen' = (writeopen /\ e # "w")
  /\ pc' = IF e = "w" THEN WakeReaders(pc) ELSE WakeWriters(pc)
  /\ freed' = (freed \/ ~(readopen' \/ writeopen'))

(* close(), or exit() for a killed process. *)
Close(p, e) ==
  /\ pc[p] = "user" /\ e \in fds[p]
  /\ fds' = [fds EXCEPT ![p] = @ \ {e}]
  /\ IF LastRef(p, e)
       THEN lock = Free /\ pipeclose(e)
       ELSE UNCHANGED <<readopen, writeopen, pc, freed>>
  /\ UNCHANGED <<data, nread, nwrite, lock, left, killed>>

(* kill(): set p->killed and wake p if it sleeps. *)
Kill(p) ==
  /\ p \in Killable /\ ~killed[p]
  /\ killed' = [killed EXCEPT ![p] = TRUE]
  /\ pc' = [pc EXCEPT ![p] = IF @ = "w_asleep" THEN "w_lock"
                             ELSE IF @ = "r_asleep" THEN "r_lock" ELSE @]
  /\ UNCHANGED <<pipe, lock, freed, fds, left>>

(* The steps of p inside pipewrite() and piperead(). *)
Kernel(p) ==
  \/ WriteTest(p) \/ WriteFull(p) \/ (\E b \in Bytes, ok \in BOOLEAN : WriteByte(p, b, ok))
  \/ ReadTest(p) \/ (\E ok \in BOOLEAN : ReadByte(p, ok)) \/ Sleep(p)

Next ==
  \E p \in Procs :
    \/ \E e \in Ends : Close(p, e) \/ \E k \in 0 .. MaxCount : Call(p, e, k)
    \/ Acquire(p) \/ Kernel(p) \/ Kill(p)

Spec == Init /\ [][Next]_vars

(* A process in the kernel goes on, and acquire() succeeds in the end when *)
(* pi->lock is free again and again.  Programs need not call anything.     *)
Fairness == \A p \in Procs : WF_vars(Kernel(p)) /\ SF_vars(Acquire(p))

FairSpec == Spec /\ Fairness

-----------------------------------------------------------------------------
(* Number of bytes in the pipe, as the uint difference. *)
Count == (nwrite - nread) % MODULUS

(* The pages of a pipe are freed once, when nobody is in its code or has   *)
(* it open: fileclose()'s count covers a process asleep in it.             *)
NoUseAfterFree ==
  /\ freed <=> ~readopen /\ ~writeopen
  /\ freed => \A p \in Procs : pc[p] = "user" /\ fds[p] = {}

(* The buffer never overruns, also when the counters wrap; only the        *)
(* process that holds pi->lock is between acquire() and release(); and the *)
(* pipe is not used after it is freed.                                     *)
PipeInv ==
  /\ TypeOK
  /\ Count <= PIPESIZE
  /\ \A p \in Procs : pc[p] \in {"w_loop", "w_body", "w_sleep", "r_loop", "r_sleep", "r_copy"}
                        <=> lock = p
  /\ \A p \in Procs : pc[p] = "w_sleep" => Full
  /\ \A p \in Procs : pc[p] = "r_sleep" => Empty /\ writeopen
  /\ \A p \in Procs : pc[p] = "w_body" => readopen
  /\ NoUseAfterFree

(* A writer sleeps only while the pipe is full.  (While pi->lock is held   *)
(* its holder may yet wake the writer.)                                    *)
WriterWaitsForSpace ==
  lock = Free => \A p \in Procs : pc[p] = "w_asleep" => Full

(* A reader sleeps only while the pipe is empty: pipe.c:113 "pipe-empty". *)
ReaderWaitsForData ==
  lock = Free => \A p \in Procs : pc[p] = "r_asleep" => Empty

(* The same as far as the code goes: none sleeps on data unless some       *)
(* writer was killed on its way to the wakeup at pipe.c:99.                *)
ReaderWaits ==
  lock = Free => \A p \in Procs : pc[p] = "r_asleep" =>
                   Empty \/ \E q \in Procs : killed[q]

(* No wakeup is lost: who sleeps in pipewrite() or piperead() has reason to. *)
NoLostWakeup == WriterWaitsForSpace /\ ReaderWaits

(* The bytes in the pipe, oldest first. *)
Queue == [k \in 1 .. Count |-> data[(nread + k - 1) % PIPESIZE]]

Abstract == INSTANCE Fifo WITH
  Capacity <- PIPESIZE, queue <- Queue, readable <- readopen, writable <- writeopen

(* A pipe is a bounded FIFO: bytes come out once and in the order in which *)
(* they went in, whatever the interleaving, and none goes in after a close *)
(* of either end.                                                          *)
IsFifo == Abstract!Spec


-----------------------------------------------------------------------------
(* The inductive invariant behind NoLostWakeup and NoUseAfterFree: who is  *)
(* in which critical section; that the counts of fileclose() are those of  *)
(* the descriptors, also of a process asleep in the pipe; and that a       *)
(* sleeper has reason to sleep or the holder of pi->lock is about to wake  *)
(* it, unless a writer was killed.                                         *)
Locked == {"w_loop", "w_body", "w_sleep", "r_loop", "r_sleep", "r_copy"}
Writing == {"w_lock", "w_loop", "w_body", "w_sleep", "w_asleep"}
Reading == {"r_lock", "r_loop", "r_sleep", "r_asleep", "r_copy"}

WakeTypes ==
  /\ readopen \in BOOLEAN /\ writeopen \in BOOLEAN /\ freed \in BOOLEAN
  /\ lock \in Procs \cup {Free} /\ fds \in [Procs -> SUBSET Ends]
  /\ pc \in [Procs -> Labels] /\ killed \in [Procs -> BOOLEAN]

InvLock == \A p \in Procs : pc[p] \in Locked <=> lock = p

InvOpen ==
  /\ readopen <=> \E p \in Procs : "r" \in fds[p]
  /\ writeopen <=> \E p \in Procs : "w" \in fds[p]
  /\ freed <=> ~readopen /\ ~writeopen
  /\ \A p \in Procs : /\ pc[p] \in Reading => "r" \in fds[p]
                      /\ pc[p] \in Writing => "w" \in fds[p]

InvWriters ==
  \A p \in Procs : /\ pc[p] = "w_sleep" => Full
                   /\ pc[p] = "w_asleep" => Full \/ \E q \in Procs : pc[q] = "r_copy"

InvReaders ==
  \A p \in Procs : /\ pc[p] = "r_sleep" => Empty
                   /\ pc[p] = "r_asleep" => Empty \/ \E q \in Procs :
                                            killed[q] \/ pc[q] \in {"w_loop", "w_body"}

WakeInv == WakeTypes /\ InvLock /\ InvOpen /\ InvWriters /\ InvReaders
=============================================================================
