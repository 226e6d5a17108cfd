-------------------------------- MODULE Log --------------------------------
(***************************************************************************)
(* The write-ahead log of kernel/log.c: FS system calls group their writes *)
(* into transactions, the last one to end commits, and a crash at any      *)
(* moment is repaired by initlog() at the next boot.                       *)
(*                                                                         *)
(* Each action is one critical section of log.lock, or one disk transfer   *)
(* of commit() or recover_from_log().  A transfer of a data block has two  *)
(* steps, so that a crash may leave the block torn.  The header is written *)
(* in one step: struct logheader lies within the first disk sector.        *)
(***************************************************************************)
EXTENDS Integers, Sequences, FiniteSets

CONSTANTS Ops,          \* processes making FS system calls
          Blocks,       \* block numbers outside the log
          Data,         \* what a block can hold
          Zero,         \* the contents mkfs gives the log area
          Torn,         \* the contents of a half-written block
          LOGSIZE,      \* param.h: entries of the in-memory header
          MAXOPBLOCKS,  \* param.h: what begin_op() reserves per call
          NLOG,         \* sb.nlog: blocks of the log area, header included
          OpWrites      \* the most distinct blocks a system call logs

ASSUME LogConstants ==
  /\ IsFiniteSet(Ops)
  /\ Zero \in Data /\ Torn \notin Data
  /\ LOGSIZE \in Nat /\ MAXOPBLOCKS \in Nat \ {0} /\ NLOG \in Nat
  /\ OpWrites \in 1 .. MAXOPBLOCKS
  /\ MAXOPBLOCKS <= LOGSIZE

VARIABLES
  home,         \* disk: the home location of every block
  logd,         \* disk: the data blocks of the log area
  head,         \* disk: the header block, as the sequence of its n entries
  cache,        \* memory: what bread() returns for a block
  pin,          \* memory: references that keep a block's buffer cached
  lh,           \* memory: log.lh, as the sequence of its n entries
  outstanding,  \* memory: log.outstanding
  committing,   \* memory: log.committing
  pc,           \* where each process is in begin_op() .. end_op()
  wrote,        \* the distinct blocks each system call has logged
  tail,         \* loop index of write_log() and install_trans()
  writing,      \* is the disk in the middle of the current transfer?
  sys           \* the machine: booting, recovering, up or panicked

disk == <<home, logd, head>>
trans == <<lh, outstanding, committing>>
vars == <<home, logd, head, cache, pin, lh, outstanding, committing,
          pc, wrote, tail, writing, sys>>

CommitPCs == {"commit", "write_log", "write_head", "install", "clear", "finish"}
PCs == {"idle", "begin", "asleep", "inop"} \cup CommitPCs

Entries(h) == {h[i] : i \in DOMAIN h}
LogIndex == 1 .. LOGSIZE

TypeOK ==
  /\ home \in [Blocks -> Data \cup {Torn}]
  /\ logd \in [LogIndex -> Data \cup {Torn}]
  /\ head \in Seq(Blocks) /\ Len(head) <= LOGSIZE
  /\ cache \in [Blocks -> Data \cup {Torn}]
  /\ pin \in [Blocks -> Nat]
  /\ lh \in Seq(Blocks) /\ Len(lh) <= LOGSIZE
  /\ outstanding \in Nat
  /\ committing \in BOOLEAN
  /\ pc \in [Ops -> PCs]
  /\ wrote \in [Ops -> SUBSET Blocks]
  /\ tail \in Nat \ {0}
  /\ writing \in BOOLEAN
  /\ sys \in {"boot", "recover", "up", "panic"}

(* The disk as mkfs leaves it, and the machine about to run initlog(). *)
Init ==
  /\ home \in [Blocks -> Data]
  /\ logd = [i \in LogIndex |-> Zero]
  /\ head = << >>
  /\ cache = home
  /\ pin = [b \in Blocks |-> 0]
  /\ lh = << >> /\ outstanding = 0 /\ committing = FALSE
  /\ pc = [o \in Ops |-> "idle"]
  /\ wrote = [o \in Ops |-> {}]
  /\ tail = 1 /\ writing = FALSE
  /\ sys = "boot"

-----------------------------------------------------------------------------
(* The loop of begin_op() is not re-entered: a forgotten wakeup(&log). *)
Mut_Woken(f) == f

(* wakeup(&log): every sleeper goes back to the loop of begin_op(). *)
Woken(f) == [o \in Ops |-> IF f[o] = "asleep" THEN "begin" ELSE f[o]]

(* This call, those in progress and what is logged might not fit. *)
NoSpace == Len(lh) + (outstanding + 1) * MAXOPBLOCKS > LOGSIZE

(* A call is admitted while a commit is going on. *)
Mut_MustWait == NoSpace

MustWait == committing \/ NoSpace

(* begin_op(), from acquire(&log.lock) to sleep() or release(). *)
BeginOp(o) ==
  /\ sys = "up" /\ pc[o] \in {"idle", "begin"}
  /\ IF MustWait
       THEN /\ pc' = [pc EXCEPT ![o] = "asleep"]
            /\ UNCHANGED outstanding
       ELSE /\ pc' = [pc EXCEPT ![o] = "inop"]
            /\ outstanding' = outstanding + 1
  /\ UNCHANGED <<disk, cache, pin, lh, committing, wrote, tail, writing, sys>>

(* The header after b is recorded; a block already there is absorbed. *)
Logged(b) == IF b \in Entries(lh) THEN lh ELSE Append(lh, b)

Pinned(b) == IF b \in Entries(lh) THEN pin ELSE [pin EXCEPT ![b] = @ + 1]

TooBig == Len(lh) >= LOGSIZE \/ Len(lh) >= NLOG - 1

(* A system call modifies a buffer it has locked and calls log_write(). *)
LogWrite(o, b, v) ==
  /\ sys = "up" /\ pc[o] = "inop"
  /\ Cardinality(wrote[o] \cup {b}) <= OpWrites
  /\ cache' = [cache EXCEPT ![b] = v]
  /\ wrote' = [wrote EXCEPT ![o] = @ \cup {b}]
  /\ IF TooBig \/ outstanding < 1
       THEN /\ sys' = "panic"
            /\ UNCHANGED <<lh, pin>>
       ELSE /\ lh' = Logged(b)
            /\ pin' = Pinned(b)
            /\ UNCHANGED sys
  /\ UNCHANGED <<disk, outstanding, committing, pc, tail, writing>>

(* end_op() up to the release of log.lock: the last call out commits. *)
EndOp(o) ==
  /\ sys = "up" /\ pc[o] = "inop"
  /\ outstanding' = outstanding - 1
  /\ wrote' = [wrote EXCEPT ![o] = {}]
  /\ committing' = (committing \/ outstanding = 1)
  /\ sys' = IF committing THEN "panic" ELSE "up"
  /\ pc' = IF outstanding = 1 THEN [pc EXCEPT ![o] = "commit"]
                              ELSE Woken([pc EXCEPT ![o] = "idle"])
  /\ UNCHANGED <<disk, cache, pin, lh, tail, writing>>

-----------------------------------------------------------------------------
(* commit(), run by the process o that found outstanding = 0. *)
Committing(o, p) == sys = "up" /\ pc[o] = p

(* A transaction of one block is not committed. *)
Mut_StartCommit(o) ==
  /\ Committing(o, "commit")
  /\ pc' = [pc EXCEPT ![o] = IF Len(lh) > 1 THEN "write_log" ELSE "finish"]
  /\ tail' = 1
  /\ UNCHANGED <<disk, cache, pin, trans, wrote, writing, sys>>

StartCommit(o) ==
  /\ Committing(o, "commit")
  /\ pc' = [pc EXCEPT ![o] = IF Len(lh) > 0 THEN "write_log" ELSE "finish"]
  /\ tail' = 1
  /\ UNCHANGED <<disk, cache, pin, trans, wrote, writing, sys>>

(* write_log(): one block from the cache to the log, the transfer begun ... *)
WriteLogStart(o) ==
  /\ Committing(o, "write_log") /\ ~writing
  /\ logd' = [logd EXCEPT ![tail] = Torn]
  /\ writing' = TRUE
  /\ UNCHANGED <<home, head, cache, pin, trans, pc, wrote, tail, sys>>

(* The loop does not advance. *)
Mut_WriteLogDone(o) ==
  /\ Committing(o, "write_log") /\ writing
  /\ logd' = [logd EXCEPT ![tail] = cache[lh[tail]]]
  /\ writing' = FALSE
  /\ pc' = IF tail < Len(lh) THEN pc ELSE [pc EXCEPT ![o] = "write_head"]
  /\ UNCHANGED <<home, head, cache, pin, trans, wrote, tail, sys>>

(* ... and completed. *)
WriteLogDone(o) ==
  /\ Committing(o, "write_log") /\ writing
  /\ logd' = [logd EXCEPT ![tail] = cache[lh[tail]]]
  /\ writing' = FALSE
  /\ tail' = tail + 1
  /\ pc' = IF tail < Len(lh) THEN pc ELSE [pc EXCEPT ![o] = "write_head"]
  /\ UNCHANGED <<home, head, cache, pin, trans, wrote, sys>>

(* The first write_head() of commit(): the real commit. *)
WriteHead(o) ==
  /\ Committing(o, "write_head")
  /\ head' = lh
  /\ tail' = 1
  /\ pc' = [pc EXCEPT ![o] = "install"]
  /\ UNCHANGED <<home, logd, cache, pin, trans, wrote, writing, sys>>

(* install_trans(): one block from the log to its buffer and its home. *)
InstallBlock ==
  IF writing
    THEN /\ home' = [home EXCEPT ![lh[tail]] = logd[tail]]
         /\ writing' = FALSE
         /\ tail' = tail + 1
         /\ UNCHANGED cache
    ELSE /\ cache' = [cache EXCEPT ![lh[tail]] = logd[tail]]
         /\ home' = [home EXCEPT ![lh[tail]] = Torn]
         /\ writing' = TRUE
         /\ UNCHANGED tail

(* install_trans(0): the buffer is unpinned once its block is home. *)
Install(o) ==
  /\ Committing(o, "install")
  /\ InstallBlock
  /\ pin' = IF writing THEN [pin EXCEPT ![lh[tail]] = @ - 1] ELSE pin
  /\ pc' = IF writing /\ tail = Len(lh) THEN [pc EXCEPT ![o] = "clear"] ELSE pc
  /\ UNCHANGED <<logd, head, trans, wrote, sys>>

(* The transaction is left in the on-disk header. *)
Mut_ClearLog(o) ==
  /\ Committing(o, "clear")
  /\ lh' = << >> /\ UNCHANGED head
  /\ pc' = [pc EXCEPT ![o] = "finish"]
  /\ UNCHANGED <<home, logd, cache, pin, outstanding, committing, wrote,
                 tail, writing, sys>>

(* log.lh.n = 0 and the second write_head(). *)
ClearLog(o) ==
  /\ Committing(o, "clear")
  /\ lh' = << >> /\ head' = << >>
  /\ pc' = [pc EXCEPT ![o] = "finish"]
  /\ UNCHANGED <<home, logd, cache, pin, outstanding, committing, wrote,
                 tail, writing, sys>>

(* The end of end_op(): admit the next transaction. *)
FinishCommit(o) ==
  /\ Committing(o, "finish")
  /\ committing' = FALSE
  /\ pc' = Woken([pc EXCEPT ![o] = "idle"])
  /\ UNCHANGED <<disk, cache, pin, lh, outstanding, wrote, tail, writing, sys>>

-----------------------------------------------------------------------------
(* The buffer cache recycles the buffer of an unreferenced block: the next *)
(* bread() takes the block from the disk.                                  *)
Evict(b) ==
  /\ sys = "up" /\ pin[b] = 0
  /\ cache' = [cache EXCEPT ![b] = home[b]]
  /\ UNCHANGED <<disk, pin, trans, pc, wrote, tail, writing, sys>>

(* Power loss or reset: the memory is gone, the disk stays. *)
Crash ==
  /\ sys' = "boot"
  /\ cache' = home
  /\ pin' = [b \in Blocks |-> 0]
  /\ lh' = << >> /\ outstanding' = 0 /\ committing' = FALSE
  /\ pc' = [o \in Ops |-> "idle"]
  /\ wrote' = [o \in Ops |-> {}]
  /\ tail' = 1 /\ writing' = FALSE
  /\ UNCHANGED disk

(* initlog() reads the header of the log it finds. *)
ReadHead ==
  /\ sys = "boot"
  /\ lh' = head
  /\ tail' = 1
  /\ sys' = "recover"
  /\ UNCHANGED <<disk, cache, pin, outstanding, committing, pc, wrote, writing>>

(* install_trans(1) *)
Reinstall ==
  /\ sys = "recover" /\ tail <= Len(lh)
  /\ InstallBlock
  /\ UNCHANGED <<logd, head, pin, trans, pc, wrote, sys>>

(* recover_from_log() clears the log; fork(), exec() and the rest follow. *)
RecoverDone ==
  /\ sys = "recover" /\ tail > Len(lh)
  /\ lh' = << >> /\ head' = << >>
  /\ sys' = "up"
  /\ UNCHANGED <<home, logd, cache, pin, outstanding, committing, pc, wrote,
                 tail, writing>>

CommitStep(o) ==
  \/ StartCommit(o) \/ WriteLogStart(o) \/ WriteLogDone(o) \/ WriteHead(o)
  \/ Install(o) \/ ClearLog(o) \/ FinishCommit(o)

Next ==
  \/ \E o \in Ops : BeginOp(o) \/ EndOp(o) \/ CommitStep(o)
  \/ \E o \in Ops, b \in Blocks, v \in Data : LogWrite(o, b, v)
  \/ \E b \in Blocks : Evict(b)
  \/ Crash \/ ReadHead \/ Reinstall \/ RecoverDone

Spec == Init /\ [][Next]_vars

(* A process in a system call is scheduled again and again, and its call   *)
(* ends; a commit, once begun, runs on.  Nothing is assumed of begin_op(): *)
(* a process need never make another system call.                          *)
Fairness == \A o \in Ops : WF_vars(EndOp(o)) /\ WF_vars(CommitStep(o))

FairSpec == Spec /\ Fairness

-----------------------------------------------------------------------------
(* The contents that block b has once the log h, l is installed over d. *)
Overlay(h, l, d) ==
  [b \in Blocks |-> IF b \in Entries(h)
                      THEN l[CHOOSE i \in DOMAIN h : h[i] = b]
                      ELSE d[b]]

(* What recover_from_log() would make of the disk as it is now. *)
Recovered == Overlay(head, logd, home)

InOp == {o \in Ops : pc[o] = "inop"}
Committers == {o \in Ops : pc[o] \in CommitPCs}

(* The reservation of begin_op() is enough: no log_write() finds the log   *)
(* full and no end_op() finds a commit going on, so neither panics.        *)
NoPanic == sys # "panic"

(* commit() never runs beside a system call that may still write, nor      *)
(* beside another commit(): log.c:12 "only commits when there are no FS    *)
(* system calls active".                                                   *)
CommitExclusive ==
  /\ outstanding = Cardinality(InOp)
  /\ committing <=> Committers # {}
  /\ committing => InOp = {} /\ Cardinality(Committers) = 1

(* No wakeup(&log) is missed: whoever sleeps in begin_op() would still have *)
(* to wait, and some process is on its way to the next wakeup(&log).        *)
SleeperHasWaker ==
  \A o \in Ops : pc[o] = "asleep" => MustWait /\ (committing \/ InOp # {})

(* A finished transaction is durable: when no system call is in progress   *)
(* and no commit is going on, a crash would lose nothing that bread()      *)
(* shows.                                                                  *)
QuietIsDurable ==
  sys = "up" /\ outstanding = 0 /\ ~committing => Recovered = cache

(***************************************************************************)
(* The inductive invariant behind these properties, part by part.          *)
(***************************************************************************)
Injective(h) == \A i, j \in DOMAIN h : h[i] = h[j] => i = j

(* The counters agree with where the processes are. *)
InvControl ==
  /\ outstanding = Cardinality(InOp)
  /\ committing <=> \E o \in Ops : pc[o] \in CommitPCs
  /\ \A o, p \in Ops : pc[o] \in CommitPCs /\ pc[p] \in CommitPCs => o = p
  /\ committing => InOp = {}
  /\ sys \in {"boot", "recover"} => \A o \in Ops : pc[o] = "idle"

(* Entry i of the log is at home. *)
Installed(i) == home[lh[i]] = logd[i]

(* While recovery runs: the header is untouched, the blocks before tail    *)
(* are home, and buffers agree with the disk but for the one in transfer.  *)
InvRecover ==
  /\ sys = "boot" => lh = << >> /\ ~writing /\ cache = home /\ tail = 1
  /\ sys \in {"boot", "recover"} => \A b \in Blocks : pin[b] = 0
  /\ sys = "recover" =>
       /\ lh = head
       /\ tail <= Len(lh) + 1
       /\ writing => tail <= Len(lh) /\ cache[lh[tail]] = logd[tail]
       /\ \A i \in DOMAIN lh : i < tail => Installed(i)
       /\ \A b \in Blocks : (writing => b # lh[tail]) => cache[b] = home[b]

(* While the machine is up: a buffer differs from its home block only if   *)
(* the block is in the log, and then it is pinned.                         *)
InvCache ==
  sys = "up" =>
    /\ \A b \in Blocks : cache[b] # home[b] => b \in Entries(lh) /\ pin[b] > 0
    /\ committing \/ outstanding > 0 \/ lh = << >>

(* The phases of commit(): what the disk holds in each. *)
InvCommit ==
  sys = "up" =>
    /\ (\A o \in Ops : pc[o] \notin {"install", "clear"}) => head = << >>
    /\ (\A o \in Ops : pc[o] \notin {"write_log", "install"}) => ~writing
    /\ \A o \in Ops :
         /\ pc[o] = "write_log" =>
              /\ tail <= Len(lh)
              /\ \A i \in DOMAIN lh : i < tail => logd[i] = cache[lh[i]]
         /\ pc[o] \in {"write_head", "install", "clear"} =>
              /\ Len(lh) > 0
              /\ \A i \in DOMAIN lh : logd[i] = cache[lh[i]]
         /\ pc[o] \in {"install", "clear"} => head = lh
         /\ pc[o] = "install" =>
              /\ tail <= Len(lh)
              /\ \A i \in DOMAIN lh : i < tail => Installed(i)
         /\ pc[o] = "clear" => \A i \in DOMAIN lh : Installed(i)
         /\ pc[o] = "finish" => lh = << >>

(* Every logged block is pinned exactly once, until it is installed. *)
InvPin ==
  sys = "up" =>
    /\ \A b \in Blocks : b \notin Entries(lh) => pin[b] = 0
    /\ \A i \in DOMAIN lh :
         pin[lh[i]] = IF \E o \in Ops : (pc[o] = "install" /\ i < tail) \/ pc[o] = "clear"
                        THEN 0 ELSE 1

(* All that commit() and initlog() rely on: the in-memory header, the log  *)
(* area, the buffers and the home blocks fit together in every phase, so   *)
(* that a crash there can be recovered from.                               *)
LogInv ==
  /\ TypeOK
  /\ Injective(head) /\ Injective(lh)
  /\ InvControl /\ InvRecover /\ InvCache /\ InvCommit /\ InvPin

(* The log implements a disk with atomic transactions: whatever the moment *)
(* of a crash, also one during recovery, the next boot finds the effects   *)
(* of whole transactions and nothing else.                                 *)
Abstract == INSTANCE AtomicDisk
              WITH stable <- Recovered,
                   current <- IF sys \in {"up", "panic"} THEN cache ELSE Recovered,
                   active <- InOp

Atomicity == Abstract!Spec

(* A process that begin_op() put to sleep is woken in the end, or the      *)
(* machine crashes first.                                                  *)
SleeperWoken ==
  \A o \in Ops : pc[o] = "asleep" ~> (pc[o] # "asleep" \/ sys # "up")
=============================================================================
