------------------------------ MODULE MCKernel ------------------------------
(***************************************************************************)
(* Instances for TLC of the spinlocks, the sleep locks, the buffer cache   *)
(* and the table of open files.  A behaviour runs one of the four models,  *)
(* the one that the variable part names, and leaves the variables of the   *)
(* others alone.                                                           *)
(***************************************************************************)
EXTENDS Spinlock, TLC

CONSTANTS Sleepers, Blocks, Data, NBUF, MaxPins,
          Users, First, NFILE, NOFILE, Pages

(* There are a buffer and a value for a block to have, and no block or     *)
(* process is the string that stands for none in Bcache and SleepLock.     *)
ASSUME KernelConstants ==
  /\ NBUF \in Nat \ {0} /\ MaxPins \in Nat /\ IsFiniteSet(CPUs) /\ Data # {}
  /\ "none" \notin Blocks /\ "" \notin Sleepers

VARIABLES
  part,
  locked, pid, s_lk, plock, asleep, s_pc, todo,
  blockno, valid, refcnt, data, b_owner, list, disk, pinned, b_pc, buf, latest, recency,
  file, ofile, pipe, iref, f_t, panicked

sleepVars == <<locked, pid, s_lk, plock, asleep, s_pc, todo>>
cacheVars == <<blockno, valid, refcnt, data, b_owner, list, disk, pinned, b_pc, buf,
               latest, recency>>
fileVars == <<file, ofile, pipe, iref, f_t, panicked>>

S == INSTANCE SleepLock WITH Procs <- Sleepers, lk <- s_lk, pc <- s_pc
B == INSTANCE Bcache WITH Procs <- CPUs, owner <- b_owner, pc <- b_pc
F == INSTANCE FileTable WITH Procs <- Users, t <- f_t

Off == "off"

SpinOff == Init /\ want = [t \in Threads |-> FALSE]
SleepOff ==
  /\ locked = Off /\ pid = Off /\ s_lk = Off /\ plock = Off /\ asleep = Off
  /\ s_pc = Off /\ todo = Off
CacheOff ==
  /\ blockno = Off /\ valid = Off /\ refcnt = Off /\ data = Off /\ b_owner = Off
  /\ list = Off /\ disk = Off /\ pinned = Off /\ b_pc = Off /\ buf = Off
  /\ latest = Off /\ recency = Off
FilesOff ==
  /\ file = Off /\ ofile = Off /\ pipe = Off /\ iref = Off /\ f_t = Off /\ panicked = Off

KernelInit ==
  \/ part = "spinlock" /\ Init /\ SleepOff /\ CacheOff /\ FilesOff
  \/ part = "sleeplock" /\ SpinOff /\ S!Init /\ CacheOff /\ FilesOff
  \/ part = "bcache" /\ SpinOff /\ SleepOff /\ B!Init /\ FilesOff
  \/ part = "files" /\ SpinOff /\ SleepOff /\ CacheOff /\ F!Init

KernelNext ==
  \/ part = "spinlock" /\ Next /\ UNCHANGED <<part, sleepVars, cacheVars, fileVars>>
  \/ part = "sleeplock" /\ S!Next /\ UNCHANGED <<part, vars, cacheVars, fileVars>>
  \/ part = "bcache" /\ B!Next /\ UNCHANGED <<part, vars, sleepVars, fileVars>>
  \/ part = "files" /\ F!Next /\ UNCHANGED <<part, vars, sleepVars, cacheVars>>

KernelSpec == KernelInit /\ [][KernelNext]_<<part, vars, sleepVars, cacheVars, fileVars>>

(* CPUs, threads and the processes that use the cache are interchangeable. *)
Symmetry == Permutations(CPUs) \cup Permutations(Threads)

(* So are the blocks of the cache: only their buffers, and what the disk   *)
(* has of them, tell them apart.                                           *)
View ==
  IF part # "bcache" THEN <<part, vars, sleepVars, fileVars>>
  ELSE LET Cached == {blockno[b] : b \in B!Bufs}
           Contents(k) == <<disk[k], latest[k]>>
       IN <<[b \in B!Bufs |-> IF blockno[b] \in Blocks THEN Contents(blockno[b]) ELSE <<>>],
            [x \in Data \X Data |-> Cardinality({k \in Blocks \ Cached : Contents(k) = x})],
            valid, refcnt, data, b_owner, list, pinned, b_pc, buf, recency>>

-----------------------------------------------------------------------------
(* The sleep lock excludes, and no sleeper misses its wakeup(). *)
SleepLockRight == part = "sleeplock" => S!SleepLockRight

(* The bookkeeping of the buffer cache: the reference counts, locks and    *)
(* identities of the buffers, the LRU list in both directions, and a free  *)
(* buffer for whoever may need one.                                        *)
BcacheInv == part = "bcache" => B!BcacheInv /\ B!ListIsLru /\ B!NoPanic

(* The cache is coherent: who holds a buffer sees the last contents of its *)
(* block, and recycling a buffer loses nothing.                            *)
CacheCoherent == part = "bcache" => B!NoStaleRead /\ B!NothingLost

(* Open files, pipes and the inode have the references that they count,    *)
(* whichever step of pipe() or open() fails.                               *)
DescriptorsRight == part = "files" => F!DescriptorsRight
=============================================================================
