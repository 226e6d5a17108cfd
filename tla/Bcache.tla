------------------------------- MODULE Bcache -------------------------------
(***************************************************************************)
(* The buffer cache, kernel/bio.c: bread(), bwrite(), brelse(), bpin() and *)
(* bunpin(), with the LRU list as the linked list it is.                   *)
(*                                                                         *)
(* A process uses one buffer at a time and keeps the rules of the callers  *)
(* in log.c and fs.c: a block that it changes is pinned, or written, by    *)
(* the time it releases the buffer, and is unpinned only once the disk has *)
(* it.  Each critical section of bcache.lock is one action; a buffer's     *)
(* sleep lock is held from action to action, and so is the disk request.   *)
(***************************************************************************)
EXTENDS Integers, FiniteSets, FiniteSetsExt

CONSTANTS Procs, Blocks, Data,
          NBUF,     \* param.h: number of buffers, at least 1
          MaxPins   \* the blocks that the log pins at a time

Bufs == 1 .. NBUF
Head == 0         \* bcache.head
NoBlock == "none" \* dev 0, which no process asks for
Free == "free"    \* an unlocked sleep lock

VARIABLES
  blockno, valid, refcnt, data,  \* struct buf
  owner,     \* b->lock: the process that has it
  list,      \* the next and prev pointers, from buffer or Head to buffer or Head
  disk,      \* the contents of the blocks on the disk
  pinned,    \* the buffers that the log has pinned
  pc, buf,   \* position of each process, and the buffer it was given
  latest,    \* history: the last contents given to each block
  recency    \* history: the buffers, most recently released first

cache == <<blockno, valid, refcnt, data, owner, list>>
vars == <<cache, disk, pinned, pc, buf, latest, recency>>

-----------------------------------------------------------------------------
(* Insert b after the head, as binit() and brelse() do. *)
PutFirst(l, b) ==
  [next |-> [l.next EXCEPT ![b] = l.next[Head], ![Head] = b],
   prev |-> [l.prev EXCEPT ![b] = Head, ![l.next[Head]] = b]]

Unlink(l, b) ==
  [next |-> [l.next EXCEPT ![l.prev[b]] = l.next[b]],
   prev |-> [l.prev EXCEPT ![l.next[b]] = l.prev[b]]]

(* binit(): the list after the first k insertions. *)
Binit[k \in 0 .. NBUF] ==
  IF k = 0 THEN [next |-> [x \in 0 .. NBUF |-> Head], prev |-> [x \in 0 .. NBUF |-> Head]]
  ELSE PutFirst(Binit[k - 1], k)

(* The buffers in the order of head.next->next->..., and of prev. *)
Forward ==
  LET at[k \in 1 .. NBUF] == IF k = 1 THEN list.next[Head] ELSE list.next[at[k - 1]] IN at
Backward ==
  LET at[k \in 1 .. NBUF] == IF k = 1 THEN list.prev[Head] ELSE list.prev[at[k - 1]] IN at

Init ==
  /\ blockno = [b \in Bufs |-> NoBlock] /\ valid = [b \in Bufs |-> FALSE]
  /\ refcnt = [b \in Bufs |-> 0] /\ owner = [b \in Bufs |-> Free]
  /\ list = Binit[NBUF]
  /\ disk \in [Blocks -> Data] /\ latest = disk
  /\ data = [b \in Bufs |-> CHOOSE v \in Data : TRUE]
  /\ pinned = {}
  /\ pc = [p \in Procs |-> "user"] /\ buf = [p \in Procs |-> Head]
  /\ recency = [k \in Bufs |-> NBUF + 1 - k]

-----------------------------------------------------------------------------
Goto(p, l) == pc' = [pc EXCEPT ![p] = l]

(* The scan for a cached block, and the one for a buffer to recycle. *)
Hits(k) == {j \in Bufs : blockno[Forward[j]] = k}

Victims == {j \in Bufs : refcnt[Backward[j]] = 0}

(* bget(): the block is cached ... *)
BgetHit(p, k) ==
  /\ pc[p] = "user" /\ Hits(k) # {}
  /\ LET b == Forward[Min(Hits(k))] IN
       /\ refcnt' = [refcnt EXCEPT ![b] = @ + 1]
       /\ buf' = [buf EXCEPT ![p] = b]
  /\ Goto(p, "lock")
  /\ UNCHANGED <<blockno, valid, data, owner, list, disk, pinned, latest, recency>>

(* ... or the least recently used free buffer is recycled for it. *)
BgetMiss(p, k) ==
  /\ pc[p] = "user" /\ Hits(k) = {}
  /\ IF Victims = {}
       THEN Goto(p, "panic") /\ UNCHANGED <<blockno, valid, refcnt, buf>>
       ELSE LET b == Backward[Min(Victims)] IN
            /\ blockno' = [blockno EXCEPT ![b] = k]
            /\ valid' = [valid EXCEPT ![b] = FALSE]
            /\ refcnt' = [refcnt EXCEPT ![b] = 1]
            /\ buf' = [buf EXCEPT ![p] = b]
            /\ Goto(p, "lock")
  /\ UNCHANGED <<data, owner, list, disk, pinned, latest, recency>>

(* A buffer is trusted without b->valid. *)
Mut_MustRead(b) == FALSE

MustRead(b) == ~valid[b]

(* acquiresleep(&b->lock), then bread() looks at b->valid. *)
Lock(p) ==
  /\ pc[p] = "lock" /\ owner[buf[p]] = Free
  /\ owner' = [owner EXCEPT ![buf[p]] = p]
  /\ Goto(p, IF MustRead(buf[p]) THEN "reading" ELSE "held")
  /\ UNCHANGED <<blockno, valid, refcnt, data, list, disk, pinned, buf, latest, recency>>

(* virtio_disk_rw(b, 0) returns. *)
ReadDone(p) ==
  /\ pc[p] = "reading"
  /\ data' = [data EXCEPT ![buf[p]] = disk[blockno[buf[p]]]]
  /\ valid' = [valid EXCEPT ![buf[p]] = TRUE]
  /\ Goto(p, "held")
  /\ UNCHANGED <<blockno, refcnt, owner, list, disk, pinned, buf, latest, recency>>

(* The caller changes the block: bp->data is assigned. *)
Modify(p, v) ==
  /\ pc[p] = "held"
  /\ data' = [data EXCEPT ![buf[p]] = v]
  /\ latest' = [latest EXCEPT ![blockno[buf[p]]] = v]
  /\ UNCHANGED <<blockno, valid, refcnt, owner, list, disk, pinned, pc, buf, recency>>

(* bwrite(): the request, and its completion. *)
WriteStart(p) ==
  /\ pc[p] = "held"
  /\ Goto(p, IF owner[buf[p]] = p THEN "writing" ELSE "panic")
  /\ UNCHANGED <<cache, disk, pinned, buf, latest, recency>>

WriteDone(p) ==
  /\ pc[p] = "writing"
  /\ disk' = [disk EXCEPT ![blockno[buf[p]]] = data[buf[p]]]
  /\ Goto(p, "held")
  /\ UNCHANGED <<cache, pinned, buf, latest, recency>>

Synced(b) == disk[blockno[b]] = data[b]

(* The buffer may still be recycled. *)
Mut_bpin(b) == UNCHANGED refcnt

bpin(b) == refcnt' = [refcnt EXCEPT ![b] = @ + 1]

(* bpin(), from log_write(), and bunpin(), from install_trans(). *)
Pin(p) ==
  /\ pc[p] = "held" /\ buf[p] \notin pinned /\ Cardinality(pinned) < MaxPins
  /\ bpin(buf[p])
  /\ pinned' = pinned \cup {buf[p]}
  /\ UNCHANGED <<blockno, valid, data, owner, list, disk, pc, buf, latest, recency>>

Unpin(p) ==
  /\ pc[p] = "held" /\ buf[p] \in pinned /\ Synced(buf[p])
  /\ refcnt' = [refcnt EXCEPT ![buf[p]] = @ - 1]
  /\ pinned' = pinned \ {buf[p]}
  /\ UNCHANGED <<blockno, valid, data, owner, list, disk, pc, buf, latest, recency>>

(* The callers' rule: what they changed is on the disk or will get there. *)
Saved(b) == Synced(b) \/ b \in pinned

(* brelse(): releasesleep() ... *)
Unlock(p) ==
  /\ pc[p] = "held" /\ Saved(buf[p])
  /\ IF owner[buf[p]] = p
       THEN owner' = [owner EXCEPT ![buf[p]] = Free] /\ Goto(p, "brelse")
       ELSE Goto(p, "panic") /\ UNCHANGED owner
  /\ UNCHANGED <<blockno, valid, refcnt, data, list, disk, pinned, buf, latest, recency>>

(* b moved to the front of a sequence. *)
ToFront(s, b) ==
  LET at == CHOOSE k \in Bufs : s[k] = b IN
  [k \in Bufs |-> IF k = 1 THEN b ELSE IF k <= at THEN s[k - 1] ELSE s[k]]

(* ... and, under bcache.lock, the count and the list. *)
Release(p) ==
  LET b == buf[p] IN
  /\ pc[p] = "brelse"
  /\ refcnt' = [refcnt EXCEPT ![b] = @ - 1]
  /\ IF refcnt'[b] = 0
       THEN list' = PutFirst(Unlink(list, b), b) /\ recency' = ToFront(recency, b)
       ELSE UNCHANGED <<list, recency>>
  /\ Goto(p, "user")
  /\ buf' = [buf EXCEPT ![p] = Head]
  /\ UNCHANGED <<blockno, valid, data, owner, disk, pinned, latest>>

Next ==
  \E p \in Procs :
    \/ \E k \in Blocks : BgetHit(p, k) \/ BgetMiss(p, k)
    \/ Lock(p) \/ ReadDone(p) \/ (\E v \in Data : Modify(p, v))
    \/ WriteStart(p) \/ WriteDone(p) \/ Pin(p) \/ Unpin(p)
    \/ Unlock(p) \/ Release(p)

Spec == Init /\ [][Next]_vars

-----------------------------------------------------------------------------
TypeOK ==
  /\ blockno \in [Bufs -> Blocks \cup {NoBlock}] /\ valid \in [Bufs -> BOOLEAN]
  /\ refcnt \in [Bufs -> Nat] /\ data \in [Bufs -> Data]
  /\ owner \in [Bufs -> Procs \cup {Free}]
  /\ list \in [next : [0 .. NBUF -> 0 .. NBUF], prev : [0 .. NBUF -> 0 .. NBUF]]
  /\ disk \in [Blocks -> Data] /\ latest \in [Blocks -> Data]
  /\ pinned \subseteq Bufs
  /\ pc \in [Procs -> {"user", "lock", "reading", "held", "writing", "brelse", "panic"}]
  /\ buf \in [Procs -> Bufs \cup {Head}]
  /\ recency \in [Bufs -> Bufs]

Holds(p) == pc[p] \in {"reading", "held", "writing"}

(* b->refcnt counts the processes between bget() and the end of brelse(),  *)
(* and the pin.                                                            *)
RefcntExact ==
  \A b \in Bufs :
    refcnt[b] = Cardinality({p \in Procs : buf[p] = b}) + (IF b \in pinned THEN 1 ELSE 0)

(* The facts about sleep locks and blocks that make the cache coherent: a  *)
(* process in the middle of its use of a buffer has the sleep lock, a      *)
(* block has at most one buffer, one in use keeps its block, and valid     *)
(* contents are the latest, which only a buffer in use may have alone.     *)
BcacheInv ==
  /\ TypeOK
  /\ RefcntExact
  /\ \A p \in Procs : Holds(p) <=> \E b \in Bufs : owner[b] = p /\ buf[p] = b
  /\ \A b \in Bufs : owner[b] # Free => buf[owner[b]] = b
  /\ \A a, b \in Bufs : blockno[a] = blockno[b] /\ blockno[a] # NoBlock => a = b
  /\ \A p \in Procs : buf[p] # Head => blockno[buf[p]] # NoBlock
  /\ \A b \in pinned : blockno[b] # NoBlock /\ valid[b]

(* A process that holds a buffer sees the last contents given to its       *)
(* block, whoever wrote them and whether or not the buffer was recycled    *)
(* meanwhile: bio.c:4 "cached copies of disk block contents".              *)
NoStaleRead ==
  \A p \in Procs : pc[p] \in {"held", "writing"} => data[buf[p]] = latest[blockno[buf[p]]]

(* What is not in the cache is on the disk: no change is lost when a       *)
(* buffer is recycled.                                                     *)
NothingLost ==
  \A k \in Blocks :
    (\A b \in Bufs : blockno[b] = k => refcnt[b] = 0 \/ ~valid[b]) => disk[k] = latest[k]

(* The list holds every buffer once, in both directions, in the order of   *)
(* their last release: bio.c:31 "Sorted by how recently the buffer was     *)
(* used".                                                                  *)
ListIsLru ==
  /\ Forward = recency
  /\ \A k \in Bufs : Backward[k] = recency[NBUF + 1 - k]

(* bget() finds a buffer as long as the pins leave one for each process,   *)
(* and bwrite() and brelse() are called with the lock held.                *)
NoPanic == Cardinality(Procs) + MaxPins <= NBUF => \A p \in Procs : pc[p] # "panic"
=============================================================================
