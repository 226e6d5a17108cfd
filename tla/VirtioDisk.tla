----------------------------- MODULE VirtioDisk -----------------------------
(***************************************************************************)
(* The virtio disk driver, kernel/virtio_disk.c, and the device it talks   *)
(* to: descriptors, the avail and used rings, the completion interrupt,    *)
(* and the processes that sleep for descriptors or for their request.      *)
(*                                                                         *)
(* A process is in virtio_disk_rw() for its own struct buf and block: the  *)
(* caller holds the buffer's sleep lock and the cache has one buffer per   *)
(* block.  Everything the driver does under vdisk_lock between two sleeps  *)
(* is one action; the interrupt handler holds the lock across several,     *)
(* because the device works on meanwhile.  The ring indices are uint16.    *)
(* Ring entries, command headers and locals are set to a fixed value once  *)
(* they are dead (RingsNotOverrun shows that only live ones are read).     *)
(***************************************************************************)
EXTENDS Integers, FiniteSets, FiniteSetsExt

CONSTANTS Procs, Data,
          NUM,      \* virtio.h: number of descriptors
          MODULUS   \* number of values of a uint16

NoProc == "none"  \* a null struct buf pointer

ASSUME VirtioConstants ==
  /\ NUM \in Nat \ {0} /\ MODULUS \in Nat /\ MODULUS > NUM /\ MODULUS % NUM = 0
  /\ Data # {} /\ NoProc \notin Procs

Descs == 0 .. NUM - 1

VARIABLES
  free,                 \* disk.free[]
  desc,                 \* the descriptors, in memory shared with the device
  ops,                  \* disk.ops[]: what each request asks for
  info,                 \* disk.info[]: the buffer and the status byte
  avail, avail_idx,     \* the avail ring and its index
  used, used_top,       \* the used ring and used->idx, written by the device
  used_idx,             \* disk.used_idx
  onDisk,               \* b->disk, for the buffer of each process
  buf,                  \* b->data
  platter,              \* the device: contents of each block,
  seen, inflight,       \*   how far it has read avail, what it works on,
  isr,                  \*   its interrupt status
  handler,              \* position of virtio_disk_intr()
  pc, write, head,      \* position, argument and idx[0] of each process
  wanted                \* history: what each block was last asked to hold

driver == <<free, desc, ops, info, avail, avail_idx, used_idx, onDisk>>
device == <<used, used_top, platter, seen, inflight, isr>>
vars == <<driver, device, buf, handler, pc, write, head, wanted>>

NoDesc == [addr |-> <<"null", 0>>, write |-> FALSE, more |-> FALSE, next |-> 0]
NoOp == [write |-> FALSE, sector |-> NoProc]

Init ==
  /\ free = [d \in Descs |-> TRUE]
  /\ desc = [d \in Descs |-> NoDesc]
  /\ ops = [d \in Descs |-> NoOp]
  /\ info = [d \in Descs |-> [b |-> NoProc, ok |-> TRUE]]
  /\ avail = [d \in Descs |-> 0] /\ avail_idx = 0
  /\ used = [d \in Descs |-> 0] /\ used_top = 0 /\ used_idx = 0
  /\ onDisk = [p \in Procs |-> FALSE]
  /\ platter \in [Procs -> Data] /\ buf = platter /\ wanted = platter
  /\ seen = 0 /\ inflight = {} /\ isr = FALSE
  /\ handler = "idle"
  /\ pc = [p \in Procs |-> "user"] /\ write = [p \in Procs |-> FALSE]
  /\ head = [p \in Procs |-> 0]

-----------------------------------------------------------------------------
Inc(k) == (k + 1) % MODULUS

FreeDescs == {d \in Descs : free[d]}

(* vdisk_lock; only virtio_disk_intr() keeps it across actions. *)
Unlocked == handler = "idle"

(* wakeup(&disk.free[0]), applied to positions. *)
WakeFree(at) == [q \in Procs |-> IF at[q] = "sleep_free" THEN "alloc" ELSE at[q]]

(* virtio_disk_rw(b, w): called with new contents v to write or, to read,  *)
(* with a recycled buffer that holds anything.                             *)
Call(p, w, v) ==
  /\ pc[p] = "user"
  /\ buf' = [buf EXCEPT ![p] = v]
  /\ write' = [write EXCEPT ![p] = w]
  /\ wanted' = [wanted EXCEPT ![p] = IF w THEN v ELSE @]
  /\ pc' = [pc EXCEPT ![p] = "alloc"]
  /\ UNCHANGED <<driver, device, handler, head>>

(* alloc_desc() takes the first free descriptor: the first three. *)
First == Min(FreeDescs)
Second == Min(FreeDescs \ {First})
Third == Min(FreeDescs \ {First, Second})

(* alloc3_desc() fails: it frees the one or two descriptors it took, which *)
(* clears them and wakes the others that wait, and the process sleeps.     *)
AllocFails(p) ==
  /\ pc[p] = "alloc" /\ Unlocked
  /\ Cardinality(FreeDescs) < 3
  /\ desc' = [d \in Descs |-> IF free[d] THEN NoDesc ELSE desc[d]]
  /\ pc' = [(IF FreeDescs = {} THEN pc ELSE WakeFree(pc)) EXCEPT ![p] = "sleep_free"]
  /\ UNCHANGED <<free, ops, info, avail, avail_idx, used_idx, onDisk, device, buf,
                 handler, write, head, wanted>>

(* The three descriptors of a request of p. *)
Chain(p) ==
  [desc EXCEPT
    ![First] = [addr |-> <<"op", First>>, write |-> FALSE, more |-> TRUE, next |-> Second],
    ![Second] = [addr |-> <<"buf", p>>, write |-> ~write[p], more |-> TRUE, next |-> Third],
    ![Third] = [addr |-> <<"status", First>>, write |-> TRUE, more |-> FALSE, next |-> 0]]

(* A read is sent as a write. *)
Mut_Request(p) == [write |-> TRUE, sector |-> p]

(* The command header of a request of p. *)
Request(p) == [write |-> write[p], sector |-> p]

(* alloc3_desc() succeeds: format the request, put its head on the avail   *)
(* ring, advance the index, and sleep until the interrupt.                 *)
Submit(p) ==
  /\ pc[p] = "alloc" /\ Unlocked
  /\ Cardinality(FreeDescs) >= 3
  /\ free' = [free EXCEPT ![First] = FALSE, ![Second] = FALSE, ![Third] = FALSE]
  /\ desc' = Chain(p)
  /\ ops' = [ops EXCEPT ![First] = Request(p)]
  /\ info' = [info EXCEPT ![First] = [b |-> p, ok |-> FALSE]]
  /\ onDisk' = [onDisk EXCEPT ![p] = TRUE]
  /\ avail' = [avail EXCEPT ![avail_idx % NUM] = First]
  /\ avail_idx' = Inc(avail_idx)
  /\ head' = [head EXCEPT ![p] = First]
  /\ pc' = [pc EXCEPT ![p] = "sleep_b"]
  /\ UNCHANGED <<used_idx, device, buf, handler, write, wanted>>

(* The chain that starts at descriptor h, as free_chain() walks it. *)
ChainOf(h) ==
  {h} \cup (IF ~desc[h].more THEN {}
            ELSE LET m == desc[h].next IN
                 {m} \cup (IF desc[m].more THEN {desc[m].next} ELSE {}))

(* Only the first descriptor is freed. *)
Mut_free_chain(h) ==
  /\ free' = [free EXCEPT ![h] = TRUE]
  /\ desc' = [desc EXCEPT ![h] = NoDesc]

free_chain(h) ==
  /\ free' = [d \in Descs |-> free[d] \/ d \in ChainOf(h)]
  /\ desc' = [d \in Descs |-> IF d \in ChainOf(h) THEN NoDesc ELSE desc[d]]

(* Awakened: while(b->disk == 1) sleep; then free the chain and return. *)
Finish(p) ==
  /\ pc[p] = "check_b" /\ Unlocked
  /\ IF onDisk[p]
       THEN /\ pc' = [pc EXCEPT ![p] = "sleep_b"]
            /\ UNCHANGED <<info, free, desc, ops, head, write>>
       ELSE /\ info' = [info EXCEPT ![head[p]].b = NoProc]
            /\ free_chain(head[p])
            /\ ops' = [ops EXCEPT ![head[p]] = NoOp]
            /\ head' = [head EXCEPT ![p] = 0] /\ write' = [write EXCEPT ![p] = FALSE]
            /\ pc' = [WakeFree(pc) EXCEPT ![p] = "user"]
  /\ UNCHANGED <<avail, avail_idx, used_idx, onDisk, device, buf, handler, wanted>>

-----------------------------------------------------------------------------
(* The device takes the next chain from the avail ring ... *)
DeviceTake ==
  /\ seen # avail_idx
  /\ inflight' = inflight \cup {avail[seen % NUM]}
  /\ seen' = Inc(seen)
  /\ avail' = [avail EXCEPT ![seen % NUM] = 0]
  /\ UNCHANGED <<free, desc, ops, info, avail_idx, used_idx, onDisk, used, used_top,
                 platter, isr, buf, handler, pc, write, head, wanted>>

(* ... carries out the chains it has in any order, following their         *)
(* descriptors, reports each on the used ring and requests an interrupt.   *)
DeviceDo(h) ==
  LET op == ops[desc[h].addr[2]]
      m == desc[desc[h].next]
      b == m.addr[2]
      status == desc[m.next].addr[2]
  IN
  /\ h \in inflight
  /\ inflight' = inflight \ {h}
  /\ IF op.write
       THEN platter' = [platter EXCEPT ![op.sector] = buf[b]] /\ UNCHANGED buf
       ELSE /\ buf' = [buf EXCEPT ![b] = IF m.write THEN platter[op.sector] ELSE @]
            /\ UNCHANGED platter
  /\ info' = [info EXCEPT ![status].ok = TRUE]
  /\ used' = [used EXCEPT ![used_top % NUM] = h]
  /\ used_top' = Inc(used_top)
  /\ isr' = TRUE
  /\ UNCHANGED <<free, desc, ops, avail, avail_idx, used_idx, onDisk, seen, handler,
                 pc, write, head, wanted>>

(* virtio_disk_intr(): take vdisk_lock and acknowledge the interrupt.  The *)
(* PLIC delivers no second one before the handler has returned.            *)
IntrAck ==
  /\ handler = "idle" /\ isr
  /\ isr' = FALSE
  /\ handler' = "loop"
  /\ UNCHANGED <<driver, used, used_top, platter, seen, inflight, buf, pc, write, head, wanted>>

UsedId == used[used_idx % NUM]

NextUsed == Inc(used_idx)

(* One entry of the used ring: b->disk = 0 and wakeup(b). *)
IntrLoop ==
  LET b == info[UsedId].b IN
  /\ handler = "loop" /\ used_idx # used_top
  /\ IF ~info[UsedId].ok \/ b = NoProc
       THEN handler' = "panic" /\ UNCHANGED <<onDisk, pc, used_idx, used>>
       ELSE /\ onDisk' = [onDisk EXCEPT ![b] = FALSE]
            /\ pc' = [pc EXCEPT ![b] = IF @ = "sleep_b" THEN "check_b" ELSE @]
            /\ used_idx' = NextUsed
            /\ used' = [used EXCEPT ![used_idx % NUM] = 0]
            /\ UNCHANGED handler
  /\ UNCHANGED <<free, desc, ops, info, avail, avail_idx, used_top, platter, seen,
                 inflight, isr, buf, write, head, wanted>>

(* The loop is left with entries still on the ring. *)
Mut_IntrDone ==
  /\ handler = "loop"
  /\ handler' = "idle"
  /\ UNCHANGED <<driver, device, buf, pc, write, head, wanted>>

IntrDone ==
  /\ handler = "loop" /\ used_idx = used_top
  /\ handler' = "idle"
  /\ UNCHANGED <<driver, device, buf, pc, write, head, wanted>>

-----------------------------------------------------------------------------
Kernel(p) == AllocFails(p) \/ Submit(p) \/ Finish(p)

Interrupt == IntrAck \/ IntrLoop \/ IntrDone

Next ==
  \/ \E p \in Procs : Kernel(p) \/ \E w \in BOOLEAN, v \in Data : Call(p, w, v)
  \/ DeviceTake \/ (\E h \in Descs : DeviceDo(h))
  \/ Interrupt

Spec == Init /\ [][Next]_vars

-----------------------------------------------------------------------------
Submitted(p) == pc[p] \in {"sleep_b", "check_b"}

TypeOK ==
  /\ free \in [Descs -> BOOLEAN]
  /\ avail \in [Descs -> Descs] /\ used \in [Descs -> Descs]
  /\ {avail_idx, used_top, used_idx, seen} \subseteq 0 .. MODULUS - 1
  /\ inflight \subseteq Descs
  /\ handler \in {"idle", "loop", "panic"} /\ isr \in BOOLEAN
  /\ pc \in [Procs -> {"user", "alloc", "sleep_free", "sleep_b", "check_b"}]
  /\ head \in [Procs -> Descs] /\ write \in [Procs -> BOOLEAN]
  /\ onDisk \in [Procs -> BOOLEAN]
  /\ buf \in [Procs -> Data] /\ platter \in [Procs -> Data]

(* Every descriptor is free or belongs to the chain of exactly one         *)
(* submitted request, which has three: none leaks, none is shared.         *)
DescriptorsAccounted ==
  /\ \A p \in Procs : Submitted(p) => Cardinality(ChainOf(head[p])) = 3
  /\ \A d \in Descs :
       Cardinality({p \in Procs : Submitted(p) /\ d \in ChainOf(head[p])})
         = IF free[d] THEN 0 ELSE 1

(* Ring entries written and not yet read. *)
Outstanding(from, to) == (to - from) % MODULUS

(* No ring entry is overwritten before it is read or read twice, although  *)
(* the indices wrap: a request whose b->disk is set is waiting on the      *)
(* avail ring, in the device or on the used ring, and in one place only.   *)
RingsNotOverrun ==
  Outstanding(seen, avail_idx) + Cardinality(inflight) + Outstanding(used_idx, used_top)
    = Cardinality({p \in Procs : onDisk[p]})

(* virtio_disk_rw() returns only when the transfer is done: the block      *)
(* holds what was last written to it, and so does the buffer.              *)
TransferDone ==
  \A p \in Procs : pc[p] = "user" => platter[p] = wanted[p] /\ buf[p] = wanted[p]

(* The handler meets no failed or forgotten request. *)
NoPanic == handler # "panic"

(* The descriptors and the two rings of the disk hold every request in     *)
(* progress, in one place, so that the interrupt handler meets none that   *)
(* failed or was forgotten.                                                *)
RequestsAccounted == DescriptorsAccounted /\ RingsNotOverrun /\ NoPanic

(* No wakeup is lost: whoever sleeps for descriptors could not have three, *)
(* and whoever sleeps for its request has it still in the device or on the *)
(* used ring, in which case the handler is running or an interrupt is to   *)
(* come, also when the device reports around the acknowledgement of the    *)
(* last interrupt (virtio_disk.c:287-293).                                 *)
SleepersWait ==
  /\ \A p \in Procs : pc[p] = "sleep_free" => Cardinality(FreeDescs) < 3
  /\ \A p \in Procs : pc[p] = "sleep_b" => onDisk[p]
  /\ used_idx # used_top => isr \/ handler = "loop"
=============================================================================
