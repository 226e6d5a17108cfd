---------------------------- MODULE VirtioProofs ----------------------------
(***************************************************************************)
(* The theorems about the disk driver and the device, for any number of    *)
(* processes and descriptors and any width of the ring indices.            *)
(*                                                                         *)
(* The properties are not inductive: that a completion finds its buffer,   *)
(* say, rests on where each request is.  DiskInv adds the shape of the     *)
(* chains, the contents of the two rings between their indices (modulo     *)
(* both the size of the ring and the width of the index), and which        *)
(* requests the device has carried out.                                    *)
(***************************************************************************)
EXTENDS VirtioDisk, FiniteSetTheorems, TLAPS

(* The default prover. *)
USE ZenonT(60)

-----------------------------------------------------------------------------
(* The inductive invariant.  The descriptors first: a submitted request of *)
(* p has a chain of three, filled in as virtio_disk_rw() does; chains of   *)
(* two requests are disjoint, and the other descriptors are free.          *)
Linked(p, h, m, t) ==
  /\ m \in Descs /\ t \in Descs /\ m # h /\ t # h /\ t # m
  /\ desc[h].more /\ desc[h].addr[2] = h
  /\ desc[m].more /\ desc[m].addr[2] = p /\ (desc[m].write <=> ~write[p])
  /\ ~desc[t].more /\ desc[t].addr[2] = h
  /\ ops[h] = Request(p) /\ info[h].b = p

Middle(p) == desc[head[p]].next
Last(p) == desc[Middle(p)].next
ChainRight(p) == Linked(p, head[p], Middle(p), Last(p))

InvChains ==
  /\ \A p \in Procs : Submitted(p) => ChainRight(p)
  /\ \A p, q \in Procs : Submitted(p) /\ Submitted(q) /\ p # q =>
       ChainOf(head[p]) \cap ChainOf(head[q]) = {}
  /\ \A d \in Descs : free[d] <=> \A p \in Procs : Submitted(p) => d \notin ChainOf(head[p])

(* Next, the rings.  Entry i of each, from the first not yet read. *)
NAvail == Outstanding(seen, avail_idx)
NUsed == Outstanding(used_idx, used_top)
AvailAt(i) == avail[(seen + i) % NUM]
UsedAt(i) == used[(used_idx + i) % NUM]

(* h is the head of a request that waits for its interrupt. *)
Active(h) == \E p \in Procs : onDisk[p] /\ head[p] = h

(* The requests on the avail ring, in the device and on the used ring are  *)
(* active and different; the status byte of those on the used ring is set. *)
InvRings ==
  /\ \A h \in inflight : Active(h)
  /\ \A i \in 0 .. NAvail - 1 : Active(AvailAt(i)) /\ AvailAt(i) \notin inflight
  /\ \A i \in 0 .. NUsed - 1 :
       Active(UsedAt(i)) /\ UsedAt(i) \notin inflight /\ info[UsedAt(i)].ok
  /\ \A i, j \in 0 .. NAvail - 1 : AvailAt(i) = AvailAt(j) => i = j
  /\ \A i, j \in 0 .. NUsed - 1 : UsedAt(i) = UsedAt(j) => i = j
  /\ \A i \in 0 .. NAvail - 1, j \in 0 .. NUsed - 1 : AvailAt(i) # UsedAt(j)

(* The device has yet to carry out the request of head h. *)
Pending(h) == h \in inflight \/ \E i \in 0 .. NAvail - 1 : AvailAt(i) = h

(* What a request starts from and what it leaves. *)
Ready(p) == IF write[p] THEN buf[p] = wanted[p] ELSE platter[p] = wanted[p]
Done(p) == platter[p] = wanted[p] /\ buf[p] = wanted[p]

InvData ==
  \A p \in Procs :
    /\ pc[p] = "user" => Done(p)
    /\ pc[p] \in {"alloc", "sleep_free"} => Ready(p)
    /\ Submitted(p) => IF Pending(head[p]) THEN Ready(p) ELSE Done(p)

(* Positions. *)
InvPc ==
  /\ \A p \in Procs : /\ onDisk[p] => Submitted(p)
                      /\ pc[p] = "sleep_b" => onDisk[p]
                      /\ pc[p] = "sleep_free" => Cardinality(FreeDescs) < 3
  /\ handler # "panic"
  /\ used_idx # used_top => isr \/ handler = "loop"

DiskTypes ==
  /\ TypeOK
  /\ desc = [d \in Descs |-> desc[d]]
  /\ ops \in [Descs -> [write : BOOLEAN, sector : Procs \cup {NoProc}]]
  /\ info \in [Descs -> [b : Procs \cup {NoProc}, ok : BOOLEAN]]
  /\ wanted \in [Procs -> Data]

DiskInv == DiskTypes /\ InvChains /\ InvRings /\ RingsNotOverrun /\ InvData /\ InvPc

-----------------------------------------------------------------------------
(* The rings: their indices count modulo MODULUS, their places modulo NUM. *)
R == INSTANCE Rings WITH N <- NUM, M <- MODULUS

(* NUM and the width of the indices fit each other. *)
LEMMA RingIs == R!RingConstants
BY SMTT(60), VirtioConstants DEF R!RingConstants

(* The indices count modulo MODULUS, the rings modulo NUM. *)
LEMMA SlotOf ==
  ASSUME NEW x \in Nat, NEW i \in Nat
  PROVE  /\ (x + i) % NUM \in Descs
         /\ ((x % MODULUS) + i) % NUM = (x + i) % NUM
BY RingIs, R!SlotOf DEF Descs

(* The number of entries between two indices, and how it changes as the    *)
(* indices advance.                                                        *)
LEMMA OutstandingFacts ==
  ASSUME NEW a \in 0 .. MODULUS - 1, NEW b \in 0 .. MODULUS - 1
  PROVE  /\ Outstanding(a, b) \in 0 .. MODULUS - 1
         /\ Outstanding(a, b) = 0 <=> a = b
         /\ Outstanding(a, b) + 1 < MODULUS => Outstanding(a, Inc(b)) = Outstanding(a, b) + 1
         /\ a # b => Outstanding(Inc(a), b) = Outstanding(a, b) - 1
         /\ b % NUM = (a + Outstanding(a, b)) % NUM
BY RingIs, R!DistanceFacts, R!SlotAfter DEF Outstanding, Inc

(* The next index. *)
LEMMA IncIs ==
  ASSUME NEW a \in 0 .. MODULUS - 1
  PROVE  Inc(a) \in 0 .. MODULUS - 1
BY RingIs, R!NextIs DEF Inc

-----------------------------------------------------------------------------
(* Every set of naturals has a least element: Min is defined on it. *)
LEMMA MinIsLeast ==
  ASSUME NEW S \in SUBSET Nat, S # {}
  PROVE  Min(S) \in S /\ \A m \in S : Min(S) <= m
<1> DEFINE Less == OpToRel(<, Nat)
<1>1. PICK n \in S : \A m \in S : <<m, n>> \notin Less
  <2>1. IsWellFoundedOn(Less, Nat)
    BY NatLessThanWellFounded
  <2> HIDE DEF Less
  <2> QED
    BY <2>1, WFMin
<1>2. ASSUME NEW m \in S PROVE n <= m
  <2>1. ~(m < n)
    BY <1>1 DEF OpToRel
  <2> QED
    BY SMTT(60), <2>1
<1> QED
  BY <1>2 DEF Min

(* The same for a set of descriptors, as alloc_desc() searches it. *)
LEMMA LeastDesc ==
  ASSUME NEW S \in SUBSET Descs, S # {}
  PROVE  Min(S) \in S /\ Min(S) \in Descs /\ \A m \in S : Min(S) <= m
<1>1. S \in SUBSET Nat
  BY SMTT(60) DEF Descs
<1> QED
  BY <1>1, MinIsLeast

(* The place of a new entry is not that of one on the ring. *)
LEMMA Push ==
  ASSUME NEW x \in Nat, NEW n \in 0 .. NUM - 1
  PROVE  /\ (x + n) % NUM \in Descs
         /\ \A i \in 0 .. n - 1 : (x + i) % NUM \in Descs /\ (x + i) % NUM # (x + n) % NUM
BY RingIs, R!Push DEF Descs

(* Nor is the place of the first entry that of another. *)
LEMMA Pop ==
  ASSUME NEW x \in Nat, NEW n \in 1 .. NUM
  PROVE  /\ x % NUM \in Descs /\ (x + 0) % NUM = x % NUM
         /\ \A i \in 0 .. n - 2 : /\ (Inc(x) + i) % NUM = (x + (i + 1)) % NUM
                                 /\ (x + (i + 1)) % NUM \in Descs
                                 /\ (x + (i + 1)) % NUM # x % NUM
BY RingIs, R!Pop DEF Descs, Inc

(* Some members of a set of three or more. *)
LEMMA ThreeOf ==
  ASSUME NEW S \in SUBSET Descs, Cardinality(S) >= 3
  PROVE  /\ Min(S) \in S
         /\ Min(S \ {Min(S)}) \in S \ {Min(S)}
         /\ Min(S \ {Min(S), Min(S \ {Min(S)})}) \in S \ {Min(S), Min(S \ {Min(S)})}
<1> DEFINE a == Min(S)
           b == Min(S \ {a})
           T == S \ {a}
           U == S \ {a, b}
<1>1. \A V \in SUBSET Descs : V # {} => Min(V) \in V
  BY LeastDesc
<1>2. IsFiniteSet(S) /\ Cardinality(S) \in Nat
  <2>1. IsFiniteSet(Descs)
    <3>1. 0 \in Int /\ NUM - 1 \in Int
      BY SMTT(60), VirtioConstants
    <3> QED
      BY <3>1, FS_Interval DEF Descs
  <2> QED
    BY <2>1, FS_Subset, FS_CardinalityType
<1>3. S # {}
  BY SMTT(60), FS_EmptySet
<1>4. a \in S
  BY <1>1, <1>3
<1> HIDE DEF a
<1>5. IsFiniteSet(T) /\ Cardinality(T) = Cardinality(S) - 1
  BY <1>2, <1>4, FS_RemoveElement
<1>6. T # {}
  BY SMTT(60), <1>2, <1>5, FS_EmptySet
<1>7. b \in T
  BY <1>1, <1>6
<1> HIDE DEF b
<1>8. U = T \ {b}
  OBVIOUS
<1> HIDE DEF T, U
<1>9. Cardinality(U) = Cardinality(T) - 1
  BY <1>5, <1>7, <1>8, FS_RemoveElement
<1>10. U # {}
  <2>1. Cardinality(U) # 0
    BY SMTT(60), <1>2, <1>5, <1>9
  <2> QED
    BY <2>1, FS_EmptySet
<1>11. Min(U) \in U
  BY <1>1, <1>10 DEF U
<1> QED
  BY <1>4, <1>7, <1>11 DEF a, b, T, U

-----------------------------------------------------------------------------
(* The chain of a request. *)
LEMMA ChainIs ==
  ASSUME DiskTypes, NEW p \in Procs, ChainRight(p)
  PROVE  /\ head[p] \in Descs
         /\ ChainOf(head[p]) = {head[p], Middle(p), Last(p)}
         /\ ChainOf(head[p]) \subseteq Descs
<1>1. head[p] \in Descs
  BY DEF DiskTypes, TypeOK
<1>2. ChainOf(head[p]) = {head[p], Middle(p), Last(p)}
  BY DEF ChainRight, Linked, ChainOf, Middle, Last
<1> QED
  BY <1>1, <1>2 DEF ChainRight, Linked

(* The head of an active request is in use, and is of one request only. *)
LEMMA HeadsFacts ==
  ASSUME DiskInv, NEW p \in Procs, Submitted(p)
  PROVE  /\ ChainRight(p) /\ head[p] \in Descs /\ ~free[head[p]] /\ info[head[p]].b = p
         /\ \A d \in ChainOf(head[p]) : d \in Descs /\ ~free[d]
         /\ \A q \in Procs : Submitted(q) /\ head[q] = head[p] => q = p
<1>1. DiskTypes /\ InvChains
  BY DEF DiskInv
<1>2. \A q \in Procs : Submitted(q) => ChainRight(q)
  BY <1>1 DEF InvChains
<1>3. /\ head[p] \in ChainOf(head[p]) /\ head[p] \in Descs /\ ChainOf(head[p]) \subseteq Descs
      /\ ChainRight(p)
  BY <1>1, <1>2, ChainIs
<1>4. \A d \in ChainOf(head[p]) : d \in Descs /\ ~free[d]
  BY <1>1, <1>3 DEF InvChains
<1>5. \A q \in Procs : Submitted(q) => info[head[q]].b = q
  BY <1>2 DEF ChainRight, Linked
<1> QED
  BY <1>3, <1>4, <1>5

(* Who is active. *)
LEMMA ActiveFacts ==
  ASSUME DiskInv, NEW h, Active(h)
  PROVE  /\ h \in Descs /\ ~free[h]
         /\ \E p \in Procs : onDisk[p] /\ Submitted(p) /\ head[p] = h /\ ChainRight(p)
<1>1. PICK p \in Procs : onDisk[p] /\ head[p] = h
  BY DEF Active
<1>2. Submitted(p)
  BY <1>1 DEF DiskInv, InvPc
<1> QED
  BY <1>1, <1>2, HeadsFacts

(* A step that leaves the chain of q alone. *)
LEMMA ChainKept ==
  ASSUME DiskInv, NEW q \in Procs, Submitted(q), head'[q] = head[q], write'[q] = write[q],
         \A d \in ChainOf(head[q]) :
           desc'[d] = desc[d] /\ ops'[d] = ops[d] /\ info'[d].b = info[d].b
  PROVE  ChainRight(q)' /\ ChainOf(head[q])' = ChainOf(head[q])
<1>1. PICK h, m, t : h = head[q] /\ m = Middle(q) /\ t = Last(q)
  OBVIOUS
<1>2. ChainRight(q)
  BY HeadsFacts
<1>3. ChainOf(head[q]) = {h, m, t}
  BY <1>1, <1>2, ChainIs DEF DiskInv
<1>4. /\ head'[q] = h /\ desc'[h] = desc[h] /\ desc'[m] = desc[m] /\ desc'[t] = desc[t]
      /\ ops'[h] = ops[h] /\ info'[h].b = info[h].b
  BY <1>1, <1>3
<1>5. Middle(q)' = m /\ Last(q)' = t
  BY <1>1, <1>4 DEF Middle, Last
<1>6. Linked(q, h, m, t)
  BY <1>1, <1>2 DEF ChainRight
<1>7. Request(q)' = Request(q)
  BY DEF Request
<1>8. Linked(q, h, m, t)'
  BY <1>4, <1>6, <1>7 DEF Linked
<1>9. ChainRight(q)'
  BY <1>4, <1>5, <1>8 DEF ChainRight
<1>10. desc[h].more /\ desc[h].next = m /\ desc[m].more
  BY <1>1, <1>6 DEF Linked, Middle
<1>11. ChainOf(head[q])' = ChainOf(head[q])
  <2>1. head'[q] = h /\ head[q] = h
    BY <1>1, <1>4
  <2> QED
    BY <1>4, <1>10, <2>1 DEF ChainOf
<1> QED
  BY <1>9, <1>11

(* A step that leaves all chains alone. *)
LEMMA ChainsKept ==
  ASSUME DiskInv, free' = free,
         \A q \in Procs : Submitted(q)' <=> Submitted(q),
         \A q \in Procs : Submitted(q) => head'[q] = head[q] /\ write'[q] = write[q],
         \A d \in Descs : ~free[d] =>
           desc'[d] = desc[d] /\ ops'[d] = ops[d] /\ info'[d].b = info[d].b
  PROVE  InvChains'
<1>1. ASSUME NEW q \in Procs, Submitted(q)
      PROVE  ChainRight(q)' /\ ChainOf(head[q])' = ChainOf(head[q])
  <2>1. \A d \in ChainOf(head[q]) : d \in Descs /\ ~free[d]
    BY <1>1, HeadsFacts
  <2>2. \A d \in ChainOf(head[q]) :
          desc'[d] = desc[d] /\ ops'[d] = ops[d] /\ info'[d].b = info[d].b
    BY <2>1
  <2>3. head'[q] = head[q] /\ write'[q] = write[q]
    BY <1>1
  <2> QED
    BY <1>1, <2>2, <2>3, ChainKept
<1>2. InvChains
  BY DEF DiskInv
<1>3. \A p \in Procs : Submitted(p)' => ChainRight(p)'
  BY <1>1
<1>4. \A p \in Procs : Submitted(p)' => ChainOf(head[p])' = ChainOf(head[p])
  BY <1>1
<1>5. ASSUME NEW p \in Procs, NEW q \in Procs, Submitted(p)', Submitted(q)', p # q
      PROVE  ChainOf(head[p])' \cap ChainOf(head[q])' = {}
  <2>1. ChainOf(head[p]) \cap ChainOf(head[q]) = {}
    BY <1>2, <1>5 DEF InvChains
  <2> QED
    BY <1>4, <1>5, <2>1
<1>6. ASSUME NEW d \in Descs
      PROVE  free'[d] <=> \A p \in Procs : Submitted(p)' => d \notin ChainOf(head[p])'
  <2>1. free[d] <=> \A p \in Procs : Submitted(p) => d \notin ChainOf(head[p])
    BY <1>2 DEF InvChains
  <2> QED
    BY <1>4, <2>1
<1> QED
  BY <1>3, <1>5, <1>6 DEF InvChains

(* A step that leaves the rings and the active requests alone. *)
LEMMA RingsKept ==
  ASSUME DiskInv, UNCHANGED <<avail, avail_idx, used, used_top, used_idx, seen, inflight>>,
         onDisk' = onDisk,
         \A q \in Procs : onDisk[q] => head'[q] = head[q],
         \A d \in Descs : info'[d].ok = info[d].ok
  PROVE  /\ InvRings' /\ RingsNotOverrun'
         /\ \A h : Pending(h)' <=> Pending(h)
<1>1. /\ NAvail' = NAvail /\ NUsed' = NUsed
      /\ \A i : AvailAt(i)' = AvailAt(i) /\ UsedAt(i)' = UsedAt(i)
  BY DEF NAvail, NUsed, AvailAt, UsedAt, Outstanding
<1>2. \A h : Active(h) => Active(h)'
  BY DEF Active
<1>3. \A h : Pending(h)' <=> Pending(h)
  BY <1>1 DEF Pending
<1>4. RingsNotOverrun'
  BY DEF DiskInv, RingsNotOverrun, Outstanding
<1>5. InvRings'
  <2>1. InvRings
    BY DEF DiskInv
  <2>2. \A h \in inflight' : Active(h)'
    BY <1>2, <2>1 DEF InvRings
  <2>3. \A i \in 0 .. NAvail' - 1 : Active(AvailAt(i))' /\ AvailAt(i)' \notin inflight'
    BY <1>1, <1>2, <2>1 DEF InvRings, Active
  <2>4. \A i \in 0 .. NUsed' - 1 :
          Active(UsedAt(i))' /\ UsedAt(i)' \notin inflight' /\ info'[UsedAt(i)'].ok
    <3> SUFFICES ASSUME NEW i \in 0 .. NUsed - 1
                 PROVE  Active(UsedAt(i))' /\ UsedAt(i)' \notin inflight' /\ info'[UsedAt(i)'].ok
      BY <1>1
    <3>1. Active(UsedAt(i)) /\ UsedAt(i) \notin inflight /\ info[UsedAt(i)].ok
      BY <2>1 DEF InvRings
    <3>2. UsedAt(i) \in Descs /\ info'[UsedAt(i)].ok
      BY <3>1, ActiveFacts
    <3> QED
      BY <1>1, <1>2, <3>1, <3>2 DEF Active
  <2>5. \A i, j \in 0 .. NAvail' - 1 : AvailAt(i)' = AvailAt(j)' => i = j
    BY <1>1, <2>1 DEF InvRings
  <2>6. \A i, j \in 0 .. NUsed' - 1 : UsedAt(i)' = UsedAt(j)' => i = j
    BY <1>1, <2>1 DEF InvRings
  <2>7. \A i \in 0 .. NAvail' - 1, j \in 0 .. NUsed' - 1 : AvailAt(i)' # UsedAt(j)'
    BY <1>1, <2>1 DEF InvRings
  <2> QED
    BY <2>2, <2>3, <2>4, <2>5, <2>6, <2>7 DEF InvRings
<1> QED
  BY <1>3, <1>4, <1>5

(* Whatever the device has yet to do is active. *)
LEMMA PendingIsActive ==
  ASSUME DiskInv, NEW h, Pending(h)
  PROVE  Active(h)
BY DEF DiskInv, InvRings, Pending

-----------------------------------------------------------------------------
(* A request is not on the disk while its process is elsewhere. *)
LEMMA Elsewhere ==
  ASSUME DiskInv, NEW p \in Procs, ~Submitted(p)
  PROVE  ~onDisk[p]
BY DEF DiskInv, InvPc

(* The requests of other processes. *)
LEMMA DataKept ==
  ASSUME DiskInv, NEW q \in Procs, \A h : Pending(h)' <=> Pending(h),
         pc'[q] = pc[q], head'[q] = head[q], write'[q] = write[q], buf'[q] = buf[q],
         platter'[q] = platter[q], wanted'[q] = wanted[q]
  PROVE  /\ pc'[q] = "user" => Done(q)'
         /\ pc'[q] \in {"alloc", "sleep_free"} => Ready(q)'
         /\ Submitted(q)' => IF Pending(head[q])' THEN Ready(q)' ELSE Done(q)'
<1>1. /\ pc[q] = "user" => Done(q)
      /\ pc[q] \in {"alloc", "sleep_free"} => Ready(q)
      /\ Submitted(q) => IF Pending(head[q]) THEN Ready(q) ELSE Done(q)
  BY DEF DiskInv, InvData
<1>2. (Done(q)' <=> Done(q)) /\ (Ready(q)' <=> Ready(q)) /\ (Submitted(q)' <=> Submitted(q))
  BY DEF Done, Ready, Submitted
<1>3. Pending(head[q])' <=> Pending(head[q])
  BY DEF Pending
<1> QED
  BY <1>1, <1>2, <1>3

(* virtio_disk_rw() is called. *)
LEMMA CallInv ==
  ASSUME DiskInv, NEW p \in Procs, NEW w \in BOOLEAN, NEW v \in Data, Call(p, w, v)
  PROVE  DiskInv'
<1>1. /\ pc[p] = "user" /\ pc' = [pc EXCEPT ![p] = "alloc"]
      /\ buf' = [buf EXCEPT ![p] = v] /\ write' = [write EXCEPT ![p] = w]
      /\ wanted' = [wanted EXCEPT ![p] = IF w THEN v ELSE @]
      /\ UNCHANGED <<free, desc, ops, info, avail, avail_idx, used_idx, onDisk, used,
                     used_top, platter, seen, inflight, isr, handler, head>>
  BY DEF Call, driver, device
<1>2. DiskTypes /\ TypeOK
  BY DEF DiskInv, DiskTypes
<1>3. /\ pc'[p] = "alloc" /\ buf'[p] = v /\ write'[p] = w
      /\ wanted'[p] = IF w THEN v ELSE wanted[p]
      /\ \A q \in Procs : q # p => /\ pc'[q] = pc[q] /\ buf'[q] = buf[q] /\ write'[q] = write[q]
                                   /\ wanted'[q] = wanted[q]
  BY <1>1, <1>2 DEF TypeOK, DiskTypes
<1>4. DiskTypes'
  BY <1>1, <1>2 DEF DiskTypes, TypeOK
<1>5. ~Submitted(p) /\ ~onDisk[p] /\ \A q \in Procs : Submitted(q)' <=> Submitted(q)
  BY <1>1, <1>3, Elsewhere DEF Submitted
<1>6. InvChains'
  BY <1>1, <1>3, <1>5, ChainsKept
<1>7. InvRings' /\ RingsNotOverrun' /\ \A h : Pending(h)' <=> Pending(h)
  BY <1>1, RingsKept
<1>8. InvData'
  <2>1. Ready(p)'
    <3>1. Done(p)
      BY <1>1 DEF DiskInv, InvData
    <3> QED
      BY <1>1, <1>3, <3>1 DEF Ready, Done
  <2>2. ASSUME NEW q \in Procs, q # p
        PROVE  /\ pc'[q] = "user" => Done(q)'
               /\ pc'[q] \in {"alloc", "sleep_free"} => Ready(q)'
               /\ Submitted(q)' => IF Pending(head[q])' THEN Ready(q)' ELSE Done(q)'
    BY <1>1, <1>3, <1>7, <2>2, DataKept
  <2>3. ~Submitted(p)' /\ pc'[p] # "user"
    BY <1>3, <1>5
  <2> QED
    BY <2>1, <2>2, <2>3 DEF InvData
<1>9. InvPc'
  BY <1>1, <1>3, <1>5 DEF DiskInv, InvPc, FreeDescs
<1> QED
  BY <1>4, <1>6, <1>7, <1>8, <1>9 DEF DiskInv

(* alloc3_desc() fails. *)
LEMMA AllocFailsInv ==
  ASSUME DiskInv, NEW p \in Procs, AllocFails(p)
  PROVE  DiskInv'
<1>1. /\ pc[p] = "alloc" /\ Cardinality(FreeDescs) < 3
      /\ desc' = [d \in Descs |-> IF free[d] THEN NoDesc ELSE desc[d]]
      /\ pc' = [(IF FreeDescs = {} THEN pc ELSE WakeFree(pc)) EXCEPT ![p] = "sleep_free"]
      /\ UNCHANGED <<free, ops, info, avail, avail_idx, used_idx, onDisk, used, used_top,
                     platter, seen, inflight, isr, buf, handler, write, head, wanted>>
  BY DEF AllocFails, device
<1>2. DiskTypes /\ TypeOK
  BY DEF DiskInv, DiskTypes
<1>3. /\ pc'[p] = "sleep_free"
      /\ \A q \in Procs : q # p => \/ pc'[q] = pc[q]
                                   \/ pc[q] = "sleep_free" /\ pc'[q] = "alloc"
      /\ pc' \in [Procs -> {"user", "alloc", "sleep_free", "sleep_b", "check_b"}]
  BY <1>1, <1>2 DEF TypeOK, WakeFree
<1>4. DiskTypes'
  BY <1>1, <1>2, <1>3 DEF DiskTypes, TypeOK
<1>5. \A q \in Procs : Submitted(q)' <=> Submitted(q)
  BY <1>1, <1>3 DEF Submitted
<1>6. InvChains'
  BY <1>1, <1>5, ChainsKept
<1>7. InvRings' /\ RingsNotOverrun' /\ \A h : Pending(h)' <=> Pending(h)
  BY <1>1, RingsKept
<1>8. InvData'
  <2>1. ASSUME NEW q \in Procs, pc'[q] = pc[q]
        PROVE  /\ pc'[q] = "user" => Done(q)'
               /\ pc'[q] \in {"alloc", "sleep_free"} => Ready(q)'
               /\ Submitted(q)' => IF Pending(head[q])' THEN Ready(q)' ELSE Done(q)'
    BY <1>1, <1>7, <2>1, DataKept
  <2>2. ASSUME NEW q \in Procs, pc'[q] # pc[q]
        PROVE  /\ pc'[q] \in {"alloc", "sleep_free"} /\ Ready(q)' /\ ~Submitted(q)'
    <3>1. pc[q] \in {"alloc", "sleep_free"} /\ pc'[q] \in {"alloc", "sleep_free"}
      BY <1>1, <1>3, <2>2
    <3>2. Ready(q)
      BY <3>1 DEF DiskInv, InvData
    <3> QED
      BY <1>1, <3>1, <3>2 DEF Ready, Submitted
  <2> QED
    BY <2>1, <2>2 DEF InvData
<1>9. InvPc'
  BY <1>1, <1>3, <1>5 DEF DiskInv, InvPc, FreeDescs
<1> QED
  BY <1>4, <1>6, <1>7, <1>8, <1>9 DEF DiskInv

(* The interrupt handler takes vdisk_lock, and releases it. *)
LEMMA IntrInv ==
  ASSUME DiskInv, IntrAck \/ IntrDone
  PROVE  DiskInv'
<1>1. /\ UNCHANGED <<free, desc, ops, info, avail, avail_idx, used_idx, onDisk, used, used_top,
                     platter, seen, inflight, buf, pc, write, head, wanted>>
      /\ \/ handler' = "loop" /\ isr' \in BOOLEAN
         \/ handler' = "idle" /\ used_idx = used_top /\ isr' = isr
  BY DEF IntrAck, IntrDone, driver, device
<1>2. DiskTypes /\ TypeOK
  BY DEF DiskInv, DiskTypes
<1>3. DiskTypes'
  BY <1>1, <1>2 DEF DiskTypes, TypeOK
<1>4. \A q \in Procs : Submitted(q)' <=> Submitted(q)
  BY <1>1 DEF Submitted
<1>5. InvChains'
  BY <1>1, <1>4, ChainsKept
<1>6. InvRings' /\ RingsNotOverrun' /\ \A h : Pending(h)' <=> Pending(h)
  BY <1>1, RingsKept
<1>7. InvData'
  BY <1>1, <1>6, DataKept DEF InvData
<1>8. InvPc'
  BY <1>1, <1>4 DEF DiskInv, InvPc, FreeDescs
<1> QED
  BY <1>3, <1>5, <1>6, <1>7, <1>8 DEF DiskInv

-----------------------------------------------------------------------------
(* There are at most NUM active requests: their heads differ. *)
LEMMA OnDiskBound ==
  ASSUME DiskInv, NEW D \in SUBSET Descs, \A p \in Procs : onDisk[p] => head[p] \in D
  PROVE  /\ IsFiniteSet(D) /\ IsFiniteSet({p \in Procs : onDisk[p]})
         /\ Cardinality({p \in Procs : onDisk[p]}) \in Nat
         /\ Cardinality({p \in Procs : onDisk[p]}) <= Cardinality(D)
<1> DEFINE S == {p \in Procs : onDisk[p]}
           f == [p \in S |-> head[p]]
<1>1. \A p \in S : p \in Procs /\ Submitted(p) /\ onDisk[p]
  BY DEF DiskInv, InvPc
<1>2. f \in [S -> D]
  BY <1>1
<1>3. \A p, q \in S : f[p] = f[q] => p = q
  BY <1>1, HeadsFacts
<1>4. f \in Injection(S, D)
  BY <1>2, <1>3 DEF Injection, IsInjective
<1>5. IsFiniteSet(D)
  <2>1. 0 \in Int /\ NUM - 1 \in Int
    BY SMTT(60), VirtioConstants
  <2>2. IsFiniteSet(Descs)
    BY <2>1, FS_Interval DEF Descs
  <2> QED
    BY <2>2, FS_Subset
<1> HIDE DEF f, S
<1>6. IsFiniteSet(S) /\ Cardinality(S) <= Cardinality(D)
  BY <1>4, <1>5, FS_Injection
<1>7. Cardinality(S) \in Nat
  BY <1>6, FS_CardinalityType
<1> QED
  BY <1>5, <1>6, <1>7 DEF S

(* So the rings have room for them. *)
LEMMA RingBounds ==
  ASSUME DiskInv
  PROVE  /\ NAvail \in Nat /\ NUsed \in Nat
         /\ IsFiniteSet(inflight) /\ Cardinality(inflight) \in Nat
         /\ NAvail + Cardinality(inflight) + NUsed <= NUM
         /\ FreeDescs # {} => NAvail + Cardinality(inflight) + NUsed < NUM
<1>1. Cardinality(Descs) = NUM
  <2>1. 0 \in Int /\ NUM - 1 \in Int /\ ~(0 > NUM - 1) /\ (NUM - 1) - 0 + 1 = NUM
    BY SMTT(60), VirtioConstants
  <2> QED
    BY <2>1, FS_Interval DEF Descs
<1>2. \A p \in Procs : onDisk[p] => head[p] \in Descs /\ ~free[head[p]]
  BY HeadsFacts DEF DiskInv, InvPc
<1>3. /\ IsFiniteSet(Descs) /\ Cardinality({p \in Procs : onDisk[p]}) \in Nat
      /\ Cardinality({p \in Procs : onDisk[p]}) <= NUM
  BY <1>1, <1>2, OnDiskBound
<1>4. IsFiniteSet(inflight) /\ Cardinality(inflight) \in Nat
  <2>1. inflight \subseteq Descs
    BY DEF DiskInv, DiskTypes, TypeOK
  <2> QED
    BY <1>3, <2>1, FS_Subset, FS_CardinalityType
<1>5. NAvail + Cardinality(inflight) + NUsed = Cardinality({p \in Procs : onDisk[p]})
  BY DEF DiskInv, RingsNotOverrun, NAvail, NUsed
<1>6. NAvail \in Nat /\ NUsed \in Nat
  <2>1. {avail_idx, used_top, used_idx, seen} \subseteq 0 .. MODULUS - 1
    BY DEF DiskInv, DiskTypes, TypeOK
  <2>2. NAvail \in 0 .. MODULUS - 1 /\ NUsed \in 0 .. MODULUS - 1
    BY <2>1, OutstandingFacts DEF NAvail, NUsed
  <2> QED
    BY SMTT(60), <2>2, VirtioConstants
<1>7. ASSUME FreeDescs # {} PROVE NAvail + Cardinality(inflight) + NUsed < NUM
  <2>1. PICK d \in Descs : free[d]
    BY <1>7 DEF FreeDescs
  <2>2. Cardinality(Descs \ {d}) = NUM - 1
    BY <1>1, <1>3, FS_RemoveElement
  <2>3. Cardinality({p \in Procs : onDisk[p]}) <= NUM - 1
    <3>1. \A p \in Procs : onDisk[p] => head[p] \in Descs \ {d}
      BY <1>2, <2>1
    <3> QED
      BY <2>2, <3>1, OnDiskBound
  <2> QED
    BY SMTT(60), <1>3, <1>5, <2>3, VirtioConstants
<1> QED
  BY <1>3, <1>4, <1>5, <1>6, <1>7

(* A process finds its request done, frees its chain and returns. *)
LEMMA FinishInv ==
  ASSUME DiskInv, NEW p \in Procs, Finish(p)
  PROVE  DiskInv'
<1>1. /\ pc[p] = "check_b"
      /\ UNCHANGED <<avail, avail_idx, used_idx, onDisk, used, used_top, platter, seen,
                     inflight, isr, buf, handler, wanted>>
  BY DEF Finish, device
<1>2. DiskTypes /\ TypeOK /\ Submitted(p)
  BY <1>1 DEF DiskInv, DiskTypes, Submitted
<1>3. CASE onDisk[p]
  <2>1. pc' = [pc EXCEPT ![p] = "sleep_b"] /\ UNCHANGED <<info, free, desc, ops, head, write>>
    BY <1>3 DEF Finish
  <2>2. pc'[p] = "sleep_b" /\ \A q \in Procs : q # p => pc'[q] = pc[q]
    BY <1>2, <2>1 DEF TypeOK
  <2>3. DiskTypes'
    BY <1>1, <1>2, <2>1 DEF DiskTypes, TypeOK
  <2>4. \A q \in Procs : Submitted(q)' <=> Submitted(q)
    BY <1>2, <2>2 DEF Submitted
  <2>5. InvChains'
    BY <2>1, <2>4, ChainsKept
  <2>6. InvRings' /\ RingsNotOverrun' /\ \A h : Pending(h)' <=> Pending(h)
    BY <1>1, <2>1, RingsKept
  <2>7. InvData'
    <3>1. ASSUME NEW q \in Procs, q # p
          PROVE  /\ pc'[q] = "user" => Done(q)'
                 /\ pc'[q] \in {"alloc", "sleep_free"} => Ready(q)'
                 /\ Submitted(q)' => IF Pending(head[q])' THEN Ready(q)' ELSE Done(q)'
      BY <1>1, <2>1, <2>2, <2>6, <3>1, DataKept
    <3>2. IF Pending(head[p])' THEN Ready(p)' ELSE Done(p)'
      <4>1. IF Pending(head[p]) THEN Ready(p) ELSE Done(p)
        BY <1>2 DEF DiskInv, InvData
      <4>2. Pending(head[p])' <=> Pending(head[p])
        BY <2>1, <2>6 DEF Pending
      <4> QED
        BY <1>1, <2>1, <4>1, <4>2 DEF Ready, Done
    <3>3. pc'[p] \notin {"user", "alloc", "sleep_free"}
      BY <2>2
    <3> QED
      BY <3>1, <3>2, <3>3 DEF InvData
  <2>8. InvPc'
    <3>1. InvPc
      BY DEF DiskInv
    <3>2. FreeDescs' = FreeDescs
      BY <2>1 DEF FreeDescs
    <3> QED
      BY <1>1, <1>3, <2>2, <2>4, <3>1, <3>2 DEF InvPc
  <2> QED
    BY <2>3, <2>5, <2>6, <2>7, <2>8 DEF DiskInv
<1>4. CASE ~onDisk[p]
  <2>1. /\ info' = [info EXCEPT ![head[p]].b = NoProc]
        /\ free' = [d \in Descs |-> free[d] \/ d \in ChainOf(head[p])]
        /\ desc' = [d \in Descs |-> IF d \in ChainOf(head[p]) THEN NoDesc ELSE desc[d]]
        /\ ops' = [ops EXCEPT ![head[p]] = NoOp]
        /\ head' = [head EXCEPT ![p] = 0] /\ write' = [write EXCEPT ![p] = FALSE]
        /\ pc' = [WakeFree(pc) EXCEPT ![p] = "user"]
    BY <1>4 DEF Finish, free_chain
  <2>2. /\ pc'[p] = "user"
        /\ \A q \in Procs : q # p => \/ pc'[q] = pc[q] /\ pc'[q] # "sleep_free"
                                     \/ pc[q] = "sleep_free" /\ pc'[q] = "alloc"
        /\ \A q \in Procs : q # p => head'[q] = head[q] /\ write'[q] = write[q]
        /\ pc' \in [Procs -> {"user", "alloc", "sleep_free", "sleep_b", "check_b"}]
    BY <1>2, <2>1 DEF TypeOK, WakeFree
  <2>3. head[p] \in Descs /\ head[p] \in ChainOf(head[p])
    BY <1>2 DEF TypeOK, ChainOf
  <2>4. DiskTypes'
    <3>1. 0 \in Descs
      BY SMTT(60), VirtioConstants DEF Descs
    <3>2. TypeOK'
      BY <1>1, <1>2, <2>1, <2>2, <3>1 DEF TypeOK
    <3>3. info' \in [Descs -> [b : Procs \cup {NoProc}, ok : BOOLEAN]]
      BY <1>2, <2>1, <2>3 DEF DiskTypes
    <3>4. ops' \in [Descs -> [write : BOOLEAN, sector : Procs \cup {NoProc}]]
      BY <1>2, <2>1, <2>3 DEF DiskTypes, NoOp
    <3> QED
      BY <1>1, <1>2, <2>1, <3>2, <3>3, <3>4 DEF DiskTypes
  <2>5. /\ ~Submitted(p)'
        /\ \A q \in Procs : q # p => (Submitted(q)' <=> Submitted(q))
    BY <2>2 DEF Submitted
  <2>6. InvChains'
    <3>1. InvChains
      BY DEF DiskInv
    <3>2. ASSUME NEW q \in Procs, q # p, Submitted(q)
          PROVE  ChainRight(q)' /\ ChainOf(head[q])' = ChainOf(head[q])
      <4>1. ASSUME NEW d \in ChainOf(head[q])
            PROVE  desc'[d] = desc[d] /\ ops'[d] = ops[d] /\ info'[d].b = info[d].b
        <5>1. d \notin ChainOf(head[p]) /\ d # head[p] /\ d \in Descs
          <6>1. ChainOf(head[q]) \cap ChainOf(head[p]) = {}
            BY <1>2, <3>1, <3>2 DEF InvChains
          <6>2. d \in Descs
            BY <3>2, HeadsFacts
          <6> QED
            BY <2>3, <6>1, <6>2
        <5> QED
          BY <1>2, <2>1, <5>1 DEF DiskTypes
      <4> QED
        BY <2>2, <3>2, <4>1, ChainKept
    <3>3. \A q \in Procs : Submitted(q)' => q # p /\ Submitted(q)
      BY <2>5
    <3>4. \A q \in Procs : Submitted(q)' => ChainRight(q)' /\ ChainOf(head[q])' = ChainOf(head[q])
      BY <3>2, <3>3
    <3>5. ASSUME NEW q \in Procs, NEW r \in Procs, Submitted(q)', Submitted(r)', q # r
          PROVE  ChainOf(head[q])' \cap ChainOf(head[r])' = {}
      <4>1. ChainOf(head[q]) \cap ChainOf(head[r]) = {}
        BY <3>1, <3>3, <3>5 DEF InvChains
      <4> QED
        BY <3>4, <3>5, <4>1
    <3>6. ASSUME NEW d \in Descs
          PROVE  free'[d] <=> \A q \in Procs : Submitted(q)' => d \notin ChainOf(head[q])'
      <4>1. free[d] <=> \A q \in Procs : Submitted(q) => d \notin ChainOf(head[q])
        BY <3>1 DEF InvChains
      <4>2. free'[d] <=> free[d] \/ d \in ChainOf(head[p])
        BY <2>1
      <4>3. d \in ChainOf(head[p]) =>
              \A q \in Procs : q # p /\ Submitted(q) => d \notin ChainOf(head[q])
        BY <1>2, <3>1 DEF InvChains
      <4> QED
        BY <2>5, <3>4, <4>1, <4>2, <4>3
    <3> QED
      BY <3>4, <3>5, <3>6 DEF InvChains
  <2>7. InvRings' /\ RingsNotOverrun' /\ \A h : Pending(h)' <=> Pending(h)
    <3>1. \A q \in Procs : onDisk[q] => head'[q] = head[q]
      BY <1>4, <2>2
    <3>2. \A d \in Descs : info'[d].ok = info[d].ok
      BY <1>2, <2>1, <2>3 DEF DiskTypes
    <3> QED
      BY <1>1, <3>1, <3>2, RingsKept
  <2>8. InvData'
    <3>1. ~Pending(head[p])
      <4>1. ~Active(head[p])
        <5>1. \A q \in Procs : Submitted(q) /\ head[q] = head[p] => q = p
          BY <1>2, HeadsFacts
        <5> QED
          BY <1>4, <5>1, ActiveFacts
      <4> QED
        BY <4>1, PendingIsActive
    <3>2. Done(p)
      BY <1>2, <3>1 DEF DiskInv, InvData
    <3>3. Done(p)'
      BY <1>1, <3>2 DEF Done
    <3>4. ASSUME NEW q \in Procs, q # p, pc'[q] = pc[q]
          PROVE  /\ pc'[q] = "user" => Done(q)'
                 /\ pc'[q] \in {"alloc", "sleep_free"} => Ready(q)'
                 /\ Submitted(q)' => IF Pending(head[q])' THEN Ready(q)' ELSE Done(q)'
      BY <1>1, <2>2, <2>7, <3>4, DataKept
    <3>5. ASSUME NEW q \in Procs, q # p, pc'[q] # pc[q]
          PROVE  pc'[q] = "alloc" /\ Ready(q)' /\ ~Submitted(q)'
      <4>1. pc[q] = "sleep_free" /\ pc'[q] = "alloc"
        BY <2>2, <3>5
      <4>2. Ready(q)
        BY <4>1 DEF DiskInv, InvData
      <4> QED
        BY <1>1, <2>2, <3>5, <4>1, <4>2 DEF Ready, Submitted
    <3> QED
      BY <2>2, <2>5, <3>3, <3>4, <3>5 DEF InvData
  <2>9. InvPc'
    <3>1. InvPc
      BY DEF DiskInv
    <3>2. \A q \in Procs : pc'[q] # "sleep_free"
      BY <2>2
    <3>3. \A q \in Procs : onDisk'[q] => Submitted(q)'
      BY <1>1, <1>4, <2>5, <3>1 DEF InvPc
    <3>4. \A q \in Procs : pc'[q] = "sleep_b" => onDisk'[q]
      BY <1>1, <2>2, <3>1 DEF InvPc
    <3> QED
      BY <1>1, <3>1, <3>2, <3>3, <3>4 DEF InvPc
  <2> QED
    BY <2>4, <2>6, <2>7, <2>8, <2>9 DEF DiskInv
<1> QED
  BY <1>3, <1>4

(* A request is formatted and put on the avail ring. *)
LEMMA SubmitInv ==
  ASSUME DiskInv, NEW p \in Procs, Submit(p)
  PROVE  DiskInv'
<1>1. PICK x, y, z : x = First /\ y = Second /\ z = Third
  OBVIOUS
<1>2. /\ pc[p] = "alloc" /\ Cardinality(FreeDescs) >= 3
      /\ free' = [free EXCEPT ![x] = FALSE, ![y] = FALSE, ![z] = FALSE]
      /\ desc' = [desc EXCEPT
           ![x] = [addr |-> <<"op", x>>, write |-> FALSE, more |-> TRUE, next |-> y],
           ![y] = [addr |-> <<"buf", p>>, write |-> ~write[p], more |-> TRUE, next |-> z],
           ![z] = [addr |-> <<"status", x>>, write |-> TRUE, more |-> FALSE, next |-> 0]]
      /\ ops' = [ops EXCEPT ![x] = Request(p)]
      /\ info' = [info EXCEPT ![x] = [b |-> p, ok |-> FALSE]]
      /\ onDisk' = [onDisk EXCEPT ![p] = TRUE]
      /\ avail' = [avail EXCEPT ![avail_idx % NUM] = x]
      /\ avail_idx' = Inc(avail_idx)
      /\ head' = [head EXCEPT ![p] = x]
      /\ pc' = [pc EXCEPT ![p] = "sleep_b"]
      /\ UNCHANGED <<used_idx, used, used_top, platter, seen, inflight, isr, buf, handler,
                     write, wanted>>
  BY <1>1 DEF Submit, Chain, device
<1>3. DiskTypes /\ TypeOK /\ InvChains /\ InvRings /\ InvPc /\ InvData
  BY DEF DiskInv, DiskTypes
<1>4. /\ x \in FreeDescs /\ y \in FreeDescs /\ z \in FreeDescs
      /\ x # y /\ x # z /\ y # z
  <2>1. FreeDescs \in SUBSET Descs
    BY DEF FreeDescs
  <2> QED
    BY <1>1, <1>2, <2>1, ThreeOf DEF First, Second, Third
<1>5. x \in Descs /\ y \in Descs /\ z \in Descs /\ free[x] /\ free[y] /\ free[z]
  BY <1>4 DEF FreeDescs
<1>6. ~Submitted(p) /\ ~onDisk[p]
  BY <1>2, Elsewhere DEF Submitted
<1>7. /\ pc'[p] = "sleep_b" /\ head'[p] = x /\ onDisk'[p] = TRUE
      /\ \A q \in Procs : q # p => /\ pc'[q] = pc[q] /\ head'[q] = head[q]
                                   /\ onDisk'[q] = onDisk[q]
  BY <1>2, <1>3 DEF TypeOK
<1>8. /\ Submitted(p)'
      /\ \A q \in Procs : q # p => (Submitted(q)' <=> Submitted(q))
  BY <1>7 DEF Submitted
<1>9. /\ \A d \in Descs : free'[d] <=> free[d] /\ d \notin {x, y, z}
      /\ \A d \in Descs : d \notin {x, y, z} => desc'[d] = desc[d]
      /\ \A d \in Descs : d # x => ops'[d] = ops[d] /\ info'[d] = info[d]
      /\ ops'[x] = Request(p) /\ info'[x].b = p
  BY <1>2, <1>3, <1>5 DEF DiskTypes, TypeOK
<1>10. /\ desc'[x] = [addr |-> <<"op", x>>, write |-> FALSE, more |-> TRUE, next |-> y]
       /\ desc'[y] = [addr |-> <<"buf", p>>, write |-> ~write[p], more |-> TRUE, next |-> z]
       /\ desc'[z] = [addr |-> <<"status", x>>, write |-> TRUE, more |-> FALSE, next |-> 0]
  BY <1>2, <1>3, <1>4, <1>5 DEF DiskTypes
<1>a. /\ desc'[x].more = TRUE /\ desc'[x].addr[2] = x /\ desc'[x].next = y
      /\ desc'[y].more = TRUE /\ desc'[y].addr[2] = p /\ desc'[y].next = z
      /\ desc'[y].write = ~write[p]
      /\ desc'[z].more = FALSE /\ desc'[z].addr[2] = x
  BY SMTT(60), <1>10
<1>11. DiskTypes'
  <2>1. Inc(avail_idx) \in 0 .. MODULUS - 1 /\ avail_idx % NUM \in Descs
    <3>1. avail_idx \in 0 .. MODULUS - 1 /\ seen \in 0 .. MODULUS - 1
      BY <1>3 DEF TypeOK
    <3>2. avail_idx \in Nat /\ 0 \in Nat /\ avail_idx + 0 = avail_idx
      BY SMTT(60), <3>1, VirtioConstants
    <3>3. (avail_idx + 0) % NUM \in Descs
      BY <3>2, SlotOf
    <3> QED
      BY <3>1, <3>2, <3>3, IncIs
  <2>2. free' \in [Descs -> BOOLEAN] /\ head' \in [Procs -> Descs] /\ avail' \in [Descs -> Descs]
    BY <1>2, <1>3, <1>5, <2>1 DEF TypeOK
  <2>3. TypeOK'
    <3>1. {avail_idx', used_top', used_idx', seen'} \subseteq 0 .. MODULUS - 1
      BY <1>2, <1>3, <2>1 DEF TypeOK
    <3>2. /\ pc' \in [Procs -> {"user", "alloc", "sleep_free", "sleep_b", "check_b"}]
          /\ onDisk' \in [Procs -> BOOLEAN]
      BY <1>2, <1>3 DEF TypeOK
    <3> QED
      BY <1>2, <1>3, <2>2, <3>1, <3>2 DEF TypeOK
  <2>4. Request(p) \in [write : BOOLEAN, sector : Procs \cup {NoProc}]
    BY <1>3 DEF Request, TypeOK
  <2>5. ops' \in [Descs -> [write : BOOLEAN, sector : Procs \cup {NoProc}]]
    BY <1>2, <1>3, <2>4 DEF DiskTypes
  <2>6. info' \in [Descs -> [b : Procs \cup {NoProc}, ok : BOOLEAN]]
    BY <1>2, <1>3 DEF DiskTypes
  <2>7. desc' = [d \in Descs |-> desc'[d]]
    BY <1>2, <1>3 DEF DiskTypes
  <2> QED
    BY <1>2, <1>3, <2>3, <2>5, <2>6, <2>7 DEF DiskTypes
<1>12. InvChains'
  <2>1. ASSUME NEW q \in Procs, q # p, Submitted(q)
        PROVE  /\ ChainRight(q)' /\ ChainOf(head[q])' = ChainOf(head[q])
               /\ x \notin ChainOf(head[q]) /\ y \notin ChainOf(head[q])
               /\ z \notin ChainOf(head[q])
    <3>1. \A d \in ChainOf(head[q]) : d \in Descs /\ ~free[d]
      BY <2>1, HeadsFacts
    <3>2. \A d \in ChainOf(head[q]) :
            desc'[d] = desc[d] /\ ops'[d] = ops[d] /\ info'[d].b = info[d].b
      BY <1>5, <1>9, <3>1
    <3>3. head'[q] = head[q] /\ write'[q] = write[q]
      BY <1>2, <1>7, <2>1
    <3> QED
      BY <1>5, <2>1, <3>1, <3>2, <3>3, ChainKept
  <2>2. Linked(p, x, y, z)'
    <3>1. Request(p)' = Request(p)
      BY <1>2 DEF Request
    <3> QED
      BY <1>2, <1>4, <1>5, <1>9, <1>a, <3>1 DEF Linked
  <2>3. Middle(p)' = y /\ Last(p)' = z
    BY <1>7, <1>a DEF Middle, Last
  <2>4. ChainRight(p)'
    BY <1>7, <2>2, <2>3 DEF ChainRight
  <2>5. ChainOf(head[p])' = {x, y, z}
    BY <1>7, <1>a DEF ChainOf
  <2>6. \A q \in Procs : Submitted(q)' => ChainRight(q)'
    BY <1>8, <2>1, <2>4
  <2>7. ASSUME NEW q \in Procs, NEW r \in Procs, Submitted(q)', Submitted(r)', q # r
        PROVE  ChainOf(head[q])' \cap ChainOf(head[r])' = {}
    <3>1. CASE q = p
      BY <1>8, <2>1, <2>5, <2>7, <3>1
    <3>2. CASE r = p
      BY <1>8, <2>1, <2>5, <2>7, <3>2
    <3>3. CASE q # p /\ r # p
      <4>1. Submitted(q) /\ Submitted(r)
        BY <1>8, <2>7, <3>3
      <4>2. ChainOf(head[q]) \cap ChainOf(head[r]) = {}
        BY <1>3, <2>7, <4>1 DEF InvChains
      <4> QED
        BY <2>1, <3>3, <4>1, <4>2
    <3> QED
      BY <3>1, <3>2, <3>3
  <2>8. ASSUME NEW d \in Descs
        PROVE  free'[d] <=> \A q \in Procs : Submitted(q)' => d \notin ChainOf(head[q])'
    <3>1. free[d] <=> \A q \in Procs : Submitted(q) => d \notin ChainOf(head[q])
      BY <1>3 DEF InvChains
    <3>2. free'[d] <=> free[d] /\ d \notin {x, y, z}
      BY <1>9
    <3>3. \A q \in Procs : Submitted(q)' /\ q # p => ChainOf(head[q])' = ChainOf(head[q])
      BY <1>8, <2>1
    <3> QED
      BY <1>6, <1>8, <2>5, <3>1, <3>2, <3>3
  <2> QED
    BY <2>6, <2>7, <2>8 DEF InvChains
<1>13. PICK n : n = NAvail
  OBVIOUS
<1>14. n \in Nat /\ n \in 0 .. NUM - 1 /\ n + 1 < MODULUS
  <2>1. FreeDescs # {}
    BY <1>4
  <2> QED
    BY SMTT(60), <1>13, <2>1, RingBounds, VirtioConstants
<1>15. /\ NAvail' = n + 1 /\ NUsed' = NUsed
       /\ AvailAt(n)' = x /\ \A i \in 0 .. n - 1 : AvailAt(i)' = AvailAt(i)
       /\ \A i : UsedAt(i)' = UsedAt(i)
  <2>1. avail_idx \in 0 .. MODULUS - 1 /\ seen \in 0 .. MODULUS - 1 /\ avail \in [Descs -> Descs]
    BY <1>3 DEF TypeOK
  <2>2. /\ Outstanding(seen, Inc(avail_idx)) = n + 1
        /\ avail_idx % NUM = (seen + n) % NUM
    BY <1>13, <1>14, <2>1, OutstandingFacts DEF NAvail
  <2>3. seen \in Nat
    BY SMTT(60), <2>1, VirtioConstants
  <2>4. /\ avail'[(seen + n) % NUM] = x
        /\ \A i \in 0 .. n - 1 : avail'[(seen + i) % NUM] = avail[(seen + i) % NUM]
    <3>1. avail' = [avail EXCEPT ![(seen + n) % NUM] = x]
      BY <1>2, <2>2
    <3>2. /\ (seen + n) % NUM \in Descs
          /\ \A i \in 0 .. n - 1 : /\ (seen + i) % NUM \in Descs
                                  /\ (seen + i) % NUM # (seen + n) % NUM
      BY <1>14, <2>3, Push
    <3> QED
      BY <2>1, <3>1, <3>2
  <2> QED
    BY <1>2, <2>2, <2>4 DEF NAvail, NUsed, AvailAt, UsedAt, Outstanding
<1>16. \A h : Active(h) => Active(h)' /\ h # x
  <2>1. \A h : Active(h) => h # x
    BY <1>5, ActiveFacts
  <2>2. \A q \in Procs : onDisk[q] => onDisk'[q] /\ head'[q] = head[q]
    BY <1>6, <1>7
  <2> QED
    BY <2>1, <2>2 DEF Active
<1>17. Active(x)'
  BY <1>7 DEF Active
<1>18. \A i \in 0 .. n : i \in 0 .. n - 1 \/ i = n
  BY SMTT(60), <1>14
<1>19. InvRings'
  <2>0. \A i : i \in 0 .. NAvail' - 1 => i \in 0 .. n
    BY SMTT(60), <1>14, <1>15
  <2>1. \A h \in inflight' : Active(h)' /\ h # x
    BY <1>2, <1>3, <1>16 DEF InvRings
  <2>2. \A i \in 0 .. n - 1 :
          /\ Active(AvailAt(i))' /\ AvailAt(i)' = AvailAt(i)
          /\ AvailAt(i) \notin inflight /\ AvailAt(i) # x
    <3> SUFFICES ASSUME NEW i \in 0 .. n - 1
                 PROVE  /\ Active(AvailAt(i))' /\ AvailAt(i)' = AvailAt(i)
                        /\ AvailAt(i) \notin inflight /\ AvailAt(i) # x
      OBVIOUS
    <3>1. Active(AvailAt(i)) /\ AvailAt(i) \notin inflight
      BY <1>3, <1>13 DEF InvRings
    <3> QED
      BY <1>15, <1>16, <3>1 DEF Active
  <2>3. \A i \in 0 .. NAvail' - 1 : Active(AvailAt(i))' /\ AvailAt(i)' \notin inflight'
    <3>1. Active(AvailAt(n))' /\ AvailAt(n)' \notin inflight'
      BY <1>15, <1>17, <2>1 DEF Active
    <3> QED
      BY <1>2, <1>18, <2>0, <2>2, <3>1
  <2>4. \A i \in 0 .. NUsed' - 1 :
          /\ Active(UsedAt(i))' /\ UsedAt(i)' \notin inflight' /\ info'[UsedAt(i)'].ok
          /\ UsedAt(i)' # x
    <3> SUFFICES ASSUME NEW i \in 0 .. NUsed - 1
                 PROVE  /\ Active(UsedAt(i))' /\ UsedAt(i)' \notin inflight'
                        /\ info'[UsedAt(i)'].ok /\ UsedAt(i)' # x
      BY <1>15
    <3>1. Active(UsedAt(i)) /\ UsedAt(i) \notin inflight /\ info[UsedAt(i)].ok
      BY <1>3 DEF InvRings
    <3>2. UsedAt(i) \in Descs /\ UsedAt(i) # x
      BY <1>16, <3>1, ActiveFacts
    <3>3. info'[UsedAt(i)].ok
      BY <1>9, <3>1, <3>2
    <3> QED
      BY <1>2, <1>15, <1>16, <3>1, <3>2, <3>3 DEF Active
  <2>5. ASSUME NEW i \in 0 .. NAvail' - 1, NEW j \in 0 .. NAvail' - 1, AvailAt(i)' = AvailAt(j)'
        PROVE  i = j
    <3>1. CASE i = n
      BY <1>15, <1>18, <2>0, <2>2, <2>5, <3>1
    <3>2. CASE j = n
      BY <1>15, <1>18, <2>0, <2>2, <2>5, <3>2
    <3>3. CASE i # n /\ j # n
      <4>1. i \in 0 .. n - 1 /\ j \in 0 .. n - 1
        BY <1>18, <2>0, <3>3
      <4>2. AvailAt(i) = AvailAt(j)
        BY <1>15, <2>5, <4>1
      <4> QED
        BY <1>3, <1>13, <4>1, <4>2 DEF InvRings
    <3> QED
      BY <3>1, <3>2, <3>3
  <2>6. \A i, j \in 0 .. NUsed' - 1 : UsedAt(i)' = UsedAt(j)' => i = j
    BY <1>3, <1>15 DEF InvRings
  <2>7. ASSUME NEW i \in 0 .. NAvail' - 1, NEW j \in 0 .. NUsed' - 1 PROVE AvailAt(i)' # UsedAt(j)'
    <3>1. CASE i = n
      BY <1>15, <2>4, <3>1
    <3>2. CASE i # n
      <4>1. i \in 0 .. n - 1
        BY <1>18, <2>0, <3>2
      <4>2. AvailAt(i) # UsedAt(j)
        BY <1>3, <1>13, <1>15, <4>1 DEF InvRings
      <4> QED
        BY <1>15, <4>1, <4>2
    <3> QED
      BY <3>1, <3>2
  <2> QED
    BY <2>1, <2>3, <2>4, <2>5, <2>6, <2>7 DEF InvRings
<1>20. RingsNotOverrun'
  <2> DEFINE S == {q \in Procs : onDisk[q]}
  <2>1. {q \in Procs : onDisk'[q]} = S \cup {p} /\ p \notin S
    BY <1>6, <1>7
  <2>2. IsFiniteSet(S) /\ Cardinality(S) \in Nat
    <3>1. \A q \in Procs : onDisk[q] => head[q] \in Descs
      BY <1>3 DEF TypeOK
    <3> QED
      BY <3>1, OnDiskBound
  <2>3. Cardinality(S \cup {p}) = Cardinality(S) + 1
    BY <2>1, <2>2, FS_AddElement
  <2>4. n + Cardinality(inflight) + NUsed = Cardinality(S)
    BY <1>13 DEF DiskInv, RingsNotOverrun, NAvail, NUsed
  <2>5. (n + 1) + Cardinality(inflight) + NUsed = Cardinality(S) + 1
    BY SMTT(60), <1>14, <2>2, <2>4, RingBounds
  <2>6. NAvail' + Cardinality(inflight') + NUsed' = Cardinality({q \in Procs : onDisk'[q]})
    BY <1>2, <1>15, <2>1, <2>3, <2>5
  <2> QED
    BY <2>6 DEF RingsNotOverrun, NAvail, NUsed
<1>21. InvData'
  <2>1. Pending(head[p])'
    <3>1. n \in 0 .. NAvail' - 1
      BY SMTT(60), <1>14, <1>15
    <3> QED
      BY <1>7, <1>15, <3>1 DEF Pending
  <2>2. Ready(p)'
    BY <1>2, <1>3 DEF InvData, Ready
  <2>3. pc'[p] \notin {"user", "alloc", "sleep_free"}
    BY <1>7
  <2>4. ASSUME NEW q \in Procs, q # p
        PROVE  /\ pc'[q] = "user" => Done(q)'
               /\ pc'[q] \in {"alloc", "sleep_free"} => Ready(q)'
               /\ Submitted(q)' => IF Pending(head[q])' THEN Ready(q)' ELSE Done(q)'
    <3>1. /\ pc[q] = "user" => Done(q)
          /\ pc[q] \in {"alloc", "sleep_free"} => Ready(q)
          /\ Submitted(q) => IF Pending(head[q]) THEN Ready(q) ELSE Done(q)
      BY <1>3 DEF InvData
    <3>2. (Done(q)' <=> Done(q)) /\ (Ready(q)' <=> Ready(q))
      BY <1>2 DEF Done, Ready
    <3>3. ASSUME Submitted(q) PROVE Pending(head[q])' <=> Pending(head[q])
      <4>1. head[q] # x
        BY SMTT(60), <1>5, <3>3, HeadsFacts
      <4>2. \A i \in 0 .. n : AvailAt(i)' = head[q] <=> i \in 0 .. n - 1 /\ AvailAt(i) = head[q]
        <5>1. n \notin 0 .. n - 1
          BY SMTT(60), <1>14
        <5> QED
          BY <1>15, <1>18, <4>1, <5>1
      <4>3. \A i : i \in 0 .. NAvail' - 1 <=> i \in 0 .. n
        BY SMTT(60), <1>14, <1>15
      <4>4. \A i : i \in 0 .. n - 1 => i \in 0 .. n
        BY SMTT(60), <1>14
      <4>5. (\E i \in 0 .. NAvail' - 1 : AvailAt(i)' = head[q])
              <=> \E i \in 0 .. n - 1 : AvailAt(i) = head[q]
        BY <4>2, <4>3, <4>4
      <4> QED
        <5>1. head'[q] = head[q] /\ inflight' = inflight
          BY <1>2, <1>7, <2>4
        <5>2. (\E i \in 0 .. NAvail' - 1 : AvailAt(i)' = head'[q])
                <=> \E i \in 0 .. NAvail - 1 : AvailAt(i) = head[q]
          BY <1>13, <4>5, <5>1
        <5> QED
          BY <5>1, <5>2 DEF Pending
    <3> QED
      BY <1>7, <1>8, <2>4, <3>1, <3>2, <3>3
  <2> QED
    BY <2>1, <2>2, <2>3, <2>4 DEF InvData
<1>22. InvPc'
  <2>1. \A q \in Procs : pc[q] # "sleep_free"
    <3>1. Cardinality(FreeDescs) \in Nat
      <4>1. IsFiniteSet(Descs)
        <5>1. \A q \in Procs : onDisk[q] => head[q] \in Descs
          BY <1>3 DEF TypeOK
        <5> QED
          BY <5>1, OnDiskBound
      <4>2. FreeDescs \in SUBSET Descs
        BY DEF FreeDescs
      <4> QED
        BY <4>1, <4>2, FS_Subset, FS_CardinalityType
    <3>2. ~(Cardinality(FreeDescs) < 3)
      BY SMTT(60), <1>2, <3>1
    <3> QED
      BY <1>3, <3>2 DEF InvPc
  <2>2. \A q \in Procs : pc'[q] # "sleep_free"
    BY <1>7, <2>1
  <2>3. \A q \in Procs : onDisk'[q] => Submitted(q)'
    BY <1>3, <1>7, <1>8 DEF InvPc
  <2>4. \A q \in Procs : pc'[q] = "sleep_b" => onDisk'[q]
    BY <1>3, <1>7 DEF InvPc
  <2> QED
    BY <1>2, <1>3, <2>2, <2>3, <2>4 DEF InvPc
<1> QED
  BY <1>11, <1>12, <1>19, <1>20, <1>21, <1>22 DEF DiskInv

(* The device takes a request from the avail ring. *)
LEMMA DeviceTakeInv ==
  ASSUME DiskInv, DeviceTake
  PROVE  DiskInv'
<1>1. /\ seen # avail_idx /\ inflight' = inflight \cup {avail[seen % NUM]}
      /\ seen' = Inc(seen) /\ avail' = [avail EXCEPT ![seen % NUM] = 0]
      /\ UNCHANGED <<free, desc, ops, info, avail_idx, used_idx, onDisk, used, used_top,
                     platter, isr, buf, handler, pc, write, head, wanted>>
  BY DEF DeviceTake
<1>2. DiskTypes /\ TypeOK /\ InvRings
  BY DEF DiskInv, DiskTypes
<1>3. /\ avail_idx \in 0 .. MODULUS - 1 /\ seen \in 0 .. MODULUS - 1
      /\ avail \in [Descs -> Descs] /\ inflight \subseteq Descs
  BY <1>2 DEF TypeOK
<1>4. PICK n, h : n = NAvail /\ h = avail[seen % NUM]
  OBVIOUS
<1>5. n \in Nat /\ n \in 1 .. NUM /\ 0 \in 0 .. n - 1
  <2>1. n # 0
    BY <1>1, <1>3, <1>4, OutstandingFacts DEF NAvail
  <2> QED
    BY SMTT(60), <1>4, <2>1, RingBounds, VirtioConstants
<1>6. seen \in Nat
  BY SMTT(60), <1>3, VirtioConstants
<1>7. /\ seen % NUM \in Descs /\ AvailAt(0) = h /\ h \in Descs
      /\ \A i \in 0 .. n - 2 : /\ (Inc(seen) + i) % NUM = (seen + (i + 1)) % NUM
                               /\ (seen + (i + 1)) % NUM \in Descs
                               /\ (seen + (i + 1)) % NUM # seen % NUM
  BY SMTT(60), <1>3, <1>4, <1>5, <1>6, Pop DEF AvailAt
<1>8. /\ NAvail' = n - 1 /\ NUsed' = NUsed
      /\ \A i \in 0 .. n - 2 : AvailAt(i)' = AvailAt(i + 1)
      /\ \A i : UsedAt(i)' = UsedAt(i)
  <2>1. Outstanding(Inc(seen), avail_idx) = n - 1
    BY <1>1, <1>3, <1>4, OutstandingFacts DEF NAvail
  <2>2. \A i \in 0 .. n - 2 : AvailAt(i)' = AvailAt(i + 1)
    BY <1>1, <1>3, <1>7 DEF AvailAt
  <2> QED
    BY <1>1, <2>1, <2>2 DEF NAvail, NUsed, UsedAt, Outstanding
<1>9. \A i \in 0 .. NAvail' - 1 : i \in 0 .. n - 2 /\ i + 1 \in 0 .. n - 1 /\ i + 1 # 0 /\ i \in Int
  BY SMTT(60), <1>5, <1>8
<1>10. /\ Active(h) /\ h \notin inflight
       /\ \A i \in 0 .. n - 1 : i # 0 => AvailAt(i) # h
  BY <1>2, <1>4, <1>5, <1>7 DEF InvRings
<1>11. \A g : Active(g)' <=> Active(g)
  BY <1>1 DEF Active
<1>12. DiskTypes'
  <2>1. 0 \in Descs
    BY SMTT(60), VirtioConstants DEF Descs
  <2>2. Inc(seen) \in 0 .. MODULUS - 1
    BY <1>3, IncIs
  <2>3. /\ avail' \in [Descs -> Descs] /\ inflight' \subseteq Descs
        /\ {avail_idx', used_top', used_idx', seen'} \subseteq 0 .. MODULUS - 1
    BY <1>1, <1>2, <1>3, <1>4, <1>7, <2>1, <2>2 DEF TypeOK
  <2>4. TypeOK'
    BY <1>1, <1>2, <2>3 DEF TypeOK
  <2> QED
    BY <1>1, <1>2, <2>4 DEF DiskTypes
<1>13. \A q \in Procs : Submitted(q)' <=> Submitted(q)
  BY <1>1 DEF Submitted
<1>14. InvChains'
  BY <1>1, <1>13, ChainsKept
<1>15. InvRings'
  <2>1. \A g \in inflight' : Active(g)'
    BY <1>1, <1>2, <1>4, <1>10, <1>11 DEF InvRings
  <2>2. \A i \in 0 .. NAvail' - 1 : Active(AvailAt(i))' /\ AvailAt(i)' \notin inflight'
    <3> SUFFICES ASSUME NEW i \in 0 .. NAvail' - 1
                 PROVE  Active(AvailAt(i))' /\ AvailAt(i)' \notin inflight'
      OBVIOUS
    <3>1. Active(AvailAt(i + 1)) /\ AvailAt(i + 1) \notin inflight /\ AvailAt(i + 1) # h
      BY <1>2, <1>4, <1>9, <1>10 DEF InvRings
    <3>2. AvailAt(i)' = AvailAt(i + 1)
      BY <1>8, <1>9
    <3> QED
      BY <1>1, <1>4, <1>11, <3>1, <3>2 DEF Active
  <2>3. \A i \in 0 .. NUsed' - 1 :
          Active(UsedAt(i))' /\ UsedAt(i)' \notin inflight' /\ info'[UsedAt(i)'].ok
    <3> SUFFICES ASSUME NEW i \in 0 .. NUsed - 1
                 PROVE  Active(UsedAt(i))' /\ UsedAt(i)' \notin inflight' /\ info'[UsedAt(i)'].ok
      BY <1>8
    <3>1. /\ Active(UsedAt(i)) /\ UsedAt(i) \notin inflight /\ info[UsedAt(i)].ok
          /\ UsedAt(i) # h
      BY <1>2, <1>4, <1>5, <1>7 DEF InvRings
    <3> QED
      BY <1>1, <1>4, <1>8, <1>11, <3>1 DEF Active
  <2>4. ASSUME NEW i \in 0 .. NAvail' - 1, NEW j \in 0 .. NAvail' - 1, AvailAt(i)' = AvailAt(j)'
        PROVE  i = j
    <3>1. AvailAt(i + 1) = AvailAt(j + 1)
      BY <1>8, <1>9, <2>4
    <3>2. i + 1 = j + 1
      BY <1>2, <1>4, <1>9, <3>1 DEF InvRings
    <3> QED
      BY SMTT(60), <1>9, <3>2
  <2>5. \A i, j \in 0 .. NUsed' - 1 : UsedAt(i)' = UsedAt(j)' => i = j
    BY <1>2, <1>8 DEF InvRings
  <2>6. ASSUME NEW i \in 0 .. NAvail' - 1, NEW j \in 0 .. NUsed' - 1 PROVE AvailAt(i)' # UsedAt(j)'
    <3>1. AvailAt(i + 1) # UsedAt(j)
      BY <1>2, <1>4, <1>8, <1>9 DEF InvRings
    <3> QED
      BY <1>8, <1>9, <3>1
  <2> QED
    BY <2>1, <2>2, <2>3, <2>4, <2>5, <2>6 DEF InvRings
<1>16. RingsNotOverrun'
  <2>1. IsFiniteSet(inflight) /\ Cardinality(inflight) \in Nat /\ NUsed \in Nat
    BY RingBounds
  <2>2. Cardinality(inflight') = Cardinality(inflight) + 1
    BY <1>1, <1>4, <1>10, <2>1, FS_AddElement
  <2>3. n + Cardinality(inflight) + NUsed = Cardinality({q \in Procs : onDisk[q]})
    BY <1>4 DEF DiskInv, RingsNotOverrun, NAvail, NUsed
  <2>4. (n - 1) + (Cardinality(inflight) + 1) + NUsed = n + Cardinality(inflight) + NUsed
    BY SMTT(60), <1>5, <2>1
  <2>5. NAvail' + Cardinality(inflight') + NUsed' = Cardinality({q \in Procs : onDisk'[q]})
    BY <1>1, <1>8, <2>2, <2>3, <2>4
  <2> QED
    BY <2>5 DEF RingsNotOverrun, NAvail, NUsed
<1>17. ASSUME NEW g PROVE Pending(g)' <=> Pending(g)
  <2>1. (\E i \in 0 .. NAvail' - 1 : AvailAt(i)' = g) => \E i \in 0 .. n - 1 : AvailAt(i) = g
    BY <1>8, <1>9
  <2>2. ASSUME NEW i \in 0 .. n - 1, AvailAt(i) = g
        PROVE  g = h \/ \E j \in 0 .. NAvail' - 1 : AvailAt(j)' = g
    <3>1. CASE i = 0
      BY <1>7, <2>2, <3>1
    <3>2. CASE i # 0
      <4>1. i - 1 \in 0 .. NAvail' - 1 /\ i - 1 \in 0 .. n - 2 /\ (i - 1) + 1 = i
        BY SMTT(60), <1>5, <1>8, <3>2
      <4>2. AvailAt(i - 1)' = AvailAt((i - 1) + 1)
        BY <1>8, <4>1
      <4> QED
        BY <2>2, <4>1, <4>2
    <3> QED
      BY <3>1, <3>2
  <2>3. Pending(h)
    BY <1>4, <1>5, <1>7 DEF Pending
  <2> QED
    BY <1>1, <1>4, <2>1, <2>2, <2>3 DEF Pending
<1>18. InvData'
  BY <1>1, <1>17, DataKept DEF InvData
<1>19. InvPc'
  BY <1>1, <1>13 DEF DiskInv, InvPc, FreeDescs
<1> QED
  BY <1>12, <1>14, <1>15, <1>16, <1>18, <1>19 DEF DiskInv

(* The device carries out a request and reports it on the used ring. *)
LEMMA DeviceDoInv ==
  ASSUME DiskInv, NEW h \in Descs, DeviceDo(h)
  PROVE  DiskInv'
<1>1. DiskTypes /\ TypeOK /\ InvRings /\ InvData /\ InvPc
  BY DEF DiskInv, DiskTypes
<1>2. h \in inflight
  BY DEF DeviceDo
<1>3. PICK p \in Procs : onDisk[p] /\ Submitted(p) /\ head[p] = h /\ ChainRight(p)
  BY <1>1, <1>2, ActiveFacts DEF InvRings
<1>4. PICK m, t : m = desc[h].next /\ t = desc[m].next
  OBVIOUS
<1>5. Linked(p, h, m, t)
  BY <1>3, <1>4 DEF ChainRight, Middle, Last
<1>6. /\ ops[desc[h].addr[2]] = Request(p) /\ desc[m].addr[2] = p /\ desc[t].addr[2] = h
      /\ (desc[m].write <=> ~write[p])
  BY <1>5 DEF Linked
<1>7. Request(p).write = write[p] /\ Request(p).sector = p
  BY DEF Request
<1>8. /\ inflight' = inflight \ {h}
      /\ IF write[p] THEN platter' = [platter EXCEPT ![p] = buf[p]] /\ buf' = buf
         ELSE buf' = [buf EXCEPT ![p] = platter[p]] /\ platter' = platter
      /\ info' = [info EXCEPT ![h].ok = TRUE]
      /\ used' = [used EXCEPT ![used_top % NUM] = h] /\ used_top' = Inc(used_top)
      /\ isr' = TRUE
      /\ UNCHANGED <<free, desc, ops, avail, avail_idx, used_idx, onDisk, seen, handler,
                     pc, write, head, wanted>>
  BY SMTT(60), <1>4, <1>6, <1>7 DEF DeviceDo
<1>9. /\ platter' \in [Procs -> Data] /\ buf' \in [Procs -> Data]
      /\ \A q \in Procs : q # p => platter'[q] = platter[q] /\ buf'[q] = buf[q]
      /\ Ready(p) => Done(p)'
  BY <1>1, <1>8 DEF TypeOK, Ready, Done
<1>10. /\ info' \in [Descs -> [b : Procs \cup {NoProc}, ok : BOOLEAN]]
       /\ \A d \in Descs : info'[d].b = info[d].b /\ (info[d].ok => info'[d].ok)
       /\ info'[h].ok
  BY <1>1, <1>8 DEF DiskTypes
<1>11. PICK n : n = NUsed
  OBVIOUS
<1>12. n \in Nat /\ n \in 0 .. NUM - 1 /\ n + 1 < MODULUS
  <2>1. IsFiniteSet(inflight) /\ Cardinality(inflight) \in Nat /\ Cardinality(inflight) # 0
    BY <1>2, RingBounds, FS_EmptySet
  <2> QED
    BY SMTT(60), <1>11, <2>1, RingBounds, VirtioConstants
<1>13. /\ used_idx \in 0 .. MODULUS - 1 /\ used_top \in 0 .. MODULUS - 1
       /\ used \in [Descs -> Descs]
  BY <1>1 DEF TypeOK
<1>14. used_top % NUM = (used_idx + n) % NUM /\ Outstanding(used_idx, Inc(used_top)) = n + 1
  BY <1>11, <1>12, <1>13, OutstandingFacts DEF NUsed
<1>15. used_idx \in Nat
  BY SMTT(60), <1>13, VirtioConstants
<1>16. /\ (used_idx + n) % NUM \in Descs
       /\ \A i \in 0 .. n - 1 : /\ (used_idx + i) % NUM \in Descs
                                /\ (used_idx + i) % NUM # (used_idx + n) % NUM
  BY <1>12, <1>15, Push
<1>17. /\ NAvail' = NAvail /\ NUsed' = n + 1
       /\ UsedAt(n)' = h /\ \A i \in 0 .. n - 1 : UsedAt(i)' = UsedAt(i)
       /\ \A i : AvailAt(i)' = AvailAt(i)
  <2>1. UsedAt(n)' = h /\ \A i \in 0 .. n - 1 : UsedAt(i)' = UsedAt(i)
    BY <1>8, <1>13, <1>14, <1>16 DEF UsedAt
  <2> QED
    BY <1>8, <1>14, <2>1 DEF NAvail, NUsed, AvailAt, Outstanding
<1>18. \A i \in 0 .. NUsed' - 1 : i \in 0 .. n - 1 \/ i = n
  BY SMTT(60), <1>12, <1>17
<1>19. DiskTypes'
  <2>1. Inc(used_top) \in 0 .. MODULUS - 1
    BY <1>13, IncIs
  <2>2. /\ used' \in [Descs -> Descs] /\ inflight' \subseteq Descs
        /\ {avail_idx', used_top', used_idx', seen'} \subseteq 0 .. MODULUS - 1
    BY <1>1, <1>8, <1>13, <1>14, <1>16, <2>1 DEF TypeOK
  <2>3. TypeOK'
    BY <1>1, <1>8, <1>9, <2>2 DEF TypeOK
  <2> QED
    BY <1>1, <1>8, <1>10, <2>3 DEF DiskTypes
<1>20. \A q \in Procs : Submitted(q)' <=> Submitted(q)
  BY <1>8 DEF Submitted
<1>21. InvChains'
  BY <1>8, <1>10, <1>20, ChainsKept
<1>22. \A g : Active(g)' <=> Active(g)
  BY <1>8 DEF Active
<1>23. InvRings'
  <2>1. \A g \in inflight' : Active(g)'
    BY <1>1, <1>8, <1>22 DEF InvRings
  <2>2. \A i \in 0 .. NAvail' - 1 : /\ Active(AvailAt(i))' /\ AvailAt(i)' \notin inflight'
                                    /\ AvailAt(i)' # h
    <3> SUFFICES ASSUME NEW i \in 0 .. NAvail - 1
                 PROVE  /\ Active(AvailAt(i))' /\ AvailAt(i)' \notin inflight'
                        /\ AvailAt(i)' # h
      BY <1>17
    <3>1. Active(AvailAt(i)) /\ AvailAt(i) \notin inflight
      BY <1>1 DEF InvRings
    <3> QED
      BY <1>2, <1>8, <1>17, <1>22, <3>1 DEF Active
  <2>3. \A i \in 0 .. n - 1 : /\ Active(UsedAt(i)) /\ UsedAt(i) \notin inflight'
                              /\ info'[UsedAt(i)].ok /\ UsedAt(i) # h
    <3> SUFFICES ASSUME NEW i \in 0 .. n - 1
                 PROVE  /\ Active(UsedAt(i)) /\ UsedAt(i) \notin inflight'
                        /\ info'[UsedAt(i)].ok /\ UsedAt(i) # h
      OBVIOUS
    <3>1. Active(UsedAt(i)) /\ UsedAt(i) \notin inflight /\ info[UsedAt(i)].ok
      BY <1>1, <1>11 DEF InvRings
    <3>2. UsedAt(i) \in Descs
      BY <3>1, ActiveFacts
    <3> QED
      BY <1>2, <1>8, <1>10, <3>1, <3>2
  <2>4. \A i \in 0 .. NUsed' - 1 :
          Active(UsedAt(i))' /\ UsedAt(i)' \notin inflight' /\ info'[UsedAt(i)'].ok
    <3> SUFFICES ASSUME NEW i \in 0 .. NUsed' - 1
                 PROVE  Active(UsedAt(i))' /\ UsedAt(i)' \notin inflight' /\ info'[UsedAt(i)'].ok
      OBVIOUS
    <3>1. CASE i = n
      <4>1. Active(h)
        BY <1>3 DEF Active
      <4> QED
        BY <1>8, <1>10, <1>17, <1>22, <3>1, <4>1 DEF Active
    <3>2. CASE i \in 0 .. n - 1
      BY SMTT(60), <1>17, <1>22, <2>3, <3>2 DEF Active
    <3> QED
      BY <1>18, <3>1, <3>2
  <2>5. \A i, j \in 0 .. NAvail' - 1 : AvailAt(i)' = AvailAt(j)' => i = j
    BY <1>1, <1>17 DEF InvRings
  <2>6. ASSUME NEW i \in 0 .. NUsed' - 1, NEW j \in 0 .. NUsed' - 1, UsedAt(i)' = UsedAt(j)'
        PROVE  i = j
    <3>1. CASE i = n
      BY <1>17, <1>18, <2>3, <2>6, <3>1
    <3>2. CASE j = n
      BY <1>17, <1>18, <2>3, <2>6, <3>2
    <3>3. CASE i \in 0 .. n - 1 /\ j \in 0 .. n - 1
      <4>1. UsedAt(i) = UsedAt(j)
        BY <1>17, <2>6, <3>3
      <4> QED
        BY <1>1, <1>11, <3>3, <4>1 DEF InvRings
    <3> QED
      BY <1>18, <3>1, <3>2, <3>3
  <2>7. ASSUME NEW i \in 0 .. NAvail' - 1, NEW j \in 0 .. NUsed' - 1 PROVE AvailAt(i)' # UsedAt(j)'
    <3>1. CASE j = n
      BY <1>17, <2>2, <3>1
    <3>2. CASE j \in 0 .. n - 1
      <4>1. AvailAt(i) # UsedAt(j)
        BY <1>1, <1>11, <1>17, <3>2 DEF InvRings
      <4> QED
        BY <1>17, <3>2, <4>1
    <3> QED
      BY <1>18, <3>1, <3>2
  <2> QED
    BY <2>1, <2>2, <2>4, <2>5, <2>6, <2>7 DEF InvRings
<1>24. RingsNotOverrun'
  <2>1. IsFiniteSet(inflight) /\ Cardinality(inflight) \in Nat /\ NAvail \in Nat
    BY RingBounds
  <2>2. Cardinality(inflight') = Cardinality(inflight) - 1
    BY <1>2, <1>8, <2>1, FS_RemoveElement
  <2>3. NAvail + Cardinality(inflight) + n = Cardinality({q \in Procs : onDisk[q]})
    BY <1>11 DEF DiskInv, RingsNotOverrun, NAvail, NUsed
  <2>4. NAvail + (Cardinality(inflight) - 1) + (n + 1) = NAvail + Cardinality(inflight) + n
    BY SMTT(60), <1>12, <2>1
  <2>5. NAvail' + Cardinality(inflight') + NUsed' = Cardinality({q \in Procs : onDisk'[q]})
    BY <1>8, <1>17, <2>2, <2>3, <2>4
  <2> QED
    BY <2>5 DEF RingsNotOverrun, NAvail, NUsed
<1>25. \A g : Pending(g)' <=> Pending(g) /\ g # h
  <2>1. \A i \in 0 .. NAvail - 1 : AvailAt(i) # h
    BY <1>1, <1>2 DEF InvRings
  <2> QED
    BY <1>2, <1>8, <1>17, <2>1 DEF Pending
<1>26. InvData'
  <2>1. Done(p)'
    <3>1. Pending(head[p])
      BY <1>2, <1>3 DEF Pending
    <3>2. Ready(p)
      BY <1>1, <1>3, <3>1 DEF InvData
    <3> QED
      BY <1>9, <3>2
  <2>2. ~Pending(head[p])'
    BY <1>3, <1>8, <1>25 DEF Pending
  <2>3. ASSUME NEW q \in Procs, q # p
        PROVE  /\ pc'[q] = "user" => Done(q)'
               /\ pc'[q] \in {"alloc", "sleep_free"} => Ready(q)'
               /\ Submitted(q)' => IF Pending(head[q])' THEN Ready(q)' ELSE Done(q)'
    <3>1. /\ pc[q] = "user" => Done(q)
          /\ pc[q] \in {"alloc", "sleep_free"} => Ready(q)
          /\ Submitted(q) => IF Pending(head[q]) THEN Ready(q) ELSE Done(q)
      BY <1>1 DEF InvData
    <3>2. (Done(q)' <=> Done(q)) /\ (Ready(q)' <=> Ready(q))
      BY <1>8, <1>9, <2>3 DEF Done, Ready
    <3>3. ASSUME Submitted(q) PROVE Pending(head[q])' <=> Pending(head[q])
      <4>1. head[q] # h
        BY <1>3, <2>3, <3>3, HeadsFacts
      <4> QED
        BY <1>8, <1>25, <4>1 DEF Pending
    <3> QED
      BY <1>8, <1>20, <3>1, <3>2, <3>3
  <2>4. pc'[p] \notin {"user", "alloc", "sleep_free"}
    BY <1>3, <1>8 DEF Submitted
  <2> QED
    BY <2>1, <2>2, <2>3, <2>4 DEF InvData
<1>27. InvPc'
  BY <1>1, <1>8, <1>20 DEF InvPc, FreeDescs
<1> QED
  BY <1>19, <1>21, <1>23, <1>24, <1>26, <1>27 DEF DiskInv

(* The interrupt handler takes an entry from the used ring. *)
LEMMA IntrLoopInv ==
  ASSUME DiskInv, IntrLoop
  PROVE  DiskInv'
<1>1. DiskTypes /\ TypeOK /\ InvRings /\ InvData /\ InvPc
  BY DEF DiskInv, DiskTypes
<1>2. /\ used_idx \in 0 .. MODULUS - 1 /\ used_top \in 0 .. MODULUS - 1
      /\ used \in [Descs -> Descs]
  BY <1>1 DEF TypeOK
<1>3. handler = "loop" /\ used_idx # used_top
  BY DEF IntrLoop
<1>4. PICK n, h : n = NUsed /\ h = used[used_idx % NUM]
  OBVIOUS
<1>5. n \in Nat /\ n \in 1 .. NUM /\ 0 \in 0 .. n - 1
  <2>1. n # 0
    BY <1>2, <1>3, <1>4, OutstandingFacts DEF NUsed
  <2> QED
    BY SMTT(60), <1>4, <2>1, RingBounds, VirtioConstants
<1>6. used_idx \in Nat
  BY SMTT(60), <1>2, VirtioConstants
<1>7. /\ used_idx % NUM \in Descs /\ UsedAt(0) = h /\ h \in Descs
      /\ \A i \in 0 .. n - 2 : /\ (Inc(used_idx) + i) % NUM = (used_idx + (i + 1)) % NUM
                               /\ (used_idx + (i + 1)) % NUM \in Descs
                               /\ (used_idx + (i + 1)) % NUM # used_idx % NUM
  BY <1>2, <1>4, <1>5, <1>6, Pop DEF UsedAt
<1>8. /\ Active(h) /\ h \notin inflight /\ info[h].ok
      /\ \A i \in 0 .. n - 1 : i # 0 => UsedAt(i) # h
  BY <1>1, <1>4, <1>5, <1>7 DEF InvRings
<1>9. PICK p \in Procs : onDisk[p] /\ Submitted(p) /\ head[p] = h /\ ChainRight(p)
  BY <1>8, ActiveFacts
<1>10. info[h].b = p /\ p # NoProc
  BY <1>9, VirtioConstants DEF ChainRight, Linked
<1>11. /\ onDisk' = [onDisk EXCEPT ![p] = FALSE]
       /\ pc' = [pc EXCEPT ![p] = IF @ = "sleep_b" THEN "check_b" ELSE @]
       /\ used_idx' = Inc(used_idx) /\ used' = [used EXCEPT ![used_idx % NUM] = 0]
       /\ UNCHANGED <<handler, free, desc, ops, info, avail, avail_idx, used_top, platter,
                      seen, inflight, isr, buf, write, head, wanted>>
  BY <1>4, <1>8, <1>10 DEF IntrLoop, UsedId, NextUsed
<1>12. /\ pc'[p] = "check_b" /\ ~onDisk'[p]
       /\ \A q \in Procs : q # p => pc'[q] = pc[q] /\ onDisk'[q] = onDisk[q]
       /\ pc' \in [Procs -> {"user", "alloc", "sleep_free", "sleep_b", "check_b"}]
       /\ onDisk' \in [Procs -> BOOLEAN]
  BY <1>1, <1>9, <1>11 DEF TypeOK, Submitted
<1>13. /\ NUsed' = n - 1 /\ NAvail' = NAvail
       /\ \A i \in 0 .. n - 2 : UsedAt(i)' = UsedAt(i + 1)
       /\ \A i : AvailAt(i)' = AvailAt(i)
  <2>1. Outstanding(Inc(used_idx), used_top) = n - 1
    BY <1>2, <1>3, <1>4, OutstandingFacts DEF NUsed
  <2>2. \A i \in 0 .. n - 2 : UsedAt(i)' = UsedAt(i + 1)
    BY <1>2, <1>7, <1>11 DEF UsedAt
  <2> QED
    BY <1>11, <2>1, <2>2 DEF NAvail, NUsed, AvailAt, Outstanding
<1>14. \A i \in 0 .. NUsed' - 1 : i \in 0 .. n - 2 /\ i + 1 \in 0 .. n - 1 /\ i + 1 # 0 /\ i \in Int
  BY SMTT(60), <1>5, <1>13
<1>15. DiskTypes'
  <2>1. 0 \in Descs
    BY SMTT(60), VirtioConstants DEF Descs
  <2>2. Inc(used_idx) \in 0 .. MODULUS - 1
    BY <1>2, IncIs
  <2>3. /\ used' \in [Descs -> Descs]
        /\ {avail_idx', used_top', used_idx', seen'} \subseteq 0 .. MODULUS - 1
    BY <1>1, <1>2, <1>11, <2>1, <2>2 DEF TypeOK
  <2>4. TypeOK'
    BY <1>1, <1>11, <1>12, <2>3 DEF TypeOK
  <2> QED
    BY <1>1, <1>11, <2>4 DEF DiskTypes
<1>16. \A q \in Procs : Submitted(q)' <=> Submitted(q)
  BY <1>9, <1>12 DEF Submitted
<1>17. InvChains'
  BY <1>11, <1>16, ChainsKept
<1>18. ASSUME NEW g, Active(g), g # h PROVE Active(g)'
  BY <1>9, <1>11, <1>12, <1>18 DEF Active
<1>19. InvRings'
  <2>1. \A g \in inflight' : Active(g)'
    BY <1>1, <1>8, <1>11, <1>18 DEF InvRings
  <2>2. \A i \in 0 .. NAvail' - 1 : Active(AvailAt(i))' /\ AvailAt(i)' \notin inflight'
    <3> SUFFICES ASSUME NEW i \in 0 .. NAvail - 1
                 PROVE  Active(AvailAt(i))' /\ AvailAt(i)' \notin inflight'
      BY <1>13
    <3>1. Active(AvailAt(i)) /\ AvailAt(i) \notin inflight /\ AvailAt(i) # h
      BY <1>1, <1>4, <1>5, <1>7 DEF InvRings
    <3>2. PICK g : g = AvailAt(i)
      OBVIOUS
    <3>3. Active(g)'
      BY <1>18, <3>1, <3>2
    <3> QED
      BY <1>11, <1>13, <3>1, <3>2, <3>3 DEF Active
  <2>3. \A i \in 0 .. NUsed' - 1 :
          Active(UsedAt(i))' /\ UsedAt(i)' \notin inflight' /\ info'[UsedAt(i)'].ok
    <3> SUFFICES ASSUME NEW i \in 0 .. NUsed' - 1
                 PROVE  Active(UsedAt(i))' /\ UsedAt(i)' \notin inflight' /\ info'[UsedAt(i)'].ok
      OBVIOUS
    <3>1. PICK g : g = UsedAt(i + 1)
      OBVIOUS
    <3>2. Active(g) /\ g \notin inflight /\ info[g].ok /\ g # h
      BY <1>1, <1>4, <1>8, <1>14, <3>1 DEF InvRings
    <3>3. UsedAt(i)' = g
      BY <1>13, <1>14, <3>1
    <3>4. Active(g)'
      BY <1>18, <3>2
    <3> QED
      BY <1>11, <3>2, <3>3, <3>4 DEF Active
  <2>4. \A i, j \in 0 .. NAvail' - 1 : AvailAt(i)' = AvailAt(j)' => i = j
    BY <1>1, <1>13 DEF InvRings
  <2>5. ASSUME NEW i \in 0 .. NUsed' - 1, NEW j \in 0 .. NUsed' - 1, UsedAt(i)' = UsedAt(j)'
        PROVE  i = j
    <3>1. UsedAt(i + 1) = UsedAt(j + 1)
      BY <1>13, <1>14, <2>5
    <3>2. i + 1 = j + 1
      BY <1>1, <1>4, <1>14, <3>1 DEF InvRings
    <3> QED
      BY SMTT(60), <1>14, <3>2
  <2>6. ASSUME NEW i \in 0 .. NAvail' - 1, NEW j \in 0 .. NUsed' - 1 PROVE AvailAt(i)' # UsedAt(j)'
    <3>1. AvailAt(i) # UsedAt(j + 1)
      BY <1>1, <1>4, <1>13, <1>14 DEF InvRings
    <3> QED
      BY <1>13, <1>14, <3>1
  <2> QED
    BY <2>1, <2>2, <2>3, <2>4, <2>5, <2>6 DEF InvRings
<1>20. RingsNotOverrun'
  <2> DEFINE S == {q \in Procs : onDisk[q]}
  <2>1. NAvail \in Nat /\ Cardinality(inflight) \in Nat
    BY RingBounds
  <2>2. IsFiniteSet(S) /\ p \in S
    <3>1. \A q \in Procs : onDisk[q] => head[q] \in Descs
      BY <1>1 DEF TypeOK
    <3> QED
      BY <1>9, <3>1, OnDiskBound
  <2>3. {q \in Procs : onDisk'[q]} = S \ {p}
    BY <1>12
  <2> HIDE DEF S
  <2>4. Cardinality(S \ {p}) = Cardinality(S) - 1
    BY <2>2, FS_RemoveElement
  <2>5. NAvail + Cardinality(inflight) + n = Cardinality(S)
    BY <1>4 DEF DiskInv, RingsNotOverrun, NAvail, NUsed, S
  <2>6. NAvail + Cardinality(inflight) + (n - 1) = (NAvail + Cardinality(inflight) + n) - 1
    BY SMTT(60), <1>5, <2>1
  <2>7. NAvail' + Cardinality(inflight') + NUsed' = Cardinality({q \in Procs : onDisk'[q]})
    BY <1>11, <1>13, <2>3, <2>4, <2>5, <2>6
  <2> QED
    BY <2>7 DEF RingsNotOverrun, NAvail, NUsed
<1>21. \A g : Pending(g)' <=> Pending(g)
  BY <1>11, <1>13 DEF Pending
<1>22. InvData'
  <2>1. ASSUME NEW q \in Procs, q # p
        PROVE  /\ pc'[q] = "user" => Done(q)'
               /\ pc'[q] \in {"alloc", "sleep_free"} => Ready(q)'
               /\ Submitted(q)' => IF Pending(head[q])' THEN Ready(q)' ELSE Done(q)'
    BY <1>11, <1>12, <1>21, <2>1, DataKept
  <2>2. IF Pending(head[p])' THEN Ready(p)' ELSE Done(p)'
    <3>1. IF Pending(head[p]) THEN Ready(p) ELSE Done(p)
      BY <1>1, <1>9 DEF InvData
    <3>2. Pending(head[p])' <=> Pending(head[p])
      BY <1>11, <1>21 DEF Pending
    <3> QED
      BY <1>11, <3>1, <3>2 DEF Ready, Done
  <2>3. pc'[p] \notin {"user", "alloc", "sleep_free"}
    BY <1>12
  <2> QED
    BY <2>1, <2>2, <2>3 DEF InvData
<1>23. InvPc'
  <2>1. FreeDescs' = FreeDescs
    BY <1>11 DEF FreeDescs
  <2> QED
    BY <1>1, <1>3, <1>11, <1>12, <1>16, <2>1 DEF InvPc
<1> QED
  BY <1>15, <1>17, <1>19, <1>20, <1>22, <1>23 DEF DiskInv

-----------------------------------------------------------------------------
(* Initially no request is in progress. *)
LEMMA InitInv ==
  ASSUME Init
  PROVE  DiskInv
<1>1. 0 \in Descs /\ 0 \in 0 .. MODULUS - 1 /\ (0 - 0) % MODULUS = 0 /\ 0 .. 0 - 1 = {}
  <2>1. 0 \in Int /\ MODULUS \in Nat /\ MODULUS > 0 /\ 0 - 0 = 0
    BY SMTT(60), VirtioConstants
  <2>2. 0 % MODULUS = 0
    BY SMTT(60), <2>1
  <2>3. 0 \in Descs /\ 0 \in 0 .. MODULUS - 1 /\ 0 .. 0 - 1 = {}
    BY SMTT(60), VirtioConstants DEF Descs
  <2> QED
    BY <2>1, <2>2, <2>3
<1>2. TypeOK
  BY <1>1 DEF Init, TypeOK
<1>3. DiskTypes
  BY <1>2 DEF Init, DiskTypes, NoOp
<1>4. \A p \in Procs : pc[p] = "user" /\ ~onDisk[p] /\ ~Submitted(p)
  BY DEF Init, Submitted
<1>5. InvChains
  BY <1>4 DEF Init, InvChains
<1>6. NAvail = 0 /\ NUsed = 0
  BY <1>1 DEF Init, NAvail, NUsed, Outstanding
<1>7. InvRings
  BY <1>1, <1>6 DEF Init, InvRings
<1>8. RingsNotOverrun
  <2>1. {p \in Procs : onDisk[p]} = {} /\ inflight = {}
    BY <1>4 DEF Init
  <2>2. Cardinality({p \in Procs : onDisk[p]}) = 0 /\ Cardinality(inflight) = 0
    BY <2>1, FS_EmptySet
  <2>3. NAvail + Cardinality(inflight) + NUsed = 0
    BY SMTT(60), <1>6, <2>2
  <2> QED
    BY <2>2, <2>3 DEF RingsNotOverrun, NAvail, NUsed
<1>9. InvData
  BY <1>4 DEF Init, InvData, Done
<1>10. InvPc
  BY <1>4 DEF Init, InvPc
<1> QED
  BY <1>3, <1>5, <1>7, <1>8, <1>9, <1>10 DEF DiskInv

(* Every step of the driver and of the device keeps the invariant. *)
LEMMA NextInv ==
  ASSUME DiskInv, [Next]_vars
  PROVE  DiskInv'
<1>1. ASSUME NEW p \in Procs, Kernel(p) PROVE DiskInv'
  BY <1>1, AllocFailsInv, SubmitInv, FinishInv DEF Kernel
<1>2. CASE Interrupt
  BY <1>2, IntrInv, IntrLoopInv DEF Interrupt
<1>3. CASE UNCHANGED vars
  <2>1. /\ UNCHANGED <<free, desc, ops, info, avail, avail_idx, used_idx, onDisk, used>>
        /\ UNCHANGED <<used_top, platter, seen, inflight, isr, buf, handler, pc, write>>
        /\ UNCHANGED <<head, wanted>>
    BY <1>3 DEF vars, driver, device
  <2>2. \A q \in Procs : Submitted(q)' <=> Submitted(q)
    BY <2>1 DEF Submitted
  <2>3. InvChains'
    BY <2>1, <2>2, ChainsKept
  <2>4. InvRings' /\ RingsNotOverrun' /\ \A h : Pending(h)' <=> Pending(h)
    BY <2>1, RingsKept
  <2>5. InvData'
    BY <2>1, <2>4, DataKept DEF InvData
  <2>6. DiskTypes' /\ InvPc'
    BY <2>1, <2>2 DEF DiskInv, DiskTypes, TypeOK, InvPc, FreeDescs
  <2> QED
    BY <2>3, <2>4, <2>5, <2>6 DEF DiskInv
<1> QED
  BY <1>1, <1>2, <1>3, CallInv, DeviceTakeInv, DeviceDoInv DEF Next

(* The inductive invariant holds in every reachable state. *)
THEOREM DiskInvariant == Spec => []DiskInv
BY InitInv, NextInv, PTL DEF Spec

(* A set with one element more. *)
LEMMA OneMore ==
  ASSUME NEW S, IsFiniteSet(S), NEW x, x \notin S
  PROVE  IsFiniteSet(S \cup {x}) /\ Cardinality(S \cup {x}) = Cardinality(S) + 1
BY FS_AddElement

(* Every descriptor is free or belongs to the chain of one submitted       *)
(* request, which has three; every request whose b->disk is set is in one  *)
(* place; and virtio_disk_intr() does not panic.                           *)
THEOREM RequestsAreAccounted == Spec => []RequestsAccounted
<1>1. DiskInv => RequestsAccounted
  <2> SUFFICES ASSUME DiskInv PROVE RequestsAccounted
    OBVIOUS
  <2>1. DiskTypes /\ InvChains /\ TypeOK
    BY DEF DiskInv, DiskTypes
  <2>2. ASSUME NEW p \in Procs, Submitted(p) PROVE Cardinality(ChainOf(head[p])) = 3
    <3>1. PICK h, m, t : h = head[p] /\ m = Middle(p) /\ t = Last(p)
      OBVIOUS
    <3>2. ChainRight(p)
      BY <2>2, HeadsFacts
    <3>3. m # h /\ t # h /\ t # m /\ ChainOf(head[p]) = {h, m, t}
      BY <2>1, <3>1, <3>2, ChainIs DEF ChainRight, Linked
    <3>4. IsFiniteSet({h}) /\ Cardinality({h}) = 1
      BY FS_Singleton
    <3>5. IsFiniteSet({h, m}) /\ Cardinality({h, m}) = 1 + 1
      <4>1. {h, m} = {h} \cup {m} /\ m \notin {h}
        BY <3>3
      <4> QED
        BY <3>4, <4>1, OneMore
    <3>6. Cardinality({h, m, t}) = (1 + 1) + 1
      <4>1. {h, m, t} = {h, m} \cup {t} /\ t \notin {h, m}
        BY <3>3
      <4> QED
        BY <3>5, <4>1, OneMore
    <3> QED
      BY SMTT(60), <3>3, <3>6
  <2>3. ASSUME NEW d \in Descs
        PROVE  Cardinality({p \in Procs : Submitted(p) /\ d \in ChainOf(head[p])})
                 = IF free[d] THEN 0 ELSE 1
    <3> DEFINE O == {p \in Procs : Submitted(p) /\ d \in ChainOf(head[p])}
    <3>1. CASE free[d]
      <4>1. O = {}
        BY <2>1, <3>1 DEF InvChains
      <4> QED
        BY <3>1, <4>1, FS_EmptySet
    <3>2. CASE ~free[d]
      <4>1. PICK p \in O : TRUE
        BY <2>1, <3>2 DEF InvChains
      <4>2. \A q \in O : q = p
        BY <2>1, <4>1 DEF InvChains
      <4>3. O = {p}
        BY <4>1, <4>2
      <4> QED
        BY <3>2, <4>3, FS_Singleton
    <3> QED
      BY <3>1, <3>2
  <2>4. DescriptorsAccounted
    BY <2>2, <2>3 DEF DescriptorsAccounted
  <2> QED
    BY <2>4 DEF RequestsAccounted, DiskInv, InvPc, NoPanic
<1> QED
  BY <1>1, DiskInvariant, PTL

(* virtio_disk_rw() returns only when the transfer is done: block and      *)
(* buffer hold what was last written to the block.                         *)
THEOREM TransfersAreDone == Spec => []TransferDone
<1>1. DiskInv => TransferDone
  BY DEF DiskInv, InvData, Done, TransferDone
<1> QED
  BY <1>1, DiskInvariant, PTL

(* No wakeup of virtio_disk.c is lost: a process that sleeps for           *)
(* descriptors could not have three, one that sleeps for its request has   *)
(* it still under way, and a used entry is met by the running handler or   *)
(* by an interrupt to come.                                                *)
THEOREM SleepersAreServed == Spec => []SleepersWait
<1>1. DiskInv => SleepersWait
  BY DEF DiskInv, InvPc, SleepersWait
<1> QED
  BY <1>1, DiskInvariant, PTL
=============================================================================
