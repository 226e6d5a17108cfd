---------------------------- MODULE BcacheProofs ----------------------------
(***************************************************************************)
(* The theorems about the buffer cache, for any number of processes,       *)
(* buffers and blocks.                                                     *)
(*                                                                         *)
(* That a read is never stale is not inductive: it rests on which buffers  *)
(* may be recycled, hence on the counts, and on the block that a buffer    *)
(* being read may share with no other.  CacheInv adds those, and the list  *)
(* as pointers that link the buffers in the order of the history variable  *)
(* recency, from the head and back.                                        *)
(***************************************************************************)
EXTENDS Bcache, FiniteSetTheorems, TLAPS

(* The default prover. *)
USE ZenonT(60)

-----------------------------------------------------------------------------
(* What the proofs assume of the constants: there are a buffer and some    *)
(* contents, finitely many processes, and neither a block nor a process is *)
(* the string that stands for none.                                        *)
CacheConstants ==
  /\ NBUF \in Nat \ {0} /\ MaxPins \in Nat /\ IsFiniteSet(Procs)
  /\ Data # {} /\ NoBlock \notin Blocks /\ Free \notin Procs

(* The inductive invariant.  Users of a buffer, and who has its sleep      *)
(* lock.                                                                   *)
Users(b) == {p \in Procs : buf[p] = b}

InvRefs ==
  /\ \A b \in Bufs : refcnt[b] = Cardinality(Users(b)) + (IF b \in pinned THEN 1 ELSE 0)
  /\ IsFiniteSet(pinned) /\ Cardinality(pinned) <= MaxPins

InvOwner ==
  /\ \A p \in Procs : buf[p] = Head <=> pc[p] \in {"user", "panic"}
  /\ \A p \in Procs : Holds(p) => owner[buf[p]] = p
  /\ \A b \in Bufs : owner[b] # Free => Holds(owner[b]) /\ buf[owner[b]] = b

(* A block has one buffer, which keeps it while in use. *)
InvBlocks ==
  /\ \A a, b \in Bufs : blockno[a] = blockno[b] /\ blockno[a] # NoBlock => a = b
  /\ \A p \in Procs : buf[p] # Head => blockno[buf[p]] # NoBlock
  /\ \A b \in pinned : blockno[b] # NoBlock /\ valid[b]
  /\ \A p \in Procs : pc[p] \in {"held", "writing"} => valid[buf[p]]
  /\ \A p \in Procs : pc[p] = "reading" => ~valid[buf[p]]

(* Valid contents are the latest, and what the disk does not have is in a  *)
(* buffer that is pinned or held.                                          *)
InvData ==
  /\ \A b \in Bufs : valid[b] /\ blockno[b] # NoBlock => data[b] = latest[blockno[b]]
  /\ \A k \in Blocks :
       \/ disk[k] = latest[k]
       \/ \E b \in Bufs : blockno[b] = k /\ valid[b] /\ (b \in pinned \/ owner[b] # Free)

(* The list links the buffers in the order of s, from the head and back.   *)
Links(l, s) ==
  /\ l.next[Head] = s[1] /\ l.prev[Head] = s[NBUF]
  /\ \A k \in Bufs : /\ l.next[s[k]] = IF k = NBUF THEN Head ELSE s[k + 1]
                     /\ l.prev[s[k]] = IF k = 1 THEN Head ELSE s[k - 1]

Permutes(s) ==
  /\ \A j, k \in Bufs : s[j] = s[k] => j = k
  /\ \A b \in Bufs : \E k \in Bufs : s[k] = b

InvList == Links(list, recency) /\ Permutes(recency)

(* Nobody panics as long as there are buffers for all processes and pins. *)
InvPc == NoPanic

CacheInv == TypeOK /\ InvRefs /\ InvOwner /\ InvBlocks /\ InvData /\ InvList /\ InvPc

-----------------------------------------------------------------------------
(* Every set of naturals has a least element: Min is defined on it. *)
LEMMA MinIsLeast ==
  ASSUME NEW S \in SUBSET Nat, S # {}
  PROVE  Min(S) \in S /\ \A m \in S : Min(S) <= m
<1> DEFINE Less == OpToRel(<, Nat)
<1>1. PICK n \in S : \A m \in S : <<m, n>> \notin Less
  <2>1. IsWellFoundedOn(Less, Nat)
    BY NatLessThanWellFounded
  <2> HIDE DEF Less
  <2> QED
    BY <2>1, WFMin
<1>2. ASSUME NEW m \in S PROVE n <= m
  <2>1. ~(m < n)
    BY <1>1 DEF OpToRel
  <2> QED
    BY SMTT(60), <2>1
<1> QED
  BY <1>2 DEF Min

(* Induction on the positions of the list. *)
LEMMA AllPositions ==
  ASSUME CacheConstants, NEW S \in SUBSET Bufs, 1 \in S,
         \A k \in S : k # NBUF => k + 1 \in S
  PROVE  S = Bufs
<1> SUFFICES ASSUME Bufs \ S # {} PROVE FALSE
  OBVIOUS
<1>1. Bufs \ S \subseteq Nat
  BY SMTT(60) DEF Bufs, CacheConstants
<1>2. PICK n \in Bufs \ S : \A m \in Bufs \ S : n <= m
  BY <1>1, MinIsLeast
<1>3. n - 1 \in Bufs /\ n - 1 # NBUF /\ (n - 1) + 1 = n /\ ~(n <= n - 1)
  BY SMTT(60), <1>2 DEF Bufs, CacheConstants
<1>4. n - 1 \in S
  BY <1>2, <1>3
<1> QED
  BY <1>2, <1>3, <1>4

(* Following pointers that link s enumerates s. *)
LEMMA Follow ==
  ASSUME CacheConstants, NEW n, NEW s \in [Bufs -> Bufs], n[Head] = s[1],
         \A k \in Bufs : k # NBUF => n[s[k]] = s[k + 1]
  PROVE  (CHOOSE f : f = [k \in 1 .. NBUF |-> IF k = 1 THEN n[Head] ELSE n[f[k - 1]]]) = s
<1>1. PICK g : g = CHOOSE f : f = [k \in 1 .. NBUF |-> IF k = 1 THEN n[Head] ELSE n[f[k - 1]]]
  OBVIOUS
<1>2. s = [k \in 1 .. NBUF |-> IF k = 1 THEN n[Head] ELSE n[s[k - 1]]]
  <2>1. ASSUME NEW k \in Bufs, k # 1 PROVE s[k] = n[s[k - 1]]
    <3>1. k - 1 \in Bufs /\ k - 1 # NBUF /\ (k - 1) + 1 = k
      BY SMTT(60), <2>1 DEF Bufs, CacheConstants
    <3> QED
      BY <3>1
  <2> QED
    BY <2>1 DEF Bufs
<1>3. g = [k \in 1 .. NBUF |-> IF k = 1 THEN n[Head] ELSE n[g[k - 1]]]
  BY <1>1, <1>2
<1> DEFINE S == {k \in Bufs : g[k] = s[k]}
<1>4. 1 \in Bufs
  BY SMTT(60) DEF Bufs, CacheConstants
<1>5. 1 \in S
  BY <1>3, <1>4 DEF Bufs
<1>6. ASSUME NEW k \in S, k # NBUF PROVE k + 1 \in S
  <2>1. k + 1 \in Bufs /\ k + 1 # 1 /\ (k + 1) - 1 = k
    BY SMTT(60), <1>6 DEF Bufs, CacheConstants
  <2>2. g[k + 1] = n[g[k]]
    BY <1>3, <2>1 DEF Bufs
  <2> QED
    BY <1>6, <2>1, <2>2
<1> HIDE DEF S
<1>7. S = Bufs
  <2>1. S \in SUBSET Bufs
    BY DEF S
  <2> QED
    BY <1>5, <1>6, <2>1, AllPositions
<1>8. \A k \in Bufs : g[k] = s[k]
  BY <1>7 DEF S
<1>9. g = [k \in Bufs |-> g[k]] /\ s = [k \in Bufs |-> s[k]]
  BY <1>3 DEF Bufs
<1>10. g = s
  BY <1>8, <1>9
<1> QED
  BY <1>1, <1>10

(* The two enumerations of the list. *)
LEMMA ListIs ==
  ASSUME CacheConstants, TypeOK, InvList
  PROVE  Forward = recency /\ \A k \in Bufs : Backward[k] = recency[NBUF + 1 - k]
<1>1. recency \in [Bufs -> Bufs] /\ Links(list, recency)
  BY DEF TypeOK, InvList
<1>2. Forward = recency
  <2>1. /\ list.next[Head] = recency[1]
        /\ \A k \in Bufs : k # NBUF => list.next[recency[k]] = recency[k + 1]
    BY <1>1 DEF Links
  <2> QED
    BY SMTT(60), <1>1, <2>1, Follow DEF Forward
<1> DEFINE r == [k \in Bufs |-> recency[NBUF + 1 - k]]
<1>3. \A k \in Bufs : /\ NBUF + 1 - k \in Bufs /\ (NBUF + 1 - k = NBUF <=> k = 1)
                      /\ (NBUF + 1 - k = 1 <=> k = NBUF)
                      /\ (k # NBUF => k + 1 \in Bufs /\ NBUF + 1 - (k + 1) = (NBUF + 1 - k) - 1)
  BY SMTT(60) DEF Bufs, CacheConstants
<1>4. r \in [Bufs -> Bufs]
  BY <1>1, <1>3
<1>5. 1 \in Bufs /\ NBUF + 1 - 1 = NBUF
  BY SMTT(60) DEF Bufs, CacheConstants
<1>6. list.prev[Head] = r[1]
  BY <1>1, <1>5 DEF Links
<1>7. ASSUME NEW k \in Bufs, k # NBUF PROVE list.prev[r[k]] = r[k + 1]
  <2>1. NBUF + 1 - k \in Bufs /\ NBUF + 1 - k # 1
    BY <1>3, <1>7
  <2>2. list.prev[recency[NBUF + 1 - k]] = recency[(NBUF + 1 - k) - 1]
    BY <1>1, <2>1 DEF Links
  <2> QED
    BY <1>3, <1>7, <2>2
<1>8. Backward = r
  <2> HIDE DEF r
  <2> QED
    BY <1>4, <1>6, <1>7, Follow DEF Backward
<1> QED
  BY <1>2, <1>8

(* Positions on the list. *)
LEMMA Places ==
  ASSUME CacheConstants, NEW k \in Bufs
  PROVE  /\ 1 \in Bufs /\ NBUF \in Bufs /\ Head \in 0 .. NBUF
         /\ k \in 0 .. NBUF /\ k # Head /\ k + 1 # k /\ k - 1 # k
         /\ k # 1 => k - 1 \in Bufs /\ (k - 1) + 1 = k /\ k - 1 # NBUF
         /\ k # NBUF => k + 1 \in Bufs /\ (k + 1) - 1 = k /\ k + 1 # 1
         /\ k # 1 /\ k - 1 # 1 => (k - 1) - 1 \in Bufs
BY SMTT(60) DEF CacheConstants, Bufs, Head

(* A position before or at position a. *)
LEMMA PlacesBefore ==
  ASSUME CacheConstants, NEW a \in Bufs, NEW k \in Bufs, k <= a
  PROVE  /\ k # 1 => k - 1 # a /\ k - 1 <= a /\ a # 1
         /\ k # a => k # NBUF /\ k - 1 # a - 1 /\ k + 1 <= a
         /\ k = a => ~(k + 1 <= a)
         /\ a + 1 # k - 1
BY SMTT(60) DEF CacheConstants, Bufs

(* A position after position a. *)
LEMMA PlacesAfter ==
  ASSUME CacheConstants, NEW a \in Bufs, NEW k \in Bufs, ~(k <= a)
  PROVE  /\ k # 1 /\ k # a /\ k # a - 1 /\ a # NBUF /\ ~(k + 1 <= a)
         /\ k - 1 <= a <=> k - 1 = a
         /\ a + 1 = k <=> k - 1 = a
BY SMTT(60) DEF CacheConstants, Bufs

(* The first and the last position. *)
LEMMA PlacesFirst ==
  ASSUME CacheConstants, NEW a \in Bufs
  PROVE  /\ 1 <= a /\ (1 + 1 <= a <=> a # 1) /\ (NBUF <= a <=> a = NBUF)
         /\ NBUF = 1 => a = 1
         /\ \A k \in Bufs : k - 1 = 1 <=> k = 1 + 1
BY SMTT(60) DEF CacheConstants, Bufs

(* Neighbours of two different positions. *)
LEMMA PlacesDiffer ==
  ASSUME CacheConstants, NEW a \in Bufs, NEW j \in Bufs, NEW k \in Bufs,
         (IF j = 1 THEN a ELSE IF j <= a THEN j - 1 ELSE j)
           = IF k = 1 THEN a ELSE IF k <= a THEN k - 1 ELSE k
  PROVE  j = k
BY SMTT(60) DEF CacheConstants, Bufs

(* binit() links the buffers in the order NBUF, ..., 1. *)
LEMMA BinitIs ==
  ASSUME CacheConstants
  PROVE  Binit[NBUF] =
           [next |-> [x \in 0 .. NBUF |-> IF x = 0 THEN NBUF ELSE x - 1],
            prev |-> [x \in 0 .. NBUF |-> IF x = NBUF THEN 0 ELSE x + 1]]
<1> DEFINE L(k) == [next |-> [x \in 0 .. NBUF |-> IF x = 0 THEN k ELSE IF x <= k THEN x - 1 ELSE 0],
                    prev |-> [x \in 0 .. NBUF |-> IF x < k THEN x + 1 ELSE 0]]
           F(f) == [k \in 0 .. NBUF |->
                      IF k = 0 THEN [next |-> [x \in 0 .. NBUF |-> Head],
                                     prev |-> [x \in 0 .. NBUF |-> Head]]
                      ELSE PutFirst(f[k - 1], k)]
           g == [k \in 0 .. NBUF |-> L(k)]
<1>1. L(0) = [next |-> [x \in 0 .. NBUF |-> Head], prev |-> [x \in 0 .. NBUF |-> Head]]
  <2>1. ASSUME NEW x \in 0 .. NBUF
        PROVE  /\ (IF x = 0 THEN 0 ELSE IF x <= 0 THEN x - 1 ELSE 0) = 0
               /\ (IF x < 0 THEN x + 1 ELSE 0) = 0
    BY SMTT(60) DEF CacheConstants
  <2> QED
    BY <2>1 DEF Head
<1>2. ASSUME NEW k \in 0 .. NBUF, k # 0 PROVE L(k) = PutFirst(L(k - 1), k)
  <2>1. k \in Nat /\ k - 1 \in 0 .. NBUF /\ 0 \in 0 .. NBUF
    BY SMTT(60), <1>2 DEF CacheConstants
  <2>2. L(k - 1).next[Head] = k - 1
    BY <2>1 DEF Head
  <2>3. ASSUME NEW x \in 0 .. NBUF
        PROVE  /\ L(k).next[x] = [L(k - 1).next EXCEPT ![k] = k - 1, ![Head] = k][x]
               /\ L(k).prev[x] = [L(k - 1).prev EXCEPT ![k] = Head, ![k - 1] = k][x]
    <3>1. /\ [L(k - 1).next EXCEPT ![k] = k - 1, ![Head] = k][x]
               = IF x = 0 THEN k ELSE IF x = k THEN k - 1 ELSE L(k - 1).next[x]
          /\ [L(k - 1).prev EXCEPT ![k] = Head, ![k - 1] = k][x]
               = IF x = k - 1 THEN k ELSE IF x = k THEN 0 ELSE L(k - 1).prev[x]
      BY <2>1 DEF Head
    <3>2. /\ (IF x = 0 THEN k ELSE IF x <= k THEN x - 1 ELSE 0)
               = IF x = 0 THEN k ELSE IF x = k THEN k - 1
                 ELSE IF x = 0 THEN k - 1 ELSE IF x <= k - 1 THEN x - 1 ELSE 0
          /\ (IF x < k THEN x + 1 ELSE 0)
               = IF x = k - 1 THEN k ELSE IF x = k THEN 0 ELSE IF x < k - 1 THEN x + 1 ELSE 0
      BY SMTT(60), <1>2, <2>1 DEF CacheConstants
    <3> QED
      BY <3>1, <3>2
  <2>4. /\ L(k).next = [L(k - 1).next EXCEPT ![k] = k - 1, ![Head] = k]
        /\ L(k).prev = [L(k - 1).prev EXCEPT ![k] = Head, ![k - 1] = k]
    BY <2>3
  <2> QED
    BY <2>2, <2>4 DEF PutFirst
<1>3. g = F(g)
  <2> HIDE DEF L
  <2>1. \A k \in 0 .. NBUF : k # 0 => k - 1 \in 0 .. NBUF
    BY SMTT(60) DEF CacheConstants
  <2> QED
    BY <1>1, <1>2, <2>1
<1>4. Binit = CHOOSE f : f = F(f)
  BY DEF Binit
<1> HIDE DEF g, L
<1>5. Binit = F(Binit)
  BY <1>3, <1>4
<1> DEFINE S == {k \in Bufs : Binit[k] = g[k]}
<1>6. 0 \in 0 .. NBUF /\ 1 \in 0 .. NBUF /\ 1 # 0 /\ 1 - 1 = 0 /\ 1 \in Bufs /\ NBUF \in Bufs
  BY SMTT(60) DEF CacheConstants, Bufs
<1>7. Binit[0] = g[0]
  BY <1>3, <1>5, <1>6
<1>8. 1 \in S
  <2>1. Binit[1] = PutFirst(Binit[0], 1)
    BY <1>5, <1>6
  <2>2. g[1] = PutFirst(g[0], 1)
    BY <1>3, <1>6
  <2> QED
    BY <1>6, <1>7, <2>1, <2>2
<1>9. ASSUME NEW k \in S, k # NBUF PROVE k + 1 \in S
  <2>1. k + 1 \in Bufs /\ k + 1 # 0 /\ (k + 1) - 1 = k /\ k + 1 \in 0 .. NBUF
    BY SMTT(60), <1>9 DEF Bufs, CacheConstants
  <2>2. Binit[k + 1] = PutFirst(Binit[k], k + 1)
    BY <1>5, <2>1
  <2>3. g[k + 1] = PutFirst(g[k], k + 1)
    BY <1>3, <2>1
  <2> QED
    BY <1>9, <2>1, <2>2, <2>3
<1>10. Binit[NBUF] = g[NBUF]
  <2>1. S \in SUBSET Bufs
    OBVIOUS
  <2> HIDE DEF S
  <2>2. NBUF \in S
    BY <1>6, <1>8, <1>9, <2>1, AllPositions
  <2> QED
    BY <2>2 DEF S
<1>11. g[NBUF] = L(NBUF)
  <2>1. NBUF \in 0 .. NBUF
    BY SMTT(60) DEF CacheConstants
  <2> QED
    BY <2>1 DEF g
<1>12. L(NBUF) = [next |-> [x \in 0 .. NBUF |-> IF x = 0 THEN NBUF ELSE x - 1],
                  prev |-> [x \in 0 .. NBUF |-> IF x = NBUF THEN 0 ELSE x + 1]]
  <2>1. \A x \in 0 .. NBUF : x <= NBUF /\ (x < NBUF <=> x # NBUF)
    BY SMTT(60) DEF CacheConstants
  <2> QED
    BY <2>1 DEF L
<1> QED
  BY <1>10, <1>11, <1>12

(* The list at the start. *)
LEMMA BinitLinks ==
  ASSUME CacheConstants
  PROVE  /\ Binit[NBUF] \in [next : [0 .. NBUF -> 0 .. NBUF], prev : [0 .. NBUF -> 0 .. NBUF]]
         /\ [k \in Bufs |-> NBUF + 1 - k] \in [Bufs -> Bufs]
         /\ Links(Binit[NBUF], [k \in Bufs |-> NBUF + 1 - k])
         /\ Permutes([k \in Bufs |-> NBUF + 1 - k])
<1> DEFINE n == [x \in 0 .. NBUF |-> IF x = 0 THEN NBUF ELSE x - 1]
           q == [x \in 0 .. NBUF |-> IF x = NBUF THEN 0 ELSE x + 1]
           s == [k \in Bufs |-> NBUF + 1 - k]
<1>1. \A k \in Bufs : NBUF + 1 - k \in Bufs
  BY SMTT(60) DEF CacheConstants, Bufs
<1>2. n \in [0 .. NBUF -> 0 .. NBUF] /\ q \in [0 .. NBUF -> 0 .. NBUF]
  BY SMTT(60) DEF CacheConstants
<1>3. n[Head] = s[1] /\ q[Head] = s[NBUF]
  BY SMTT(60) DEF CacheConstants, Bufs, Head
<1>4. ASSUME NEW k \in Bufs
      PROVE  /\ n[s[k]] = IF k = NBUF THEN Head ELSE s[k + 1]
             /\ q[s[k]] = IF k = 1 THEN Head ELSE s[k - 1]
  BY SMTT(60) DEF CacheConstants, Bufs, Head
<1>5. Permutes(s)
  <2>1. \A j, k \in Bufs : s[j] = s[k] => j = k
    BY SMTT(60) DEF CacheConstants, Bufs
  <2>2. ASSUME NEW b \in Bufs PROVE NBUF + 1 - b \in Bufs /\ s[NBUF + 1 - b] = b
    BY SMTT(60) DEF CacheConstants, Bufs
  <2> QED
    BY <2>1, <2>2 DEF Permutes
<1>6. Binit[NBUF] = [next |-> n, prev |-> q]
  BY BinitIs
<1> HIDE DEF n, q
<1>7. Binit[NBUF].next = n /\ Binit[NBUF].prev = q
  BY SMTT(60), <1>6
<1>8. Binit[NBUF] \in [next : [0 .. NBUF -> 0 .. NBUF], prev : [0 .. NBUF -> 0 .. NBUF]]
  BY SMTT(60), <1>2, <1>6
<1>9. s \in [Bufs -> Bufs]
  BY <1>1
<1> HIDE DEF s
<1>10. Links(Binit[NBUF], s)
  BY <1>3, <1>4, <1>7 DEF Links
<1> QED
  BY <1>5, <1>8, <1>9, <1>10 DEF s

(* brelse() moves a buffer to the front of the list. *)
LEMMA Moved ==
  ASSUME CacheConstants, NEW s \in [Bufs -> Bufs], Permutes(s), NEW b \in Bufs,
         NEW l \in [next : [0 .. NBUF -> 0 .. NBUF], prev : [0 .. NBUF -> 0 .. NBUF]],
         Links(l, s)
  PROVE  /\ PutFirst(Unlink(l, b), b) \in [next : [0 .. NBUF -> 0 .. NBUF],
                                           prev : [0 .. NBUF -> 0 .. NBUF]]
         /\ ToFront(s, b) \in [Bufs -> Bufs]
         /\ Links(PutFirst(Unlink(l, b), b), ToFront(s, b)) /\ Permutes(ToFront(s, b))
<1>1. PICK a \in Bufs : a = (CHOOSE k \in Bufs : s[k] = b) /\ s[a] = b
  BY DEF Permutes
<1>2. PICK r : r = [k \in Bufs |-> IF k = 1 THEN b ELSE IF k <= a THEN s[k - 1] ELSE s[k]]
  OBVIOUS
<1>3. ToFront(s, b) = r
  BY <1>1, <1>2 DEF ToFront
<1>4. PICK n, q, x, y, f :
        /\ n = l.next /\ q = l.prev /\ x = q[b] /\ y = n[b]
        /\ f = [n EXCEPT ![x] = y][Head]
  OBVIOUS
<1>5. PICK n2, q2 : /\ n2 = [[n EXCEPT ![x] = y] EXCEPT ![b] = f, ![Head] = b]
                    /\ q2 = [[q EXCEPT ![y] = x] EXCEPT ![b] = Head, ![f] = b]
  OBVIOUS
<1>6. PutFirst(Unlink(l, b), b) = [next |-> n2, prev |-> q2]
  <2>1. Unlink(l, b) = [next |-> [n EXCEPT ![x] = y], prev |-> [q EXCEPT ![y] = x]]
    BY <1>4 DEF Unlink
  <2>2. Unlink(l, b).next = [n EXCEPT ![x] = y] /\ Unlink(l, b).prev = [q EXCEPT ![y] = x]
    BY SMTT(60), <2>1
  <2> QED
    BY <1>4, <1>5, <2>2 DEF PutFirst
<1>7. n \in [0 .. NBUF -> 0 .. NBUF] /\ q \in [0 .. NBUF -> 0 .. NBUF]
  BY SMTT(60), <1>4
<1>8. /\ n[Head] = s[1] /\ q[Head] = s[NBUF]
      /\ \A k \in Bufs : /\ n[s[k]] = IF k = NBUF THEN Head ELSE s[k + 1]
                         /\ q[s[k]] = IF k = 1 THEN Head ELSE s[k - 1]
  BY <1>4 DEF Links
<1>9. /\ \A c \in Bufs : c \in 0 .. NBUF /\ c # Head
      /\ Head \in 0 .. NBUF /\ 1 \in Bufs /\ NBUF \in Bufs
      /\ \A k \in Bufs : k # 1 => k - 1 \in Bufs
      /\ \A k \in Bufs : k # NBUF => k + 1 \in Bufs
      /\ \A k \in Bufs : k + 1 # k /\ k - 1 # k
  BY Places
<1>10. \A j, k \in Bufs : s[j] = s[k] => j = k
  BY DEF Permutes
<1>11. /\ x = IF a = 1 THEN Head ELSE s[a - 1]
       /\ y = IF a = NBUF THEN Head ELSE s[a + 1]
       /\ x \in 0 .. NBUF /\ y \in 0 .. NBUF /\ x # b /\ y # b
  <2>1. /\ x = IF a = 1 THEN Head ELSE s[a - 1]
        /\ y = IF a = NBUF THEN Head ELSE s[a + 1]
    <3>1. /\ n[s[a]] = IF a = NBUF THEN Head ELSE s[a + 1]
          /\ q[s[a]] = IF a = 1 THEN Head ELSE s[a - 1]
      BY <1>8
    <3> QED
      BY <1>1, <1>4, <3>1
  <2>2. x \in 0 .. NBUF /\ y \in 0 .. NBUF
    BY <1>4, <1>7, <1>9
  <2>3. a # 1 => s[a - 1] # b
    BY <1>1, <1>9, <1>10
  <2>4. a # NBUF => s[a + 1] # b
    BY <1>1, <1>9, <1>10
  <2> QED
    BY <1>9, <2>1, <2>2, <2>3, <2>4
<1>12. f = (IF a = 1 THEN y ELSE s[1]) /\ f \in 0 .. NBUF /\ f # b
  <2>1. f = IF x = Head THEN y ELSE n[Head]
    BY <1>4, <1>7, <1>9
  <2>2. x = Head <=> a = 1
    BY <1>9, <1>11
  <2>3. a # 1 => s[1] # b
    BY <1>1, <1>9, <1>10
  <2> QED
    BY <1>8, <1>9, <1>11, <2>1, <2>2, <2>3
<1>13. /\ \A z \in 0 .. NBUF : n2[z] = IF z = Head THEN b ELSE IF z = b THEN f
                                       ELSE IF z = x THEN y ELSE n[z]
       /\ \A z \in 0 .. NBUF : q2[z] = IF z = f THEN b ELSE IF z = b THEN Head
                                       ELSE IF z = y THEN x ELSE q[z]
       /\ n2 \in [0 .. NBUF -> 0 .. NBUF] /\ q2 \in [0 .. NBUF -> 0 .. NBUF]
  BY <1>5, <1>7, <1>9, <1>11, <1>12
<1>14. /\ r \in [Bufs -> Bufs] /\ r[1] = b
       /\ \A k \in Bufs : k # 1 /\ k <= a => r[k] = s[k - 1]
       /\ \A k \in Bufs : k # 1 /\ ~(k <= a) => r[k] = s[k]
  BY <1>2, <1>9
<1>15. n2[Head] = r[1]
  BY <1>9, <1>13, <1>14
<1>16. q2[Head] = r[NBUF]
  <2>1. CASE f = Head
    <3>1. NBUF = 1
      BY <1>9, <1>11, <1>12, <2>1
    <3> QED
      BY <1>9, <1>13, <1>14, <2>1, <3>1
  <2>2. CASE f # Head
    <3>1. a = NBUF => a # 1
      BY <1>11, <1>12, <2>2
    <3>2. (a = NBUF => NBUF <= a) /\ (a # NBUF => ~(NBUF <= a) /\ NBUF # 1)
      BY PlacesFirst
    <3>3. CASE a = NBUF
      BY <1>9, <1>11, <1>13, <1>14, <2>2, <3>1, <3>2, <3>3
    <3>4. CASE a # NBUF
      <4>1. y # Head
        BY <1>9, <1>11, <3>4
      <4>2. q2[Head] = q[Head]
        BY <1>9, <1>13, <2>2, <4>1
      <4> QED
        BY <1>8, <1>9, <1>14, <3>2, <3>4, <4>2
    <3> QED
      BY <3>3, <3>4
  <2> QED
    BY <2>1, <2>2
<1>17. ASSUME NEW k \in Bufs PROVE n2[r[k]] = IF k = NBUF THEN Head ELSE r[k + 1]
  <2>1. CASE k = 1
    <3>1. n2[r[k]] = f
      BY <1>9, <1>13, <1>14, <2>1
    <3>2. k # NBUF => k + 1 # 1 /\ k + 1 \in Bufs /\ (k + 1) - 1 = 1 /\ (k + 1 <= a <=> a # 1)
      BY <2>1, Places, PlacesFirst
    <3>3. k = NBUF => a = 1 /\ a = NBUF
      BY <2>1, PlacesFirst
    <3> QED
      BY <1>11, <1>12, <1>14, <2>1, <3>1, <3>2, <3>3
  <2>2. CASE k # 1 /\ k <= a
    <3>1. r[k] = s[k - 1] /\ k - 1 \in Bufs /\ s[k - 1] \in Bufs
      BY <1>9, <1>14, <2>2
    <3>2. /\ (k - 1) + 1 = k /\ k - 1 # NBUF
          /\ k # NBUF => k + 1 \in Bufs /\ (k + 1) - 1 = k /\ k + 1 # 1
          /\ k - 1 # a /\ a # 1 /\ (k = a => ~(k + 1 <= a))
          /\ k # a => k # NBUF /\ k - 1 # a - 1 /\ k + 1 <= a
      <4>1. /\ (k - 1) + 1 = k /\ k - 1 # NBUF
            /\ k # NBUF => k + 1 \in Bufs /\ (k + 1) - 1 = k /\ k + 1 # 1
        BY <2>2, Places
      <4>2. /\ k - 1 # a /\ a # 1 /\ (k = a => ~(k + 1 <= a))
            /\ k # a => k # NBUF /\ k - 1 # a - 1 /\ k + 1 <= a
        BY <2>2, PlacesBefore
      <4> QED
        BY <4>1, <4>2
    <3>3. s[k - 1] # b /\ s[k - 1] # Head
      BY <1>1, <1>9, <1>10, <3>1, <3>2
    <3>4. CASE k = a
      <4>1. s[k - 1] = x
        BY <1>11, <3>2, <3>4
      <4>2. n2[r[k]] = y
        BY <1>9, <1>13, <3>1, <3>3, <4>1
      <4>3. k # NBUF => r[k + 1] = s[k + 1]
        BY <1>14, <3>2, <3>4
      <4> QED
        BY <1>11, <3>4, <4>2, <4>3
    <3>5. CASE k # a
      <4>1. s[k - 1] # x
        BY <1>9, <1>10, <1>11, <3>1, <3>2, <3>5
      <4>2. n2[r[k]] = n[s[k - 1]]
        BY <1>9, <1>13, <3>1, <3>3, <4>1
      <4>3. n[s[k - 1]] = s[k]
        BY SMTT(60), <1>8, <3>1, <3>2
      <4> QED
        BY <1>14, <3>2, <3>5, <4>2, <4>3
    <3> QED
      BY <3>4, <3>5
  <2>3. CASE k # 1 /\ ~(k <= a)
    <3>1. r[k] = s[k] /\ s[k] \in Bufs
      BY <1>14, <2>3
    <3>2. /\ k # a /\ k # a - 1 /\ ~(k + 1 <= a)
          /\ k # NBUF => k + 1 \in Bufs /\ k + 1 # 1
      <4>1. k # a /\ k # a - 1 /\ ~(k + 1 <= a)
        BY <2>3, PlacesAfter
      <4>2. k # NBUF => k + 1 \in Bufs /\ k + 1 # 1
        BY Places
      <4> QED
        BY <4>1, <4>2
    <3>3. s[k] # b /\ s[k] # Head /\ s[k] # x
      BY <1>1, <1>9, <1>10, <1>11, <3>1, <3>2
    <3>4. n2[r[k]] = n[s[k]]
      BY <1>9, <1>13, <3>1, <3>3
    <3> QED
      BY <1>8, <1>14, <3>2, <3>4
  <2> QED
    BY <2>1, <2>2, <2>3
<1>18. ASSUME NEW k \in Bufs PROVE q2[r[k]] = IF k = 1 THEN Head ELSE r[k - 1]
  <2>1. CASE k = 1
    BY <1>9, <1>12, <1>13, <1>14, <2>1
  <2>2. CASE k # 1 /\ k - 1 = 1
    <3>1. r[k] = f
      <4>1. k = 1 + 1 /\ (1 + 1 <= a <=> a # 1)
        BY <2>2, PlacesFirst
      <4>2. a = 1 => a # NBUF
        BY <2>2, PlacesFirst
      <4>3. CASE a = 1
        <5>1. f = s[1 + 1] /\ ~(k <= a)
          BY <1>11, <1>12, <4>1, <4>2, <4>3
        <5> QED
          BY <1>14, <2>2, <4>1, <5>1
      <4>4. CASE a # 1
        <5>1. f = s[1] /\ k <= a
          BY <1>12, <4>1, <4>4
        <5> QED
          BY <1>14, <2>2, <5>1
      <4> QED
        BY <4>3, <4>4
    <3> QED
      BY <1>9, <1>13, <1>14, <2>2, <3>1
  <2>3. CASE k # 1 /\ k - 1 # 1 /\ k <= a
    <3>1. /\ k - 1 \in Bufs /\ (k - 1) - 1 \in Bufs /\ k - 1 # a /\ k - 1 <= a
          /\ (a # NBUF => a + 1 # k - 1) /\ a # 1
      BY <2>3, Places, PlacesBefore
    <3>2. r[k] = s[k - 1] /\ s[k - 1] \in Bufs /\ r[k - 1] = s[(k - 1) - 1]
      BY <1>14, <2>3, <3>1
    <3>3. s[k - 1] # b /\ s[k - 1] # f /\ s[k - 1] # y
      BY <1>1, <1>9, <1>10, <1>11, <1>12, <2>3, <3>1, <3>2
    <3>4. q2[r[k]] = q[s[k - 1]]
      BY <1>9, <1>13, <3>2, <3>3
    <3> QED
      BY <1>8, <2>3, <3>1, <3>2, <3>4
  <2>4. CASE k # 1 /\ k - 1 # 1 /\ ~(k <= a)
    <3>1. /\ k - 1 \in Bufs /\ k # a /\ (k - 1 <= a <=> k - 1 = a) /\ a # NBUF
          /\ a + 1 = k <=> k - 1 = a
      <4>1. k - 1 \in Bufs
        BY <2>4, Places
      <4>2. /\ k # a /\ (k - 1 <= a <=> k - 1 = a) /\ a # NBUF
            /\ a + 1 = k <=> k - 1 = a
        BY <2>4, PlacesAfter
      <4> QED
        BY <4>1, <4>2
    <3>2. r[k] = s[k] /\ s[k] \in Bufs
      BY <1>14, <2>4
    <3>3. s[k] # b /\ s[k] # f
      BY <1>1, <1>9, <1>10, <1>11, <1>12, <2>4, <3>1, <3>2
    <3>4. CASE k - 1 = a
      <4>1. s[k] = y /\ x = s[a - 1] /\ r[k - 1] = s[a - 1]
        BY <1>11, <1>14, <2>4, <3>1, <3>4
      <4> QED
        BY <1>9, <1>13, <2>4, <3>2, <3>3, <4>1
    <3>5. CASE k - 1 # a
      <4>1. s[k] # y /\ r[k - 1] = s[k - 1]
        BY <1>9, <1>10, <1>11, <1>14, <2>4, <3>1, <3>2, <3>5
      <4>2. q2[r[k]] = q[s[k]]
        BY <1>9, <1>13, <3>2, <3>3, <4>1
      <4> QED
        BY <1>8, <2>4, <4>1, <4>2
    <3> QED
      BY <3>4, <3>5
  <2> QED
    BY <2>1, <2>2, <2>3, <2>4
<1>19. Permutes(r)
  <2>1. ASSUME NEW c \in Bufs PROVE \E k \in Bufs : r[k] = c
    <3>1. PICK k \in Bufs : s[k] = c
      BY DEF Permutes
    <3>2. CASE k = a
      BY <1>1, <1>9, <1>14, <3>1, <3>2
    <3>3. CASE k # a /\ k <= a
      <4>1. k # NBUF /\ k + 1 <= a
        BY <3>3, PlacesBefore
      <4>2. k + 1 \in Bufs /\ k + 1 # 1 /\ (k + 1) - 1 = k
        BY <4>1, Places
      <4> QED
        BY <1>14, <3>1, <4>1, <4>2
    <3>4. CASE ~(k <= a)
      <4>1. k # 1
        BY <3>4, PlacesAfter
      <4> QED
        BY <1>14, <3>1, <3>4, <4>1
    <3> QED
      BY <3>2, <3>3, <3>4
  <2>2. ASSUME NEW j \in Bufs, NEW k \in Bufs, r[j] = r[k] PROVE j = k
    <3>1. ASSUME NEW i \in Bufs
          PROVE  \E h \in Bufs : /\ r[i] = s[h]
                                 /\ h = IF i = 1 THEN a ELSE IF i <= a THEN i - 1 ELSE i
      BY <1>1, <1>9, <1>14
    <3>2. PICK h \in Bufs : r[j] = s[h] /\ h = IF j = 1 THEN a ELSE IF j <= a THEN j - 1 ELSE j
      BY <3>1
    <3>3. PICK i \in Bufs : r[k] = s[i] /\ i = IF k = 1 THEN a ELSE IF k <= a THEN k - 1 ELSE k
      BY <3>1
    <3>4. h = i
      BY <1>10, <2>2, <3>2, <3>3
    <3>5. (IF j = 1 THEN a ELSE IF j <= a THEN j - 1 ELSE j)
            = IF k = 1 THEN a ELSE IF k <= a THEN k - 1 ELSE k
      BY <3>2, <3>3, <3>4
    <3> QED
      BY <3>5, PlacesDiffer
  <2> QED
    BY <2>1, <2>2 DEF Permutes
<1>20. /\ [next |-> n2, prev |-> q2].next = n2 /\ [next |-> n2, prev |-> q2].prev = q2
       /\ [next |-> n2, prev |-> q2] \in [next : [0 .. NBUF -> 0 .. NBUF],
                                          prev : [0 .. NBUF -> 0 .. NBUF]]
  BY SMTT(60), <1>13
<1>21. Links([next |-> n2, prev |-> q2], r)
  BY <1>15, <1>16, <1>17, <1>18, <1>20 DEF Links
<1> QED
  BY <1>3, <1>6, <1>14, <1>19, <1>20, <1>21

-----------------------------------------------------------------------------
(* The processes that have a buffer can be counted ... *)
LEMMA UsersFinite ==
  ASSUME CacheConstants, NEW b
  PROVE  IsFiniteSet(Users(b)) /\ Cardinality(Users(b)) \in Nat
<1>1. Users(b) \in SUBSET Procs
  BY DEF Users
<1> QED
  BY <1>1, FS_Subset, FS_CardinalityType DEF CacheConstants

(* ... and refcnt is 0 exactly for a buffer that nobody has and is not     *)
(* pinned: the test of bget() for a buffer to recycle.                     *)
LEMMA RefFacts ==
  ASSUME CacheConstants, CacheInv, NEW b \in Bufs
  PROVE  refcnt[b] # 0 <=> b \in pinned \/ \E p \in Procs : buf[p] = b
<1>1. /\ refcnt[b] = Cardinality(Users(b)) + (IF b \in pinned THEN 1 ELSE 0)
      /\ IsFiniteSet(Users(b)) /\ Cardinality(Users(b)) \in Nat
  BY UsersFinite DEF CacheInv, InvRefs
<1>2. Cardinality(Users(b)) = 0 <=> Users(b) = {}
  BY <1>1, FS_EmptySet
<1>3. Users(b) = {} <=> ~\E p \in Procs : buf[p] = b
  BY DEF Users
<1>4. refcnt[b] # 0 <=> b \in pinned \/ Cardinality(Users(b)) # 0
  BY SMTT(60), <1>1
<1> QED
  BY <1>2, <1>3, <1>4

(* A free buffer is neither locked nor pinned nor waited for. *)
LEMMA FreeFacts ==
  ASSUME CacheConstants, CacheInv, NEW b \in Bufs, refcnt[b] = 0
  PROVE  b \notin pinned /\ owner[b] = Free /\ \A p \in Procs : buf[p] # b
<1>1. b \notin pinned /\ \A p \in Procs : buf[p] # b
  BY RefFacts
<1>2. owner[b] \in Procs \cup {Free}
  BY DEF CacheInv, TypeOK
<1> QED
  BY <1>1, <1>2 DEF CacheInv, InvOwner

(* A process that has a buffer. *)
LEMMA BufIs ==
  ASSUME CacheConstants, CacheInv, NEW p \in Procs, pc[p] \notin {"user", "panic"}
  PROVE  /\ buf[p] \in Bufs /\ buf[p] # Head /\ blockno[buf[p]] \in Blocks
         /\ blockno[buf[p]] # NoBlock
<1>1. buf[p] # Head /\ buf[p] \in Bufs \cup {Head}
  BY DEF CacheInv, InvOwner, TypeOK
<1>2. buf[p] \in Bufs /\ blockno[buf[p]] # NoBlock
  BY <1>1 DEF CacheInv, InvBlocks
<1> QED
  BY <1>1, <1>2 DEF CacheInv, TypeOK

(* A process holds the buffer that it has the lock of, alone. *)
LEMMA HoldIs ==
  ASSUME CacheConstants, CacheInv, NEW p \in Procs, Holds(p)
  PROVE  /\ buf[p] \in Bufs /\ blockno[buf[p]] \in Blocks /\ owner[buf[p]] = p /\ p # Free
         /\ \A q \in Procs : q # p /\ Holds(q) => buf[q] # buf[p]
         /\ \A b \in Bufs : blockno[b] = blockno[buf[p]] => b = buf[p]
<1>1. buf[p] \in Bufs /\ blockno[buf[p]] \in Blocks /\ blockno[buf[p]] # NoBlock
  BY BufIs DEF Holds
<1>2. \A q \in Procs : Holds(q) => owner[buf[q]] = q
  BY DEF CacheInv, InvOwner
<1>3. p # Free
  BY DEF CacheConstants
<1>4. \A b \in Bufs : blockno[b] = blockno[buf[p]] => b = buf[p]
  BY <1>1 DEF CacheInv, InvBlocks
<1> QED
  BY <1>1, <1>2, <1>3, <1>4

(* The owner of a sleep lock is in the middle of its use of the buffer. *)
LEMMA OwnerIs ==
  ASSUME CacheInv, NEW b \in Bufs, owner[b] # Free
  PROVE  owner[b] \in Procs /\ Holds(owner[b]) /\ buf[owner[b]] = b
<1>1. owner \in [Bufs -> Procs \cup {Free}] /\ InvOwner
  BY DEF CacheInv, TypeOK
<1>2. owner[b] \in Procs
  BY <1>1
<1> QED
  BY <1>1, <1>2 DEF InvOwner

(* What a process has read is its block's last contents. *)
LEMMA HeldIs ==
  ASSUME CacheConstants, CacheInv, NEW p \in Procs, pc[p] \in {"held", "writing"}
  PROVE  /\ Holds(p) /\ valid[buf[p]] /\ blockno[buf[p]] # NoBlock
         /\ data[buf[p]] = latest[blockno[buf[p]]]
<1>1. Holds(p) /\ valid[buf[p]]
  BY DEF Holds, CacheInv, InvBlocks
<1>2. buf[p] \in Bufs /\ blockno[buf[p]] \in Blocks
  BY <1>1, HoldIs
<1>3. blockno[buf[p]] # NoBlock
  BY <1>2 DEF CacheConstants
<1> QED
  BY <1>1, <1>2, <1>3 DEF CacheInv, InvData

(* A block has one buffer. *)
LEMMA SameBlock ==
  ASSUME CacheInv, NEW a \in Bufs, NEW b \in Bufs, blockno[a] = blockno[b],
         blockno[a] # NoBlock
  PROVE  a = b
BY DEF CacheInv, InvBlocks

(* The scans of bget() see all buffers. *)
LEMMA Scan ==
  ASSUME CacheConstants, CacheInv
  PROVE  /\ \A k : IF Hits(k) = {} THEN \A b \in Bufs : blockno[b] # k
                   ELSE /\ Forward[Min(Hits(k))] \in Bufs
                        /\ blockno[Forward[Min(Hits(k))]] = k
         /\ IF Victims = {} THEN \A b \in Bufs : refcnt[b] # 0
            ELSE Backward[Min(Victims)] \in Bufs /\ refcnt[Backward[Min(Victims)]] = 0
<1>1. TypeOK /\ recency \in [Bufs -> Bufs] /\ Permutes(recency)
  BY DEF CacheInv, TypeOK, InvList
<1>2. Forward = recency /\ \A k \in Bufs : Backward[k] = recency[NBUF + 1 - k]
  BY ListIs DEF CacheInv
<1>3. \A k \in Bufs : NBUF + 1 - k \in Bufs /\ NBUF + 1 - (NBUF + 1 - k) = k
  BY SMTT(60) DEF CacheConstants, Bufs
<1>4. Bufs \in SUBSET Nat
  BY SMTT(60) DEF CacheConstants, Bufs
<1>5. \A S \in SUBSET Bufs : S # {} => Min(S) \in S
  BY <1>4, MinIsLeast
<1>6. ASSUME NEW k
      PROVE  IF Hits(k) = {} THEN \A b \in Bufs : blockno[b] # k
             ELSE Forward[Min(Hits(k))] \in Bufs /\ blockno[Forward[Min(Hits(k))]] = k
  <2>1. CASE Hits(k) = {}
    <3>1. ASSUME NEW b \in Bufs PROVE blockno[b] # k
      <4>1. PICK j \in Bufs : recency[j] = b
        BY <1>1 DEF Permutes
      <4> QED
        BY <1>2, <2>1, <4>1 DEF Hits
    <3> QED
      BY <2>1, <3>1
  <2>2. CASE Hits(k) # {}
    <3>1. Hits(k) \in SUBSET Bufs
      BY DEF Hits
    <3>2. Min(Hits(k)) \in Hits(k)
      BY <1>5, <2>2, <3>1
    <3>3. Min(Hits(k)) \in Bufs /\ blockno[Forward[Min(Hits(k))]] = k
      BY <3>2 DEF Hits
    <3> QED
      BY <1>1, <1>2, <2>2, <3>3
  <2> QED
    BY <2>1, <2>2
<1>7. IF Victims = {} THEN \A b \in Bufs : refcnt[b] # 0
      ELSE Backward[Min(Victims)] \in Bufs /\ refcnt[Backward[Min(Victims)]] = 0
  <2>1. CASE Victims = {}
    <3>1. ASSUME NEW b \in Bufs PROVE refcnt[b] # 0
      <4>1. PICK j \in Bufs : recency[j] = b
        BY <1>1 DEF Permutes
      <4>2. NBUF + 1 - j \in Bufs /\ Backward[NBUF + 1 - j] = b
        BY <1>2, <1>3, <4>1
      <4> QED
        BY <2>1, <4>2 DEF Victims
    <3> QED
      BY <2>1, <3>1
  <2>2. CASE Victims # {}
    <3>1. Victims \in SUBSET Bufs
      BY DEF Victims
    <3>2. Min(Victims) \in Victims
      BY <1>5, <2>2, <3>1
    <3>3. Min(Victims) \in Bufs /\ refcnt[Backward[Min(Victims)]] = 0
      BY <3>2 DEF Victims
    <3> QED
      BY <1>1, <1>2, <1>3, <2>2, <3>3
  <2> QED
    BY <2>1, <2>2
<1> QED
  BY <1>6, <1>7

(* There is a free buffer if there are enough for all processes and pins. *)
LEMMA SomeVictim ==
  ASSUME CacheConstants, CacheInv, NEW p \in Procs, pc[p] = "user",
         Cardinality(Procs) + MaxPins <= NBUF
  PROVE  \E b \in Bufs : refcnt[b] = 0
<1> SUFFICES ASSUME \A b \in Bufs : refcnt[b] # 0 PROVE FALSE
  OBVIOUS
<1> DEFINE S == Procs \ {p}
           T == {buf[q] : q \in S}
           f == [q \in S |-> buf[q]]
<1>1. buf[p] = Head /\ IsFiniteSet(Procs) /\ Cardinality(Procs) \in Nat
  BY FS_CardinalityType DEF CacheInv, InvOwner, CacheConstants
<1>2. \A b \in Bufs : b # Head
  BY Places
<1>3. Bufs \in SUBSET (T \cup pinned)
  BY <1>1, <1>2, RefFacts
<1>4. IsFiniteSet(S) /\ Cardinality(S) = Cardinality(Procs) - 1
  BY <1>1, FS_RemoveElement
<1>5. f \in Surjection(S, T)
  BY DEF Surjection
<1>6. IsFiniteSet(pinned) /\ Cardinality(pinned) <= MaxPins /\ Cardinality(pinned) \in Nat
  BY FS_CardinalityType DEF CacheInv, InvRefs
<1> HIDE DEF S, T, f
<1>7. IsFiniteSet(T) /\ Cardinality(T) <= Cardinality(S) /\ Cardinality(T) \in Nat
  BY <1>4, <1>5, FS_Surjection, FS_CardinalityType
<1>8. /\ IsFiniteSet(T \cup pinned)
      /\ Cardinality(T \cup pinned)
           = Cardinality(T) + Cardinality(pinned) - Cardinality(T \cap pinned)
  BY <1>6, <1>7, FS_Union
<1>9. Cardinality(T \cap pinned) \in Nat
  <2>1. T \cap pinned \in SUBSET T
    OBVIOUS
  <2> QED
    BY <1>7, <2>1, FS_Subset, FS_CardinalityType
<1>10. Cardinality(Bufs) <= Cardinality(T \cup pinned)
  BY <1>3, <1>8, FS_Subset
<1>11. Cardinality(Bufs) = NBUF /\ NBUF \in Nat /\ MaxPins \in Nat
  <2>1. 1 \in Int /\ NBUF \in Int /\ ~(1 > NBUF) /\ NBUF - 1 + 1 = NBUF /\ NBUF \in Nat
    BY SMTT(60) DEF CacheConstants
  <2> QED
    BY <2>1, FS_Interval DEF Bufs, CacheConstants
<1> QED
  BY SMTT(60), <1>1, <1>4, <1>6, <1>7, <1>8, <1>9, <1>10, <1>11

-----------------------------------------------------------------------------
(* What a step leaves alone keeps its part of the invariant: the counts,   *)
LEMMA RefsKept ==
  ASSUME CacheInv, UNCHANGED <<refcnt, buf, pinned>>
  PROVE  InvRefs'
BY DEF CacheInv, InvRefs, Users

(* the list, *)
LEMMA ListKept ==
  ASSUME CacheInv, UNCHANGED <<list, recency>>
  PROVE  InvList'
BY DEF CacheInv, InvList, Links, Permutes

(* the contents, *)
LEMMA DataKept ==
  ASSUME CacheInv, UNCHANGED <<blockno, valid, data, latest, disk, pinned, owner>>
  PROVE  InvData'
BY DEF CacheInv, InvData

(* A process is given buffer b. *)
LEMMA RefsTaken ==
  ASSUME CacheConstants, CacheInv, NEW p \in Procs, NEW b \in Bufs, buf[p] = Head,
         buf' = [buf EXCEPT ![p] = b], refcnt' = [refcnt EXCEPT ![b] = refcnt[b] + 1],
         pinned' = pinned
  PROVE  InvRefs'
<1>1. buf \in [Procs -> Bufs \cup {Head}] /\ refcnt \in [Bufs -> Nat] /\ InvRefs
  BY DEF CacheInv, TypeOK
<1>2. \A c \in Bufs : c # Head
  BY Places
<1>3. Users(b)' = Users(b) \cup {p} /\ p \notin Users(b)
  BY <1>1, <1>2 DEF Users
<1>4. \A c \in Bufs : c # b => Users(c)' = Users(c)
  BY <1>1, <1>2 DEF Users
<1>5. IsFiniteSet(Users(b)) /\ Cardinality(Users(b)) \in Nat
  BY UsersFinite
<1>6. Cardinality(Users(b)') = Cardinality(Users(b)) + 1
  BY <1>3, <1>5, FS_AddElement
<1>7. ASSUME NEW c \in Bufs
      PROVE  refcnt'[c] = Cardinality(Users(c)') + (IF c \in pinned THEN 1 ELSE 0)
  <2>1. refcnt[c] = Cardinality(Users(c)) + (IF c \in pinned THEN 1 ELSE 0)
    BY <1>1 DEF InvRefs
  <2>2. CASE c = b
    <3>1. (Cardinality(Users(b)) + (IF b \in pinned THEN 1 ELSE 0)) + 1
            = (Cardinality(Users(b)) + 1) + (IF b \in pinned THEN 1 ELSE 0)
      BY SMTT(60), <1>5
    <3> QED
      BY <1>1, <1>6, <2>1, <2>2, <3>1
  <2>3. CASE c # b
    BY <1>1, <1>4, <2>1, <2>3
  <2> QED
    BY <2>2, <2>3
<1> QED
  BY <1>1, <1>7 DEF InvRefs

(* The position of a process that takes a buffer. *)
LEMMA TakenFacts ==
  ASSUME CacheConstants, CacheInv, NEW p \in Procs, NEW b \in Bufs, pc[p] = "user",
         buf' = [buf EXCEPT ![p] = b], pc' = [pc EXCEPT ![p] = "lock"], owner' = owner,
         valid' = valid \/ (refcnt[b] = 0 /\ valid' = [valid EXCEPT ![b] = FALSE])
  PROVE  /\ buf'[p] = b /\ pc'[p] = "lock"
         /\ \A q \in Procs : q # p => buf'[q] = buf[q] /\ pc'[q] = pc[q]
         /\ buf' \in [Procs -> Bufs \cup {Head}] /\ InvOwner' /\ InvPc'
         /\ pc' \in [Procs -> {"user", "lock", "reading", "held", "writing", "brelse", "panic"}]
         /\ \A q \in Procs : pc'[q] \in {"held", "writing"} => valid'[buf'[q]]
         /\ \A q \in Procs : pc'[q] = "reading" => ~valid'[buf'[q]]
<1>1. TypeOK /\ InvOwner /\ InvBlocks /\ InvPc
  BY DEF CacheInv
<1>2. /\ buf'[p] = b /\ pc'[p] = "lock"
      /\ \A q \in Procs : q # p => buf'[q] = buf[q] /\ pc'[q] = pc[q]
      /\ buf' \in [Procs -> Bufs \cup {Head}]
      /\ pc' \in [Procs -> {"user", "lock", "reading", "held", "writing", "brelse", "panic"}]
  BY <1>1 DEF TypeOK
<1>3. b # Head
  BY Places
<1>4. InvOwner'
  <2>1. \A q \in Procs : buf'[q] = Head <=> pc'[q] \in {"user", "panic"}
    BY <1>1, <1>2, <1>3 DEF InvOwner
  <2>2. \A q \in Procs : Holds(q)' => q # p /\ Holds(q)
    BY <1>2 DEF Holds
  <2>3. \A q \in Procs : q # p => (Holds(q)' <=> Holds(q))
    BY <1>2 DEF Holds
  <2>4. \A q \in Procs : Holds(q)' => owner'[buf'[q]] = q
    <3> SUFFICES ASSUME NEW q \in Procs, Holds(q)' PROVE owner'[buf'[q]] = q
      OBVIOUS
    <3>1. q # p /\ owner[buf[q]] = q
      BY <1>1, <2>2 DEF InvOwner
    <3> QED
      BY <1>2, <3>1
  <2>5. ASSUME NEW c \in Bufs, owner'[c] # Free PROVE Holds(owner[c])' /\ buf'[owner'[c]] = c
    <3>1. owner[c] \in Procs /\ Holds(owner[c]) /\ buf[owner[c]] = c
      BY <2>5, OwnerIs
    <3>2. owner[c] # p
      BY <3>1 DEF Holds
    <3> QED
      BY <1>2, <3>1, <3>2 DEF Holds
  <2> QED
    BY <2>1, <2>4, <2>5 DEF InvOwner, Holds
<1>5. InvPc'
  BY <1>1, <1>2 DEF InvPc, NoPanic
<1>6. ASSUME NEW q \in Procs
      PROVE  /\ pc'[q] \in {"held", "writing"} => valid'[buf'[q]]
             /\ pc'[q] = "reading" => ~valid'[buf'[q]]
  <2>1. CASE q = p
    BY <1>2, <2>1
  <2>2. CASE q # p /\ pc[q] \in {"held", "writing", "reading"}
    <3>1. buf[q] # b \/ valid' = valid
      BY FreeFacts
    <3>2. buf[q] \in Bufs /\ valid'[buf[q]] = valid[buf[q]]
      BY <1>1, <2>2, <3>1, BufIs DEF TypeOK
    <3> QED
      BY <1>1, <1>2, <2>2, <3>2 DEF InvBlocks
  <2>3. CASE q # p /\ pc[q] \notin {"held", "writing", "reading"}
    BY <1>2, <2>3
  <2> QED
    BY <2>1, <2>2, <2>3
<1> QED
  BY <1>2, <1>4, <1>5, <1>6

(* bget() of a cached block. *)
LEMMA BgetHitInv ==
  ASSUME CacheConstants, CacheInv, NEW p \in Procs, NEW k \in Blocks, BgetHit(p, k)
  PROVE  CacheInv'
<1>1. PICK b : b = Forward[Min(Hits(k))]
  OBVIOUS
<1>2. /\ pc[p] = "user" /\ Hits(k) # {} /\ refcnt' = [refcnt EXCEPT ![b] = refcnt[b] + 1]
      /\ buf' = [buf EXCEPT ![p] = b] /\ pc' = [pc EXCEPT ![p] = "lock"]
      /\ UNCHANGED <<blockno, valid, data, owner, list, disk, pinned, latest, recency>>
  BY <1>1 DEF BgetHit, Goto
<1>3. b \in Bufs /\ blockno[b] = k /\ k # NoBlock
  BY <1>1, <1>2, Scan DEF CacheConstants
<1>4. TypeOK /\ buf[p] = Head /\ InvBlocks
  BY <1>2 DEF CacheInv, InvOwner
<1>5. /\ buf'[p] = b /\ \A q \in Procs : q # p => buf'[q] = buf[q]
      /\ buf' \in [Procs -> Bufs \cup {Head}] /\ InvOwner' /\ InvPc'
      /\ pc' \in [Procs -> {"user", "lock", "reading", "held", "writing", "brelse", "panic"}]
      /\ \A q \in Procs : pc'[q] \in {"held", "writing"} => valid'[buf'[q]]
      /\ \A q \in Procs : pc'[q] = "reading" => ~valid'[buf'[q]]
  BY <1>2, <1>3, TakenFacts
<1>6. TypeOK'
  <2>1. refcnt \in [Bufs -> Nat] /\ refcnt[b] + 1 \in Nat
    BY SMTT(60), <1>3, <1>4 DEF TypeOK
  <2>2. refcnt' \in [Bufs -> Nat]
    BY <1>2, <2>1
  <2> QED
    BY <1>2, <1>4, <1>5, <2>2 DEF TypeOK
<1>7. InvRefs'
  BY <1>2, <1>3, <1>4, RefsTaken
<1>8. InvBlocks'
  <2>1. \A q \in Procs : buf'[q] # Head => blockno'[buf'[q]] # NoBlock
    BY <1>2, <1>3, <1>4, <1>5 DEF InvBlocks
  <2> QED
    BY SMTT(60), <1>2, <1>4, <1>5, <2>1 DEF InvBlocks
<1> QED
  BY <1>2, <1>5, <1>6, <1>7, <1>8, DataKept, ListKept DEF CacheInv

(* bget() that recycles a buffer: nobody has it, and the disk has the       *)
(* contents of its old block.                                              *)
LEMMA BgetMissInv ==
  ASSUME CacheConstants, CacheInv, NEW p \in Procs, NEW k \in Blocks, BgetMiss(p, k)
  PROVE  CacheInv'
<1>1. /\ pc[p] = "user" /\ Hits(k) = {}
      /\ UNCHANGED <<data, owner, list, disk, pinned, latest, recency>>
  BY DEF BgetMiss
<1>2. TypeOK /\ buf[p] = Head /\ InvBlocks /\ InvOwner /\ InvData /\ InvPc
  BY <1>1 DEF CacheInv, InvOwner
<1>3. CASE Victims = {}
  <2>1. pc' = [pc EXCEPT ![p] = "panic"] /\ UNCHANGED <<blockno, valid, refcnt, buf>>
    BY <1>3 DEF BgetMiss, Goto
  <2>2. ~(Cardinality(Procs) + MaxPins <= NBUF)
    BY <1>1, <1>3, Scan, SomeVictim
  <2>3. /\ pc'[p] = "panic" /\ \A q \in Procs : q # p => pc'[q] = pc[q]
        /\ pc' \in [Procs -> {"user", "lock", "reading", "held", "writing", "brelse", "panic"}]
    BY <1>2, <2>1 DEF TypeOK
  <2>4. TypeOK'
    BY <1>1, <1>2, <2>1, <2>3 DEF TypeOK
  <2>5. \A q \in Procs : Holds(q)' <=> Holds(q)
    BY <1>1, <2>3 DEF Holds
  <2>6. InvOwner'
    <3>1. \A q \in Procs : buf'[q] = Head <=> pc'[q] \in {"user", "panic"}
      BY <1>1, <1>2, <2>1, <2>3 DEF InvOwner
    <3>2. ASSUME NEW c \in Bufs, owner'[c] # Free PROVE Holds(owner[c])' /\ buf'[owner'[c]] = c
      <4>1. owner[c] \in Procs /\ Holds(owner[c]) /\ buf[owner[c]] = c
        BY <1>1, <3>2, OwnerIs
      <4> QED
        BY <1>1, <2>1, <2>5, <4>1 DEF Holds
    <3> QED
      BY <1>1, <1>2, <2>1, <2>5, <3>1, <3>2 DEF InvOwner, Holds
  <2>7. InvBlocks'
    BY SMTT(60), <1>1, <1>2, <2>1, <2>3 DEF InvBlocks
  <2>8. InvPc'
    BY <2>2 DEF InvPc, NoPanic
  <2> QED
    BY <1>1, <2>1, <2>4, <2>6, <2>7, <2>8, RefsKept, DataKept, ListKept DEF CacheInv
<1>4. CASE Victims # {}
  <2>1. PICK b : b = Backward[Min(Victims)]
    OBVIOUS
  <2>2. /\ blockno' = [blockno EXCEPT ![b] = k] /\ valid' = [valid EXCEPT ![b] = FALSE]
        /\ refcnt' = [refcnt EXCEPT ![b] = 1] /\ buf' = [buf EXCEPT ![p] = b]
        /\ pc' = [pc EXCEPT ![p] = "lock"]
    BY <1>4, <2>1 DEF BgetMiss, Goto
  <2>3. b \in Bufs /\ refcnt[b] = 0 /\ k # NoBlock /\ \A c \in Bufs : blockno[c] # k
    BY <1>1, <1>4, <2>1, Scan DEF CacheConstants
  <2>4. b \notin pinned /\ owner[b] = Free /\ \A q \in Procs : buf[q] # b
    BY <2>3, FreeFacts
  <2>5. /\ buf'[p] = b /\ \A q \in Procs : q # p => buf'[q] = buf[q]
        /\ buf' \in [Procs -> Bufs \cup {Head}] /\ InvOwner' /\ InvPc'
        /\ pc' \in [Procs -> {"user", "lock", "reading", "held", "writing", "brelse", "panic"}]
        /\ \A q \in Procs : pc'[q] \in {"held", "writing"} => valid'[buf'[q]]
        /\ \A q \in Procs : pc'[q] = "reading" => ~valid'[buf'[q]]
    BY <1>1, <2>2, <2>3, TakenFacts
  <2>6. /\ blockno'[b] = k /\ ~valid'[b]
        /\ \A c \in Bufs : c # b => blockno'[c] = blockno[c] /\ valid'[c] = valid[c]
        /\ blockno' \in [Bufs -> Blocks \cup {NoBlock}] /\ valid' \in [Bufs -> BOOLEAN]
    BY <1>2, <2>2, <2>3 DEF TypeOK
  <2>7. 0 + 1 = 1 /\ 1 \in Nat
    BY SMTT(60)
  <2>8. TypeOK'
    BY <1>1, <1>2, <2>2, <2>5, <2>6, <2>7 DEF TypeOK
  <2>9. InvRefs'
    BY <1>1, <1>2, <2>2, <2>3, <2>7, RefsTaken
  <2>10. InvBlocks'
    <3>1. ASSUME NEW c \in Bufs, NEW d \in Bufs, blockno'[c] = blockno'[d], blockno'[c] # NoBlock
          PROVE  c = d
      <4>1. CASE c # b /\ d # b
        <5>1. blockno[c] = blockno[d] /\ blockno[c] # NoBlock
          BY <2>6, <3>1, <4>1
        <5> QED
          BY <5>1, SameBlock
      <4>2. CASE c = b \/ d = b
        BY <2>3, <2>6, <3>1, <4>2
      <4> QED
        BY <4>1, <4>2
    <3>2. ASSUME NEW q \in Procs, buf'[q] # Head PROVE blockno'[buf'[q]] # NoBlock
      <4>1. CASE q = p
        BY <2>3, <2>5, <2>6, <4>1
      <4>2. CASE q # p
        <5>1. buf[q] \in Bufs /\ buf[q] # b /\ buf[q] # Head
          BY <1>2, <2>4, <2>5, <3>2, <4>2 DEF TypeOK
        <5> QED
          BY SMTT(60), <1>2, <2>5, <2>6, <4>2, <5>1 DEF InvBlocks
      <4> QED
        BY <4>1, <4>2
    <3>3. \A c \in pinned' : blockno'[c] # NoBlock /\ valid'[c]
      <4>1. pinned \subseteq Bufs
        BY <1>2 DEF TypeOK
      <4> QED
        BY <1>1, <1>2, <2>4, <2>6, <4>1 DEF InvBlocks
    <3> QED
      BY <2>5, <3>1, <3>2, <3>3 DEF InvBlocks
  <2>11. InvData'
    <3>1. ASSUME NEW c \in Bufs, valid'[c], blockno'[c] # NoBlock
          PROVE  data'[c] = latest'[blockno'[c]]
      <4>1. c # b
        BY <2>6, <3>1
      <4>2. valid[c] /\ blockno[c] # NoBlock /\ blockno'[c] = blockno[c]
        BY <2>6, <3>1, <4>1
      <4> QED
        BY <1>1, <1>2, <4>2 DEF InvData
    <3>2. ASSUME NEW j \in Blocks, disk'[j] # latest'[j]
          PROVE  \E c \in Bufs : blockno'[c] = j /\ valid'[c] /\ (c \in pinned' \/ owner'[c] # Free)
      <4>1. PICK c \in Bufs : blockno[c] = j /\ valid[c] /\ (c \in pinned \/ owner[c] # Free)
        BY <1>1, <1>2, <3>2 DEF InvData
      <4>2. c # b
        BY <2>4, <4>1
      <4> QED
        BY <1>1, <2>6, <4>1, <4>2
    <3> QED
      BY <3>1, <3>2 DEF InvData
  <2> QED
    BY <1>1, <2>5, <2>8, <2>9, <2>10, <2>11, ListKept DEF CacheInv
<1> QED
  BY <1>3, <1>4

(* the sleep locks. *)
LEMMA OwnerKept ==
  ASSUME CacheInv, UNCHANGED <<pc, buf, owner>>
  PROVE  InvOwner' /\ InvPc'
<1>1. InvOwner /\ InvPc /\ \A q : Holds(q)' <=> Holds(q)
  BY DEF CacheInv, Holds
<1>2. InvPc'
  BY <1>1 DEF InvPc, NoPanic
<1>3. ASSUME NEW c \in Bufs, owner'[c] # Free PROVE Holds(owner[c])' /\ buf'[owner'[c]] = c
  <2>1. Holds(owner[c]) /\ buf[owner[c]] = c
    BY <1>3, OwnerIs
  <2> QED
    BY <1>1, <2>1 DEF Holds
<1> QED
  BY <1>1, <1>2, <1>3 DEF InvOwner, Holds

(* A process that holds a buffer goes on with it. *)
LEMMA HoldingMoves ==
  ASSUME CacheConstants, CacheInv, NEW p \in Procs, Holds(p),
         NEW l \in {"reading", "held", "writing"},
         pc' = [pc EXCEPT ![p] = l], UNCHANGED <<buf, owner>>
  PROVE  /\ InvOwner' /\ InvPc'
         /\ pc' \in [Procs -> {"user", "lock", "reading", "held", "writing", "brelse", "panic"}]
         /\ pc'[p] = l /\ \A q \in Procs : q # p => pc'[q] = pc[q]
<1>1. TypeOK /\ InvOwner /\ InvPc
  BY DEF CacheInv
<1>2. /\ pc' \in [Procs -> {"user", "lock", "reading", "held", "writing", "brelse", "panic"}]
      /\ pc'[p] = l /\ \A q \in Procs : q # p => pc'[q] = pc[q]
  BY <1>1 DEF TypeOK
<1>3. l \notin {"user", "panic", "lock", "brelse"}
  OBVIOUS
<1>4. pc[p] \notin {"user", "panic"}
  BY DEF Holds
<1>5. \A q \in Procs : Holds(q)' <=> Holds(q)
  BY <1>2 DEF Holds
<1>6. \A q \in Procs : buf'[q] = Head <=> pc'[q] \in {"user", "panic"}
  BY <1>1, <1>2, <1>3, <1>4 DEF InvOwner
<1>7. ASSUME NEW c \in Bufs, owner'[c] # Free PROVE Holds(owner[c])' /\ buf'[owner'[c]] = c
  <2>1. owner[c] \in Procs /\ Holds(owner[c]) /\ buf[owner[c]] = c
    BY <1>7, OwnerIs
  <2> QED
    BY <1>5, <2>1 DEF Holds
<1>8. InvOwner'
  BY <1>1, <1>5, <1>6, <1>7 DEF InvOwner, Holds
<1>9. InvPc'
  BY <1>1, <1>2, <1>3 DEF InvPc, NoPanic
<1> QED
  BY <1>2, <1>8, <1>9

(* acquiresleep() in bget(). *)
LEMMA LockInv ==
  ASSUME CacheConstants, CacheInv, NEW p \in Procs, Lock(p)
  PROVE  CacheInv'
<1>1. PICK b, l : b = buf[p] /\ l = IF MustRead(b) THEN "reading" ELSE "held"
  OBVIOUS
<1>2. /\ pc[p] = "lock" /\ owner[b] = Free /\ owner' = [owner EXCEPT ![b] = p]
      /\ pc' = [pc EXCEPT ![p] = l]
      /\ UNCHANGED <<blockno, valid, refcnt, data, list, disk, pinned, buf, latest, recency>>
  BY <1>1 DEF Lock, Goto
<1>3. b \in Bufs /\ blockno[b] \in Blocks
  BY <1>1, <1>2, BufIs
<1>4. TypeOK /\ InvOwner /\ InvBlocks /\ InvData /\ InvPc
  BY DEF CacheInv
<1>5. l \in {"reading", "held"} /\ (l = "reading" <=> ~valid[b])
  BY <1>1, <1>3, <1>4 DEF MustRead, TypeOK
<1>6. /\ pc' \in [Procs -> {"user", "lock", "reading", "held", "writing", "brelse", "panic"}]
      /\ pc'[p] = l /\ \A q \in Procs : q # p => pc'[q] = pc[q]
      /\ owner' \in [Bufs -> Procs \cup {Free}]
      /\ owner'[b] = p /\ \A c \in Bufs : c # b => owner'[c] = owner[c]
  BY <1>2, <1>3, <1>4, <1>5 DEF TypeOK
<1>7. TypeOK'
  BY <1>2, <1>4, <1>6 DEF TypeOK
<1>8. Holds(p)' /\ \A q \in Procs : q # p => (Holds(q)' <=> Holds(q))
  BY <1>5, <1>6 DEF Holds
<1>9. InvOwner'
  <2>1. \A q \in Procs : buf'[q] = Head <=> pc'[q] \in {"user", "panic"}
    BY <1>2, <1>4, <1>5, <1>6 DEF InvOwner
  <2>2. ASSUME NEW q \in Procs, Holds(q)' PROVE owner'[buf'[q]] = q
    <3>1. CASE q = p
      BY <1>1, <1>2, <1>6, <3>1
    <3>2. CASE q # p
      <4>1. Holds(q)
        BY <1>8, <2>2, <3>2
      <4>2. owner[buf[q]] = q /\ buf[q] \in Bufs /\ q # Free
        BY <4>1, HoldIs
      <4> QED
        BY <1>2, <1>6, <4>2
    <3> QED
      BY <3>1, <3>2
  <2>3. ASSUME NEW c \in Bufs, owner'[c] # Free
        PROVE  pc'[owner'[c]] \in {"reading", "held", "writing"} /\ buf'[owner'[c]] = c
    <3>1. CASE c = b
      BY <1>1, <1>2, <1>5, <1>6, <3>1
    <3>2. CASE c # b
      <4>1. owner[c] \in Procs /\ Holds(owner[c]) /\ buf[owner[c]] = c /\ owner'[c] = owner[c]
        BY <1>6, <2>3, <3>2, OwnerIs
      <4>2. owner[c] # p
        BY <1>1, <3>2, <4>1
      <4> QED
        BY <1>2, <1>6, <4>1, <4>2 DEF Holds
    <3> QED
      BY <3>1, <3>2
  <2> QED
    BY <2>1, <2>2, <2>3 DEF InvOwner, Holds
<1>10. InvBlocks'
  <2>1. \A q \in Procs : /\ pc'[q] \in {"held", "writing"} => valid'[buf'[q]]
                         /\ pc'[q] = "reading" => ~valid'[buf'[q]]
    BY SMTT(60), <1>1, <1>2, <1>4, <1>5, <1>6 DEF InvBlocks, TypeOK
  <2> QED
    BY <1>2, <1>4, <2>1 DEF InvBlocks
<1>11. InvData'
  <2>1. \A c \in Bufs : owner[c] # Free => owner'[c] # Free
    BY <1>2, <1>6
  <2> QED
    BY <1>2, <1>4, <2>1 DEF InvData
<1>12. InvPc'
  BY <1>4, <1>5, <1>6 DEF InvPc, NoPanic
<1> QED
  BY <1>2, <1>7, <1>9, <1>10, <1>11, <1>12, RefsKept, ListKept DEF CacheInv

(* The end of the read in bread(): no valid buffer has the block, so the    *)
(* disk has its last contents.                                             *)
LEMMA ReadDoneInv ==
  ASSUME CacheConstants, CacheInv, NEW p \in Procs, ReadDone(p)
  PROVE  CacheInv'
<1>1. PICK b, k : b = buf[p] /\ k = blockno[b]
  OBVIOUS
<1>2. /\ pc[p] = "reading" /\ data' = [data EXCEPT ![b] = disk[k]]
      /\ valid' = [valid EXCEPT ![b] = TRUE] /\ pc' = [pc EXCEPT ![p] = "held"]
      /\ UNCHANGED <<blockno, refcnt, owner, list, disk, pinned, buf, latest, recency>>
  BY <1>1 DEF ReadDone, Goto
<1>3. /\ b \in Bufs /\ k \in Blocks /\ owner[b] = p /\ p # Free /\ ~valid[b] /\ Holds(p)
      /\ \A q \in Procs : q # p /\ Holds(q) => buf[q] # b
      /\ \A c \in Bufs : blockno[c] = k => c = b
  BY <1>1, <1>2, HoldIs DEF Holds, CacheInv, InvBlocks
<1>4. TypeOK /\ InvBlocks /\ InvData
  BY DEF CacheInv
<1>5. /\ InvOwner' /\ InvPc'
      /\ pc' \in [Procs -> {"user", "lock", "reading", "held", "writing", "brelse", "panic"}]
      /\ pc'[p] = "held" /\ \A q \in Procs : q # p => pc'[q] = pc[q]
  BY <1>2, <1>3, HoldingMoves
<1>6. disk[k] = latest[k] /\ disk[k] \in Data
  BY SMTT(60), <1>3, <1>4 DEF InvData, TypeOK
<1>7. /\ valid'[b] /\ data'[b] = disk[k]
      /\ \A c \in Bufs : c # b => valid'[c] = valid[c] /\ data'[c] = data[c]
      /\ valid' \in [Bufs -> BOOLEAN] /\ data' \in [Bufs -> Data]
  BY <1>2, <1>3, <1>4, <1>6 DEF TypeOK
<1>8. TypeOK'
  BY <1>2, <1>4, <1>5, <1>7 DEF TypeOK
<1>9. InvBlocks'
  <2>1. ASSUME NEW q \in Procs
        PROVE  /\ pc'[q] \in {"held", "writing"} => valid'[buf'[q]]
               /\ pc'[q] = "reading" => ~valid'[buf'[q]]
    <3>1. CASE q = p
      BY <1>1, <1>2, <1>5, <1>7, <3>1
    <3>2. CASE q # p /\ Holds(q)
      <4>1. buf[q] # b /\ buf[q] \in Bufs
        BY <1>3, <3>2, HoldIs
      <4> QED
        BY SMTT(60), <1>2, <1>4, <1>5, <1>7, <3>2, <4>1 DEF InvBlocks
    <3>3. CASE q # p /\ ~Holds(q)
      BY <1>5, <3>3 DEF Holds
    <3> QED
      BY <3>1, <3>2, <3>3
  <2>2. \A c \in pinned' : blockno'[c] # NoBlock /\ valid'[c]
    <3>1. pinned \subseteq Bufs
      BY <1>4 DEF TypeOK
    <3> QED
      BY <1>2, <1>4, <1>7, <3>1 DEF InvBlocks
  <2> QED
    BY <1>2, <1>4, <2>1, <2>2 DEF InvBlocks
<1>10. InvData'
  <2>1. ASSUME NEW c \in Bufs, valid'[c], blockno'[c] # NoBlock
        PROVE  data'[c] = latest'[blockno'[c]]
    <3>1. CASE c = b
      BY <1>1, <1>2, <1>6, <1>7, <3>1
    <3>2. CASE c # b
      BY <1>2, <1>4, <1>7, <2>1, <3>2 DEF InvData
    <3> QED
      BY <3>1, <3>2
  <2>2. ASSUME NEW j \in Blocks, disk'[j] # latest'[j]
        PROVE  \E c \in Bufs : blockno'[c] = j /\ valid'[c] /\ (c \in pinned' \/ owner'[c] # Free)
    <3>1. PICK c \in Bufs : blockno[c] = j /\ valid[c] /\ (c \in pinned \/ owner[c] # Free)
      BY <1>2, <1>4, <2>2 DEF InvData
    <3> QED
      BY <1>2, <1>7, <3>1
  <2> QED
    BY <2>1, <2>2 DEF InvData
<1> QED
  BY <1>2, <1>5, <1>8, <1>9, <1>10, RefsKept, ListKept DEF CacheInv

(* A caller writes b->data. *)
LEMMA ModifyInv ==
  ASSUME CacheConstants, CacheInv, NEW p \in Procs, NEW v \in Data, Modify(p, v)
  PROVE  CacheInv'
<1>1. PICK b, k : b = buf[p] /\ k = blockno[b]
  OBVIOUS
<1>2. /\ pc[p] = "held" /\ data' = [data EXCEPT ![b] = v] /\ latest' = [latest EXCEPT ![k] = v]
      /\ UNCHANGED <<blockno, valid, refcnt, owner, list, disk, pinned, pc, buf, recency>>
  BY <1>1 DEF Modify
<1>3. /\ b \in Bufs /\ k \in Blocks /\ owner[b] = p /\ p # Free /\ valid[b]
      /\ \A c \in Bufs : blockno[c] = k => c = b
  BY <1>1, <1>2, HoldIs DEF Holds, CacheInv, InvBlocks
<1>4. TypeOK /\ InvBlocks /\ InvData
  BY DEF CacheInv
<1>5. /\ data'[b] = v /\ latest'[k] = v
      /\ \A c \in Bufs : c # b => data'[c] = data[c]
      /\ \A j \in Blocks : j # k => latest'[j] = latest[j]
      /\ data' \in [Bufs -> Data] /\ latest' \in [Blocks -> Data]
  BY <1>2, <1>3, <1>4 DEF TypeOK
<1>6. TypeOK'
  BY <1>2, <1>4, <1>5 DEF TypeOK
<1>7. InvBlocks'
  BY <1>2, <1>4 DEF InvBlocks
<1>8. InvData'
  <2>1. ASSUME NEW c \in Bufs, valid'[c], blockno'[c] # NoBlock
        PROVE  data'[c] = latest'[blockno'[c]]
    <3>1. CASE c = b
      BY <1>1, <1>2, <1>5, <3>1
    <3>2. CASE c # b
      <4>1. blockno[c] \in Blocks /\ blockno[c] # k /\ valid[c] /\ blockno[c] # NoBlock
        BY <1>2, <1>3, <1>4, <2>1, <3>2 DEF TypeOK
      <4>2. data[c] = latest[blockno[c]]
        BY <1>4, <4>1 DEF InvData
      <4> QED
        BY <1>2, <1>5, <3>2, <4>1, <4>2
    <3> QED
      BY <3>1, <3>2
  <2>2. ASSUME NEW j \in Blocks, disk'[j] # latest'[j]
        PROVE  \E c \in Bufs : blockno'[c] = j /\ valid'[c] /\ (c \in pinned' \/ owner'[c] # Free)
    <3>1. CASE j = k
      BY <1>1, <1>2, <1>3, <3>1
    <3>2. CASE j # k
      BY <1>2, <1>4, <1>5, <2>2, <3>2 DEF InvData
    <3> QED
      BY <3>1, <3>2
  <2> QED
    BY <2>1, <2>2 DEF InvData
<1> QED
  BY <1>2, <1>6, <1>7, <1>8, RefsKept, ListKept, OwnerKept DEF CacheInv

(* bwrite(). *)
LEMMA WriteInv ==
  ASSUME CacheConstants, CacheInv, NEW p \in Procs, WriteStart(p) \/ WriteDone(p)
  PROVE  CacheInv'
<1>1. PICK b, k : b = buf[p] /\ k = blockno[b]
  OBVIOUS
<1>2. pc[p] \in {"held", "writing"}
  BY DEF WriteStart, WriteDone
<1>3. /\ b \in Bufs /\ k \in Blocks /\ owner[b] = p /\ p # Free /\ valid[b] /\ Holds(p)
      /\ \A c \in Bufs : blockno[c] = k => c = b
  BY <1>1, <1>2, HoldIs DEF Holds, CacheInv, InvBlocks
<1>4. PICK l \in {"reading", "held", "writing"} :
        /\ l # "reading" /\ pc' = [pc EXCEPT ![p] = l]
        /\ disk' = disk \/ disk' = [disk EXCEPT ![k] = data[b]]
        /\ UNCHANGED <<cache, pinned, buf, latest, recency>>
  BY <1>1, <1>3 DEF WriteStart, WriteDone, Goto
<1>5. UNCHANGED <<blockno, valid, refcnt, data, owner, list>>
  BY <1>4 DEF cache
<1>6. TypeOK /\ InvBlocks /\ InvData
  BY DEF CacheInv
<1>7. /\ InvOwner' /\ InvPc'
      /\ pc' \in [Procs -> {"user", "lock", "reading", "held", "writing", "brelse", "panic"}]
      /\ pc'[p] = l /\ \A q \in Procs : q # p => pc'[q] = pc[q]
  BY <1>3, <1>4, <1>5, HoldingMoves
<1>8. data[b] = latest[k] /\ data[b] \in Data
  <2>1. k # NoBlock
    BY <1>3 DEF CacheConstants
  <2> QED
    BY <1>1, <1>3, <1>6, <2>1 DEF InvData, TypeOK
<1>9. /\ disk' \in [Blocks -> Data]
      /\ \A j \in Blocks : disk'[j] = disk[j] \/ disk'[j] = latest[j]
  BY <1>3, <1>4, <1>6, <1>8 DEF TypeOK
<1>10. TypeOK'
  BY <1>4, <1>5, <1>6, <1>7, <1>9 DEF TypeOK
<1>11. InvBlocks'
  <2>1. \A q \in Procs : /\ pc'[q] \in {"held", "writing"} => valid'[buf'[q]]
                         /\ pc'[q] = "reading" => ~valid'[buf'[q]]
    BY <1>1, <1>3, <1>4, <1>5, <1>6, <1>7 DEF InvBlocks
  <2> QED
    BY <1>4, <1>5, <1>6, <2>1 DEF InvBlocks
<1>12. InvData'
  <2>1. \A c \in Bufs : valid'[c] /\ blockno'[c] # NoBlock => data'[c] = latest'[blockno'[c]]
    BY <1>4, <1>5, <1>6 DEF InvData
  <2>2. ASSUME NEW j \in Blocks, disk'[j] # latest'[j]
        PROVE  \E c \in Bufs : blockno'[c] = j /\ valid'[c] /\ (c \in pinned' \/ owner'[c] # Free)
    <3>1. disk[j] # latest[j]
      BY <1>4, <1>9, <2>2
    <3> QED
      BY <1>4, <1>5, <1>6, <3>1 DEF InvData
  <2> QED
    BY <2>1, <2>2 DEF InvData
<1> QED
  BY <1>4, <1>5, <1>7, <1>10, <1>11, <1>12, RefsKept, ListKept DEF CacheInv

(* bpin(). *)
LEMMA PinInv ==
  ASSUME CacheConstants, CacheInv, NEW p \in Procs, Pin(p)
  PROVE  CacheInv'
<1>1. PICK b : b = buf[p]
  OBVIOUS
<1>2. /\ pc[p] = "held" /\ b \notin pinned /\ Cardinality(pinned) < MaxPins
      /\ refcnt' = [refcnt EXCEPT ![b] = refcnt[b] + 1] /\ pinned' = pinned \cup {b}
      /\ UNCHANGED <<blockno, valid, data, owner, list, disk, pc, buf, latest, recency>>
  BY <1>1 DEF Pin, bpin
<1>3. b \in Bufs /\ blockno[b] \in Blocks /\ valid[b] /\ blockno[b] # NoBlock
  BY <1>1, <1>2, HoldIs, HeldIs
<1>4. TypeOK /\ InvBlocks /\ InvData /\ InvRefs
  BY DEF CacheInv
<1>5. refcnt \in [Bufs -> Nat] /\ pinned \subseteq Bufs
  BY <1>4 DEF TypeOK
<1>6. refcnt[b] + 1 \in Nat
  BY SMTT(60), <1>3, <1>5
<1>7. refcnt' \in [Bufs -> Nat] /\ pinned' \subseteq Bufs
  BY <1>2, <1>3, <1>5, <1>6
<1>8. TypeOK'
  BY <1>2, <1>4, <1>7 DEF TypeOK
<1>9. IsFiniteSet(pinned') /\ Cardinality(pinned') <= MaxPins
  <2>1. IsFiniteSet(pinned)
    BY <1>4 DEF InvRefs
  <2>2. IsFiniteSet(pinned') /\ Cardinality(pinned') = Cardinality(pinned) + 1
    BY <1>2, <2>1, FS_AddElement
  <2>3. Cardinality(pinned) \in Nat /\ MaxPins \in Nat
    BY <2>1, FS_CardinalityType DEF CacheConstants
  <2>4. Cardinality(pinned) + 1 <= MaxPins
    BY SMTT(60), <1>2, <2>3
  <2> QED
    BY <2>2, <2>4
<1>10. ASSUME NEW c \in Bufs
       PROVE  refcnt'[c] = Cardinality(Users(c)') + (IF c \in pinned' THEN 1 ELSE 0)
  <2>1. /\ refcnt[c] = Cardinality(Users(c)) + (IF c \in pinned THEN 1 ELSE 0)
        /\ Users(c)' = Users(c)
    BY <1>2, <1>4 DEF InvRefs, Users
  <2>2. CASE c = b
    <3>1. Cardinality(Users(b)) \in Nat
      BY UsersFinite
    <3>2. (Cardinality(Users(b)) + 0) + 1 = Cardinality(Users(b)) + 1
      BY SMTT(60), <3>1
    <3>3. refcnt[b] = Cardinality(Users(b)) + 0 /\ refcnt'[b] = refcnt[b] + 1 /\ b \in pinned'
      BY <1>2, <1>3, <1>5, <2>1, <2>2
    <3> QED
      BY <2>1, <2>2, <3>2, <3>3
  <2>3. CASE c # b
    BY <1>2, <1>3, <1>5, <2>1, <2>3
  <2> QED
    BY <2>2, <2>3
<1>11. InvRefs'
  BY <1>9, <1>10 DEF InvRefs
<1>12. InvBlocks'
  BY <1>2, <1>3, <1>4 DEF InvBlocks
<1>13. InvData'
  BY <1>2, <1>4 DEF InvData
<1> QED
  BY <1>2, <1>8, <1>11, <1>12, <1>13, ListKept, OwnerKept DEF CacheInv

(* bunpin(). *)
LEMMA UnpinInv ==
  ASSUME CacheConstants, CacheInv, NEW p \in Procs, Unpin(p)
  PROVE  CacheInv'
<1>1. PICK b : b = buf[p]
  OBVIOUS
<1>2. /\ pc[p] = "held" /\ b \in pinned
      /\ refcnt' = [refcnt EXCEPT ![b] = refcnt[b] - 1] /\ pinned' = pinned \ {b}
      /\ UNCHANGED <<blockno, valid, data, owner, list, disk, pc, buf, latest, recency>>
  BY <1>1 DEF Unpin
<1>3. b \in Bufs /\ owner[b] = p /\ p # Free
  BY <1>1, <1>2, HoldIs DEF Holds
<1>4. TypeOK /\ InvBlocks /\ InvData /\ InvRefs
  BY DEF CacheInv
<1>5. refcnt \in [Bufs -> Nat] /\ pinned \subseteq Bufs
  BY <1>4 DEF TypeOK
<1>6. Cardinality(Users(b)) \in Nat /\ refcnt[b] = Cardinality(Users(b)) + 1
  BY <1>2, <1>3, <1>4, UsersFinite DEF InvRefs
<1>7. refcnt[b] - 1 = Cardinality(Users(b)) /\ Cardinality(Users(b)) + 0 = Cardinality(Users(b))
  BY SMTT(60), <1>6
<1>8. refcnt' \in [Bufs -> Nat] /\ pinned' \subseteq Bufs /\ refcnt'[b] = Cardinality(Users(b))
  BY <1>2, <1>3, <1>5, <1>6, <1>7
<1>9. TypeOK'
  BY <1>2, <1>4, <1>8 DEF TypeOK
<1>10. IsFiniteSet(pinned') /\ Cardinality(pinned') <= MaxPins
  <2>1. IsFiniteSet(pinned) /\ Cardinality(pinned) <= MaxPins
    BY <1>4 DEF InvRefs
  <2>2. IsFiniteSet(pinned') /\ Cardinality(pinned') <= Cardinality(pinned)
    BY <1>2, <2>1, FS_Subset
  <2>3. Cardinality(pinned) \in Nat /\ Cardinality(pinned') \in Nat /\ MaxPins \in Nat
    BY <2>1, <2>2, FS_CardinalityType DEF CacheConstants
  <2>4. Cardinality(pinned') <= MaxPins
    BY SMTT(60), <2>1, <2>2, <2>3
  <2> QED
    BY <2>2, <2>4
<1>11. ASSUME NEW c \in Bufs
       PROVE  refcnt'[c] = Cardinality(Users(c)') + (IF c \in pinned' THEN 1 ELSE 0)
  <2>1. /\ refcnt[c] = Cardinality(Users(c)) + (IF c \in pinned THEN 1 ELSE 0)
        /\ Users(c)' = Users(c)
    BY <1>2, <1>4 DEF InvRefs, Users
  <2>2. CASE c = b
    BY <1>2, <1>7, <1>8, <2>1, <2>2
  <2>3. CASE c # b
    BY <1>2, <1>3, <1>5, <2>1, <2>3
  <2> QED
    BY <2>2, <2>3
<1>12. InvRefs'
  BY <1>10, <1>11 DEF InvRefs
<1>13. InvBlocks'
  BY <1>2, <1>4 DEF InvBlocks
<1>14. InvData'
  <2>1. ASSUME NEW j \in Blocks, disk'[j] # latest'[j]
        PROVE  \E c \in Bufs : blockno'[c] = j /\ valid'[c] /\ (c \in pinned' \/ owner'[c] # Free)
    <3>1. PICK c \in Bufs : blockno[c] = j /\ valid[c] /\ (c \in pinned \/ owner[c] # Free)
      BY <1>2, <1>4, <2>1 DEF InvData
    <3> QED
      BY <1>2, <1>3, <3>1
  <2> QED
    BY <1>2, <1>4, <2>1 DEF InvData
<1> QED
  BY <1>2, <1>9, <1>12, <1>13, <1>14, ListKept, OwnerKept DEF CacheInv

(* brelse(), up to releasesleep(): what the disk does not have is pinned. *)
LEMMA UnlockInv ==
  ASSUME CacheConstants, CacheInv, NEW p \in Procs, Unlock(p)
  PROVE  CacheInv'
<1>1. PICK b, k : b = buf[p] /\ k = blockno[b]
  OBVIOUS
<1>2. pc[p] = "held" /\ Saved(b)
  BY <1>1 DEF Unlock
<1>3. /\ b \in Bufs /\ k \in Blocks /\ owner[b] = p /\ p # Free /\ valid[b] /\ k # NoBlock
      /\ \A q \in Procs : q # p /\ Holds(q) => buf[q] # b
  BY <1>1, <1>2, HoldIs, HeldIs
<1>4. /\ owner' = [owner EXCEPT ![b] = Free] /\ pc' = [pc EXCEPT ![p] = "brelse"]
      /\ UNCHANGED <<blockno, valid, refcnt, data, list, disk, pinned, buf, latest, recency>>
  BY <1>1, <1>3 DEF Unlock, Goto
<1>5. TypeOK /\ InvOwner /\ InvBlocks /\ InvData /\ InvPc
  BY DEF CacheInv
<1>6. /\ pc' \in [Procs -> {"user", "lock", "reading", "held", "writing", "brelse", "panic"}]
      /\ pc'[p] = "brelse" /\ \A q \in Procs : q # p => pc'[q] = pc[q]
      /\ owner' \in [Bufs -> Procs \cup {Free}]
      /\ owner'[b] = Free /\ \A c \in Bufs : c # b => owner'[c] = owner[c]
  BY <1>3, <1>4, <1>5 DEF TypeOK
<1>7. TypeOK'
  BY <1>4, <1>5, <1>6 DEF TypeOK
<1>8. InvOwner'
  <2>1. \A q \in Procs : buf'[q] = Head <=> pc'[q] \in {"user", "panic"}
    BY <1>2, <1>4, <1>5, <1>6 DEF InvOwner
  <2>2. ASSUME NEW q \in Procs, Holds(q)' PROVE owner'[buf'[q]] = q
    <3>1. q # p /\ Holds(q)
      BY <1>6, <2>2 DEF Holds
    <3>2. owner[buf[q]] = q /\ buf[q] \in Bufs /\ buf[q] # b
      BY <1>3, <3>1, HoldIs
    <3> QED
      BY <1>4, <1>6, <3>2
  <2>3. ASSUME NEW c \in Bufs, owner'[c] # Free
        PROVE  pc'[owner'[c]] \in {"reading", "held", "writing"} /\ buf'[owner'[c]] = c
    <3>1. c # b /\ owner'[c] = owner[c]
      BY <1>6, <2>3
    <3>2. owner[c] \in Procs /\ Holds(owner[c]) /\ buf[owner[c]] = c /\ owner[c] # p
      BY <1>1, <2>3, <3>1, OwnerIs
    <3> QED
      BY <1>4, <1>6, <3>1, <3>2 DEF Holds
  <2> QED
    BY <2>1, <2>2, <2>3 DEF InvOwner, Holds
<1>9. InvBlocks'
  <2>1. \A q \in Procs : /\ pc'[q] \in {"held", "writing"} => valid'[buf'[q]]
                         /\ pc'[q] = "reading" => ~valid'[buf'[q]]
    BY <1>4, <1>5, <1>6 DEF InvBlocks
  <2> QED
    BY <1>4, <1>5, <2>1 DEF InvBlocks
<1>10. InvData'
  <2>1. ASSUME NEW j \in Blocks, disk'[j] # latest'[j]
        PROVE  \E c \in Bufs : blockno'[c] = j /\ valid'[c] /\ (c \in pinned' \/ owner'[c] # Free)
    <3>1. PICK c \in Bufs : blockno[c] = j /\ valid[c] /\ (c \in pinned \/ owner[c] # Free)
      BY <1>4, <1>5, <2>1 DEF InvData
    <3>2. CASE c = b
      <4>1. j = k /\ data[b] = latest[k]
        BY <1>1, <1>3, <1>5, <3>1, <3>2 DEF InvData
      <4>2. b \in pinned
        BY <1>1, <1>2, <1>4, <2>1, <4>1 DEF Saved, Synced
      <4> QED
        BY <1>4, <3>1, <3>2, <4>2
    <3>3. CASE c # b
      BY <1>4, <1>6, <3>1, <3>3
    <3> QED
      BY <3>2, <3>3
  <2> QED
    BY <1>4, <1>5, <2>1 DEF InvData
<1>11. InvPc'
  BY <1>5, <1>6 DEF InvPc, NoPanic
<1> QED
  BY <1>4, <1>7, <1>8, <1>9, <1>10, <1>11, RefsKept, ListKept DEF CacheInv

(* The rest of brelse(): the count, and the move to the front of the list. *)
LEMMA ReleaseInv ==
  ASSUME CacheConstants, CacheInv, NEW p \in Procs, Release(p)
  PROVE  CacheInv'
<1>1. PICK b : b = buf[p]
  OBVIOUS
<1>2. /\ pc[p] = "brelse" /\ refcnt' = [refcnt EXCEPT ![b] = refcnt[b] - 1]
      /\ \/ list' = PutFirst(Unlink(list, b), b) /\ recency' = ToFront(recency, b)
         \/ UNCHANGED <<list, recency>>
      /\ pc' = [pc EXCEPT ![p] = "user"] /\ buf' = [buf EXCEPT ![p] = Head]
      /\ UNCHANGED <<blockno, valid, data, owner, disk, pinned, latest>>
  BY <1>1 DEF Release, Goto
<1>3. b \in Bufs /\ b # Head
  BY <1>1, <1>2, BufIs
<1>4. TypeOK /\ InvRefs /\ InvOwner /\ InvBlocks /\ InvList /\ InvPc
  BY DEF CacheInv
<1>5. refcnt \in [Bufs -> Nat] /\ buf \in [Procs -> Bufs \cup {Head}]
  BY <1>4 DEF TypeOK
<1>6. /\ pc' \in [Procs -> {"user", "lock", "reading", "held", "writing", "brelse", "panic"}]
      /\ pc'[p] = "user" /\ \A q \in Procs : q # p => pc'[q] = pc[q]
      /\ buf' \in [Procs -> Bufs \cup {Head}]
      /\ buf'[p] = Head /\ \A q \in Procs : q # p => buf'[q] = buf[q]
  BY <1>2, <1>4 DEF TypeOK
<1>7. IsFiniteSet(Users(b)) /\ Users(b)' = Users(b) \ {p} /\ p \in Users(b)
  <2>1. IsFiniteSet(Users(b)) /\ p \in Users(b)
    BY <1>1, UsersFinite DEF Users
  <2>2. \A q \in Procs : buf'[q] = b <=> buf[q] = b /\ q # p
    BY <1>3, <1>6
  <2>3. {q \in Procs : buf'[q] = b} = {q \in Procs : buf[q] = b} \ {p}
    BY <2>2
  <2> QED
    BY <2>1, <2>3 DEF Users
<1>8. /\ Cardinality(Users(b)) \in Nat /\ Cardinality(Users(b)') \in Nat
      /\ Cardinality(Users(b)') = Cardinality(Users(b)) - 1
  <2>1. IsFiniteSet(Users(b)') /\ Cardinality(Users(b)') = Cardinality(Users(b)) - 1
    BY <1>7, FS_RemoveElement
  <2> QED
    BY <1>7, <2>1, FS_CardinalityType
<1>9. refcnt'[b] = Cardinality(Users(b)') + (IF b \in pinned THEN 1 ELSE 0)
  <2>1. refcnt[b] = Cardinality(Users(b)) + (IF b \in pinned THEN 1 ELSE 0)
    BY <1>3, <1>4 DEF InvRefs
  <2>2. (Cardinality(Users(b)) + (IF b \in pinned THEN 1 ELSE 0)) - 1
          = (Cardinality(Users(b)) - 1) + (IF b \in pinned THEN 1 ELSE 0)
    BY SMTT(60), <1>8
  <2> QED
    BY <1>2, <1>3, <1>5, <1>8, <2>1, <2>2
<1>10. refcnt' \in [Bufs -> Nat]
  <2>1. Cardinality(Users(b)') + (IF b \in pinned THEN 1 ELSE 0) \in Nat
    BY SMTT(60), <1>8
  <2>2. refcnt[b] - 1 \in Nat
    BY <1>2, <1>3, <1>5, <1>9, <2>1
  <2> QED
    BY <1>2, <1>5, <2>2
<1>11. InvRefs'
  <2>1. ASSUME NEW c \in Bufs, c # b
        PROVE  refcnt'[c] = Cardinality(Users(c)') + (IF c \in pinned THEN 1 ELSE 0)
    <3>1. c # Head
      BY Places
    <3>2. Users(c)' = Users(c)
      BY <1>1, <1>6, <2>1, <3>1 DEF Users
    <3>3. refcnt'[c] = refcnt[c]
      BY <1>2, <1>3, <1>5, <2>1
    <3> QED
      BY <1>4, <3>2, <3>3 DEF InvRefs
  <2> QED
    BY <1>2, <1>4, <1>9, <2>1 DEF InvRefs
<1>12. InvOwner'
  <2>1. \A q \in Procs : buf'[q] = Head <=> pc'[q] \in {"user", "panic"}
    BY <1>4, <1>6 DEF InvOwner
  <2>2. ASSUME NEW q \in Procs, Holds(q)' PROVE owner'[buf'[q]] = q
    <3>1. q # p /\ Holds(q)
      BY <1>6, <2>2 DEF Holds
    <3> QED
      BY <1>2, <1>6, <3>1, HoldIs
  <2>3. ASSUME NEW c \in Bufs, owner'[c] # Free
        PROVE  pc'[owner'[c]] \in {"reading", "held", "writing"} /\ buf'[owner'[c]] = c
    <3>1. owner[c] \in Procs /\ Holds(owner[c]) /\ buf[owner[c]] = c
      BY <1>2, <2>3, OwnerIs
    <3>2. owner[c] # p
      BY <1>2, <3>1 DEF Holds
    <3> QED
      BY <1>2, <1>6, <3>1, <3>2 DEF Holds
  <2> QED
    BY <2>1, <2>2, <2>3 DEF InvOwner, Holds
<1>13. InvBlocks'
  <2>1. \A q \in Procs : /\ pc'[q] \in {"held", "writing"} => valid'[buf'[q]]
                         /\ pc'[q] = "reading" => ~valid'[buf'[q]]
    BY <1>2, <1>4, <1>6 DEF InvBlocks
  <2>2. \A q \in Procs : buf'[q] # Head => blockno'[buf'[q]] # NoBlock
    BY <1>2, <1>4, <1>6 DEF InvBlocks
  <2> QED
    BY <1>2, <1>4, <2>1, <2>2 DEF InvBlocks
<1>14. /\ list' \in [next : [0 .. NBUF -> 0 .. NBUF], prev : [0 .. NBUF -> 0 .. NBUF]]
       /\ recency' \in [Bufs -> Bufs] /\ InvList'
  <2>1. /\ list \in [next : [0 .. NBUF -> 0 .. NBUF], prev : [0 .. NBUF -> 0 .. NBUF]]
        /\ recency \in [Bufs -> Bufs] /\ Links(list, recency) /\ Permutes(recency)
    BY <1>4 DEF TypeOK, InvList
  <2>2. CASE UNCHANGED <<list, recency>>
    BY <2>1, <2>2, ListKept
  <2>3. CASE list' = PutFirst(Unlink(list, b), b) /\ recency' = ToFront(recency, b)
    <3>1. Links(list', recency') /\ Permutes(recency')
      BY <1>3, <2>1, <2>3, Moved
    <3>2. /\ list' \in [next : [0 .. NBUF -> 0 .. NBUF], prev : [0 .. NBUF -> 0 .. NBUF]]
          /\ recency' \in [Bufs -> Bufs]
      BY <1>3, <2>1, <2>3, Moved
    <3> QED
      BY <3>1, <3>2 DEF InvList, Links, Permutes
  <2> QED
    BY <1>2, <2>2, <2>3
<1>15. TypeOK'
  BY <1>2, <1>4, <1>6, <1>10, <1>14 DEF TypeOK
<1>16. InvPc'
  BY <1>4, <1>6 DEF InvPc, NoPanic
<1> QED
  BY <1>2, <1>11, <1>12, <1>13, <1>14, <1>15, <1>16, DataKept DEF CacheInv

-----------------------------------------------------------------------------
(* binit() establishes the invariant. *)
LEMMA InitInv ==
  ASSUME CacheConstants, Init
  PROVE  CacheInv
<1>1. /\ blockno = [b \in Bufs |-> NoBlock] /\ valid = [b \in Bufs |-> FALSE]
      /\ refcnt = [b \in Bufs |-> 0] /\ owner = [b \in Bufs |-> Free]
      /\ list = Binit[NBUF] /\ latest = disk /\ disk \in [Blocks -> Data] /\ pinned = {}
      /\ data \in [Bufs -> Data]
      /\ pc = [p \in Procs |-> "user"] /\ buf = [p \in Procs |-> Head]
      /\ recency = [k \in Bufs |-> NBUF + 1 - k]
  <2>1. (CHOOSE v \in Data : TRUE) \in Data
    BY DEF CacheConstants
  <2>2. [b \in Bufs |-> CHOOSE v \in Data : TRUE] \in [Bufs -> Data]
    BY <2>1
  <2> QED
    BY <2>2 DEF Init
<1>2. /\ list \in [next : [0 .. NBUF -> 0 .. NBUF], prev : [0 .. NBUF -> 0 .. NBUF]]
      /\ recency \in [Bufs -> Bufs] /\ InvList
  BY <1>1, BinitLinks DEF InvList
<1>3. 0 \in Nat /\ 0 + 0 = 0
  BY SMTT(60)
<1>4. TypeOK
  BY <1>1, <1>2, <1>3 DEF TypeOK
<1>5. ASSUME NEW b \in Bufs
      PROVE  refcnt[b] = Cardinality(Users(b)) + (IF b \in pinned THEN 1 ELSE 0)
  <2>1. b # Head
    BY Places
  <2>2. Users(b) = {}
    BY <1>1, <2>1 DEF Users
  <2>3. Cardinality(Users(b)) = 0
    BY <2>2, FS_EmptySet
  <2> QED
    BY <1>1, <1>3, <2>3
<1>6. InvRefs
  <2>1. IsFiniteSet(pinned) /\ Cardinality(pinned) = 0
    BY <1>1, FS_EmptySet
  <2>2. 0 <= MaxPins
    BY SMTT(60) DEF CacheConstants
  <2> QED
    BY <1>5, <2>1, <2>2 DEF InvRefs
<1>7. InvOwner
  BY <1>1 DEF InvOwner, Holds
<1>8. InvBlocks
  BY <1>1 DEF InvBlocks
<1>9. InvData
  BY <1>1 DEF InvData
<1>10. InvPc
  BY <1>1 DEF InvPc, NoPanic
<1> QED
  BY <1>2, <1>4, <1>6, <1>7, <1>8, <1>9, <1>10 DEF CacheInv

(* Every step preserves it. *)
LEMMA NextInv ==
  ASSUME CacheConstants, CacheInv, [Next]_vars
  PROVE  CacheInv'
<1>1. CASE UNCHANGED vars
  <2>1. /\ UNCHANGED <<blockno, valid, refcnt, data, owner, list>>
        /\ UNCHANGED <<disk, pinned, pc, buf, latest, recency>>
    BY <1>1 DEF vars, cache
  <2>2. TypeOK'
    BY <2>1 DEF CacheInv, TypeOK
  <2>3. InvBlocks'
    BY <2>1 DEF CacheInv, InvBlocks
  <2> QED
    BY <2>1, <2>2, <2>3, RefsKept, OwnerKept, DataKept, ListKept DEF CacheInv
<1>2. CASE Next
  <2>1. PICK p \in Procs :
          \/ \E k \in Blocks : BgetHit(p, k) \/ BgetMiss(p, k)
          \/ Lock(p) \/ ReadDone(p) \/ (\E v \in Data : Modify(p, v))
          \/ WriteStart(p) \/ WriteDone(p) \/ Pin(p) \/ Unpin(p)
          \/ Unlock(p) \/ Release(p)
    BY <1>2 DEF Next
  <2>2. ASSUME NEW k \in Blocks, BgetHit(p, k) PROVE CacheInv'
    BY <2>2, BgetHitInv
  <2>3. ASSUME NEW k \in Blocks, BgetMiss(p, k) PROVE CacheInv'
    BY <2>3, BgetMissInv
  <2>4. ASSUME NEW v \in Data, Modify(p, v) PROVE CacheInv'
    BY <2>4, ModifyInv
  <2>5. CASE Lock(p)
    BY <2>5, LockInv
  <2>6. CASE ReadDone(p)
    BY <2>6, ReadDoneInv
  <2>7. CASE WriteStart(p) \/ WriteDone(p)
    BY <2>7, WriteInv
  <2>8. CASE Pin(p)
    BY <2>8, PinInv
  <2>9. CASE Unpin(p)
    BY <2>9, UnpinInv
  <2>10. CASE Unlock(p)
    BY <2>10, UnlockInv
  <2>11. CASE Release(p)
    BY <2>11, ReleaseInv
  <2> QED
    BY <2>1, <2>2, <2>3, <2>4, <2>5, <2>6, <2>7, <2>8, <2>9, <2>10, <2>11
<1> QED
  BY <1>1, <1>2

(* The invariant implies what the cache promises. *)
LEMMA InvIsCoherent ==
  ASSUME CacheConstants, CacheInv
  PROVE  BcacheInv /\ NoStaleRead /\ NothingLost /\ ListIsLru /\ NoPanic
<1>1. TypeOK /\ InvRefs /\ InvOwner /\ InvBlocks /\ InvData /\ InvList /\ NoPanic
  BY DEF CacheInv, InvPc
<1>2. RefcntExact
  BY <1>1 DEF InvRefs, RefcntExact, Users
<1>3. ASSUME NEW p \in Procs
      PROVE  Holds(p) <=> \E b \in Bufs : owner[b] = p /\ buf[p] = b
  <2>1. ASSUME Holds(p) PROVE \E b \in Bufs : owner[b] = p /\ buf[p] = b
    BY <2>1, HoldIs
  <2>2. ASSUME NEW b \in Bufs, owner[b] = p PROVE Holds(p)
    <3>1. p # Free
      BY DEF CacheConstants
    <3> QED
      BY <2>2, <3>1, OwnerIs
  <2> QED
    BY <2>1, <2>2
<1>4. BcacheInv
  BY <1>1, <1>2, <1>3 DEF BcacheInv, InvOwner, InvBlocks
<1>5. NoStaleRead
  BY HeldIs DEF NoStaleRead
<1>6. NothingLost
  <2> SUFFICES ASSUME NEW k \in Blocks, disk[k] # latest[k]
               PROVE  \E b \in Bufs : blockno[b] = k /\ ~(refcnt[b] = 0 \/ ~valid[b])
    BY DEF NothingLost
  <2>1. PICK b \in Bufs : blockno[b] = k /\ valid[b] /\ (b \in pinned \/ owner[b] # Free)
    BY <1>1 DEF InvData
  <2> QED
    BY <2>1, FreeFacts
<1>7. ListIsLru
  BY <1>1, ListIs DEF InvList, TypeOK, ListIsLru
<1> QED
  BY <1>1, <1>4, <1>5, <1>6, <1>7

(* The invariant holds in every reachable state of the buffer cache. *)
THEOREM CacheInvariant == ASSUME CacheConstants PROVE Spec => []CacheInv
<1>1. Init => CacheInv
  BY InitInv
<1>2. CacheInv /\ [Next]_vars => CacheInv'
  BY NextInv
<1> QED
  BY <1>1, <1>2, PTL DEF Spec

(* bread() returns the last contents given to the block, recycling a       *)
(* buffer loses nothing, the counts and locks are exact, the list is in    *)
(* the order of the last releases, and bget() finds a buffer.              *)
THEOREM CacheIsCoherent ==
  ASSUME CacheConstants
  PROVE  Spec => [](BcacheInv /\ NoStaleRead /\ NothingLost /\ ListIsLru /\ NoPanic)
<1>1. CacheInv => BcacheInv /\ NoStaleRead /\ NothingLost /\ ListIsLru /\ NoPanic
  BY InvIsCoherent
<1> QED
  BY <1>1, CacheInvariant, PTL
=============================================================================
