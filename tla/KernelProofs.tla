---------------------------- MODULE KernelProofs ----------------------------
(***************************************************************************)
(* Proofs about the parts of MCKernel, the specification that TLC checks   *)
(* on small instances: sleep locks, for any number of processes, and the   *)
(* buffer cache, from the lemmas of BcacheProofs.  No process is called    *)
(* "", the value that stands for nobody in SleepLock.                      *)
(***************************************************************************)
EXTENDS MCKernel, TLAPS

(* The default prover. *)
USE ZenonT(60)

-----------------------------------------------------------------------------
(* initsleeplock() establishes the inductive invariant. *)
LEMMA SleepInit == ASSUME "" \notin Sleepers, S!Init PROVE S!SleepInv
BY DEF S!Init, S!SleepInv, S!SleepTypes, S!InvSpin, S!InvHolder, S!InvProcLock, S!InvWaker

(* Every step of acquiresleep(), sleep(), releasesleep(), wakeup() and     *)
(* kill() preserves it.                                                    *)
LEMMA SleepStep ==
  ASSUME "" \notin Sleepers, S!SleepInv, NEW p \in Sleepers, S!Step(p) PROVE S!SleepInv'
<1> USE DEF S!SleepInv, S!SleepTypes, S!Go
<1>1. CASE S!Acquire(p)
  <2> USE <1>1 DEF S!Acquire
  <2>1. S!SleepTypes' OBVIOUS
  <2>2. S!InvSpin' BY DEF S!InvSpin
  <2>3. S!InvHolder' BY DEF S!InvHolder
  <2>4. S!InvProcLock' BY DEF S!InvProcLock
  <2>5. S!InvWaker' BY DEF S!InvWaker
  <2> QED BY <2>1, <2>2, <2>3, <2>4, <2>5
<1>2. CASE S!Take(p)
  <2> USE <1>2 DEF S!Take
  <2>1. S!SleepTypes' OBVIOUS
  <2>2. S!InvSpin' BY DEF S!InvSpin
  <2>3. S!InvHolder' BY DEF S!InvHolder
  <2>4. S!InvProcLock' BY DEF S!InvProcLock
  <2>5. S!InvWaker' BY DEF S!InvWaker
  <2> QED BY <2>1, <2>2, <2>3, <2>4, <2>5
<1>3. CASE S!SleepStart(p)
  <2> USE <1>3 DEF S!SleepStart, S!SleepLocks
  <2>1. S!SleepTypes' OBVIOUS
  <2>2. S!InvSpin' BY DEF S!InvSpin
  <2>3. S!InvHolder' BY DEF S!InvHolder
  <2>4. S!InvProcLock' BY DEF S!InvProcLock
  <2>5. S!InvWaker' BY DEF S!InvWaker
  <2> QED BY <2>1, <2>2, <2>3, <2>4, <2>5
<1>4. CASE S!SleepRelease(p)
  <2> USE <1>4 DEF S!SleepRelease
  <2>1. S!SleepTypes' OBVIOUS
  <2>2. S!InvSpin' BY DEF S!InvSpin
  <2>3. S!InvHolder' BY DEF S!InvHolder
  <2>4. S!InvProcLock' BY DEF S!InvProcLock
  <2>5. S!InvWaker' BY DEF S!InvWaker
  <2> QED BY <2>1, <2>2, <2>3, <2>4, <2>5
<1>5. CASE S!Sched(p)
  <2> USE <1>5 DEF S!Sched
  <2>1. S!SleepTypes' OBVIOUS
  <2>2. S!InvSpin' BY DEF S!InvSpin
  <2>3. S!InvHolder' BY DEF S!InvHolder
  <2>4. S!InvProcLock' BY DEF S!InvProcLock
  <2>5. S!InvWaker' BY DEF S!InvWaker
  <2> QED BY <2>1, <2>2, <2>3, <2>4, <2>5
<1>6. CASE S!Resume(p)
  <2> USE <1>6 DEF S!Resume
  <2>1. S!SleepTypes' OBVIOUS
  <2>2. S!InvSpin' BY DEF S!InvSpin
  <2>3. S!InvHolder' BY DEF S!InvHolder
  <2>4. S!InvProcLock' BY DEF S!InvProcLock
  <2>5. S!InvWaker' BY DEF S!InvWaker
  <2> QED BY <2>1, <2>2, <2>3, <2>4, <2>5
<1>7. CASE S!Release(p)
  <2> USE <1>7 DEF S!Release
  <2>1. S!SleepTypes' OBVIOUS
  <2>2. S!InvSpin' BY DEF S!InvSpin
  <2>3. S!InvHolder' BY DEF S!InvHolder
  <2>4. S!InvProcLock' BY DEF S!InvProcLock
  <2>5. S!InvWaker'
    <3>1. \A q \in Sleepers \ {p} : q \in todo'[p] OBVIOUS
    <3>2. ~asleep'[p] /\ s_pc'[p] = "wakeup" BY DEF S!InvProcLock
    <3> QED BY <3>1, <3>2 DEF S!InvWaker
  <2> QED BY <2>1, <2>2, <2>3, <2>4, <2>5
<1>8. CASE S!WakeupEnd(p)
  <2> USE <1>8 DEF S!WakeupEnd
  <2>1. S!SleepTypes' OBVIOUS
  <2>2. S!InvSpin' BY DEF S!InvSpin
  <2>3. S!InvHolder' BY DEF S!InvHolder
  <2>4. S!InvProcLock' BY DEF S!InvProcLock
  <2>5. S!InvWaker' BY DEF S!InvWaker
  <2> QED BY <2>1, <2>2, <2>3, <2>4, <2>5
<1>9. CASE S!Kill(p)
  <2> USE <1>9 DEF S!Kill
  <2>1. S!SleepTypes' OBVIOUS
  <2>2. S!InvSpin' BY DEF S!InvSpin
  <2>3. S!InvHolder' BY DEF S!InvHolder
  <2>4. S!InvProcLock' BY DEF S!InvProcLock
  <2>5. S!InvWaker' BY DEF S!InvWaker
  <2> QED BY <2>1, <2>2, <2>3, <2>4, <2>5
<1>10. ASSUME NEW q \in Sleepers, S!Wakeup(p, q) PROVE S!SleepInv'
  <2> USE <1>10 DEF S!Wakeup
  <2>1. S!SleepTypes' OBVIOUS
  <2>2. S!InvSpin' BY DEF S!InvSpin
  <2>3. S!InvHolder' BY DEF S!InvHolder
  <2>4. S!InvProcLock' BY DEF S!InvProcLock
  <2>5. S!InvWaker'
    <3>1. ~asleep'[q] /\ s_pc'[q] \notin {"prepare", "sleeping"} BY DEF S!InvProcLock
    <3>2. \A r, x \in Sleepers : x # q /\ x \in todo[r] => x \in todo'[r] OBVIOUS
    <3>3. \A x \in Sleepers \ {q} : asleep'[x] = asleep[x] /\ s_pc'[x] = s_pc[x] OBVIOUS
    <3> SUFFICES ASSUME NEW x \in Sleepers, asleep'[x] \/ s_pc'[x] \in {"prepare", "sleeping"}
                 PROVE locked' \/ \E r \in Sleepers : x \in todo'[r]
      BY DEF S!InvWaker
    <3>4. x # q BY <3>1
    <3>5. locked \/ \E r \in Sleepers : x \in todo[r] BY <3>3, <3>4 DEF S!InvWaker
    <3> QED BY <3>2, <3>4, <3>5
  <2> QED BY <2>1, <2>2, <2>3, <2>4, <2>5
<1> QED
  BY <1>1, <1>2, <1>3, <1>4, <1>5, <1>6, <1>7, <1>8, <1>9, <1>10 DEF S!Step

(* So does every step of the whole, or none. *)
LEMMA SleepNext ==
  ASSUME "" \notin Sleepers, S!SleepInv, [S!Next]_(S!vars) PROVE S!SleepInv'
<1>1. CASE S!Next
  BY <1>1, SleepStep DEF S!Next
<1>2. CASE UNCHANGED S!vars
  BY <1>2 DEF S!vars, S!SleepInv, S!SleepTypes, S!InvSpin, S!InvHolder, S!InvProcLock, S!InvWaker
<1> QED
  BY <1>1, <1>2

(* The invariant implies what the sleep lock promises. *)
LEMMA SleepInvIsRight == ASSUME S!SleepInv PROVE S!SleepLockRight
BY DEF S!SleepInv, S!InvHolder, S!InvWaker, S!SleepLockRight

-----------------------------------------------------------------------------
(* The buffer cache. *)
BP == INSTANCE BcacheProofs WITH Procs <- CPUs, owner <- b_owner, pc <- b_pc

KernelVars == <<part, vars, sleepVars, cacheVars, fileVars>>

(* The inductive invariants of the two parts. *)
KernelInv ==
  /\ part = "sleeplock" => S!SleepInv
  /\ part = "bcache" => BP!CacheInv

(* The proofs of the cache are about an instance of the same definitions. *)
LEMMA SameCache ==
  /\ B!Init <=> BP!Init
  /\ B!Next <=> BP!Next
  /\ (B!BcacheInv /\ B!ListIsLru /\ B!NoPanic) <=> (BP!BcacheInv /\ BP!ListIsLru /\ BP!NoPanic)
  /\ (B!NoStaleRead /\ B!NothingLost) <=> (BP!NoStaleRead /\ BP!NothingLost)
<1>1. B!Init <=> BP!Init
  BY DEF B!Init, BP!Init, B!Bufs, BP!Bufs, B!Head, BP!Head, B!NoBlock, BP!NoBlock, B!Free,
         BP!Free, B!Binit, BP!Binit, B!PutFirst, BP!PutFirst
<1>2. /\ B!Bufs = BP!Bufs /\ B!Head = BP!Head /\ B!Free = BP!Free
      /\ B!NoBlock = BP!NoBlock
  BY DEF B!Bufs, BP!Bufs, B!Head, BP!Head, B!Free, BP!Free, B!NoBlock, BP!NoBlock
<1>3. B!Forward = BP!Forward /\ B!Backward = BP!Backward
  BY <1>2 DEF B!Forward, BP!Forward, B!Backward, BP!Backward
<1>4. \A k : B!Hits(k) = BP!Hits(k)
  BY <1>2, <1>3 DEF B!Hits, BP!Hits
<1>5. B!Victims = BP!Victims
  BY <1>2, <1>3 DEF B!Victims, BP!Victims
<1>6. \A X : B!Min(X) = BP!Min(X) /\ B!Cardinality(X) = BP!Cardinality(X)
  BY DEF B!Min, BP!Min, B!Cardinality, BP!Cardinality, B!IsFiniteSet, BP!IsFiniteSet
<1>7. B!Next <=> BP!Next
  <2>1. \A p, k : B!BgetHit(p, k) <=> BP!BgetHit(p, k)
    BY <1>3, <1>4, <1>6 DEF B!BgetHit, BP!BgetHit, B!Goto, BP!Goto
  <2>2. \A p, k : B!BgetMiss(p, k) <=> BP!BgetMiss(p, k)
    BY <1>3, <1>5, <1>4, <1>6 DEF B!BgetMiss, BP!BgetMiss, B!Goto, BP!Goto
  <2>3. \A p : B!Lock(p) <=> BP!Lock(p)
    BY <1>2 DEF B!Lock, BP!Lock, B!Goto, BP!Goto, B!MustRead, BP!MustRead
  <2>4. \A p : B!ReadDone(p) <=> BP!ReadDone(p)
    BY DEF B!ReadDone, BP!ReadDone, B!Goto, BP!Goto
  <2>5. \A p, k : B!Modify(p, k) <=> BP!Modify(p, k)
    BY DEF B!Modify, BP!Modify
  <2>6. \A p : B!WriteStart(p) <=> BP!WriteStart(p)
    BY DEF B!WriteStart, BP!WriteStart, B!Goto, BP!Goto, B!cache, BP!cache
  <2>7. \A p : B!WriteDone(p) <=> BP!WriteDone(p)
    BY DEF B!WriteDone, BP!WriteDone, B!Goto, BP!Goto, B!cache, BP!cache
  <2>8. \A p : B!Pin(p) <=> BP!Pin(p)
    BY <1>6 DEF B!Pin, BP!Pin, B!bpin, BP!bpin
  <2>9. \A p : B!Unpin(p) <=> BP!Unpin(p)
    BY DEF B!Unpin, BP!Unpin, B!Synced, BP!Synced
  <2>10. \A p : B!Unlock(p) <=> BP!Unlock(p)
    BY <1>2 DEF B!Unlock, BP!Unlock, B!Goto, BP!Goto, B!Saved, BP!Saved, B!Synced, BP!Synced
  <2>11. \A l, b : B!PutFirst(l, b) = BP!PutFirst(l, b) /\ B!Unlink(l, b) = BP!Unlink(l, b)
    BY <1>2 DEF B!PutFirst, BP!PutFirst, B!Unlink, BP!Unlink
  <2>12. \A s, b : B!ToFront(s, b) = BP!ToFront(s, b)
    BY <1>2 DEF B!ToFront, BP!ToFront
  <2>13. \A p : B!Release(p) <=> BP!Release(p)
    BY <1>2, <2>11, <2>12 DEF B!Release, BP!Release, B!Goto, BP!Goto
  <2> QED
    BY <2>1, <2>2, <2>3, <2>4, <2>5, <2>6, <2>7, <2>8, <2>9, <2>10, <2>13
    DEF B!Next, BP!Next
<1>8. B!BcacheInv <=> BP!BcacheInv
  <2>1. B!TypeOK <=> BP!TypeOK
    BY <1>2 DEF B!TypeOK, BP!TypeOK
  <2>2. B!RefcntExact <=> BP!RefcntExact
    BY <1>2, <1>6 DEF B!RefcntExact, BP!RefcntExact
  <2>3. \A p : B!Holds(p) <=> BP!Holds(p)
    BY DEF B!Holds, BP!Holds
  <2> QED
    BY <1>2, <2>1, <2>2, <2>3 DEF B!BcacheInv, BP!BcacheInv
<1>9. B!ListIsLru <=> BP!ListIsLru
  BY <1>2, <1>3 DEF B!ListIsLru, BP!ListIsLru
<1>10. B!NoPanic <=> BP!NoPanic
  BY <1>6 DEF B!NoPanic, BP!NoPanic
<1>11. (B!NoStaleRead /\ B!NothingLost) <=> (BP!NoStaleRead /\ BP!NothingLost)
  BY DEF B!NoStaleRead, BP!NoStaleRead, B!NothingLost, BP!NothingLost, B!Bufs, BP!Bufs
<1> QED
  BY <1>1, <1>7, <1>8, <1>9, <1>10, <1>11

(* What the lemmas of the two parts assume. *)
LEMMA PartConstants == BP!CacheConstants /\ "" \notin Sleepers
BY KernelConstants, FreeIsNoCpu
DEF BP!CacheConstants, BP!NoBlock, BP!Free, Free, IsFiniteSet, BP!IsFiniteSet

(* Part never changes, and a step of another part leaves the cache and the *)
(* sleep lock alone.                                                       *)
LEMMA KernelStep ==
  ASSUME [KernelNext]_KernelVars
  PROVE  /\ part' = part
         /\ part = "sleeplock" => [S!Next]_(S!vars)
         /\ part = "bcache" => [BP!Next]_(BP!vars)
<1>1. CASE UNCHANGED KernelVars
  BY <1>1 DEF KernelVars, sleepVars, cacheVars, S!vars, BP!vars, BP!cache
<1>2. CASE KernelNext
  BY <1>2, SameCache DEF KernelNext
<1> QED
  BY <1>1, <1>2

(* Both invariants hold in every reachable state. *)
THEOREM KernelInvariant == KernelSpec => []KernelInv
<1>1. KernelInit => KernelInv
  BY SameCache, PartConstants, SleepInit, BP!InitInv DEF KernelInit, KernelInv
<1>2. KernelInv /\ [KernelNext]_KernelVars => KernelInv'
  <2> SUFFICES ASSUME KernelInv, [KernelNext]_KernelVars PROVE KernelInv'
    OBVIOUS
  <2>1. ASSUME part = "sleeplock" PROVE S!SleepInv'
    BY <2>1, KernelStep, PartConstants, SleepNext DEF KernelInv
  <2>2. ASSUME part = "bcache" PROVE BP!CacheInv'
    BY <2>2, KernelStep, PartConstants, BP!NextInv DEF KernelInv
  <2> QED
    BY <2>1, <2>2, KernelStep DEF KernelInv
<1> QED
  BY <1>1, <1>2, PTL DEF KernelSpec, KernelVars

(* A sleep lock has one holder at most, the one lk->pid names, and nobody  *)
(* sleeps in acquiresleep() unless a holder or a wakeup() will wake it.    *)
THEOREM SleepLocksAreRight == KernelSpec => []SleepLockRight
<1>1. KernelInv => SleepLockRight
  BY PartConstants, SleepInvIsRight DEF KernelInv, SleepLockRight
<1> QED
  BY <1>1, KernelInvariant, PTL

(* refcnt, the sleep locks and the identities of the buffers agree with    *)
(* what processes and the log have in hand, the list is in the order of    *)
(* the last releases in both directions, and bget() finds a buffer if      *)
(* there are as many as processes and pins.                                *)
THEOREM BufferCacheIsExact == KernelSpec => []BcacheInv
<1>1. KernelInv => BcacheInv
  BY PartConstants, SameCache, BP!InvIsCoherent DEF KernelInv, BcacheInv
<1> QED
  BY <1>1, KernelInvariant, PTL

(* A process that holds a buffer sees the last contents given to its       *)
(* block, and what no buffer has is on the disk.                           *)
THEOREM CacheIsCoherent == KernelSpec => []CacheCoherent
<1>1. KernelInv => CacheCoherent
  BY PartConstants, SameCache, BP!InvIsCoherent DEF KernelInv, CacheCoherent
<1> QED
  BY <1>1, KernelInvariant, PTL
=============================================================================
