---------------------------- MODULE PipeProofs -----------------------------
(***************************************************************************)
(* Proofs about pipes, for any number of processes, any PIPESIZE and any   *)
(* width of the counters that PIPESIZE divides: no wakeup is lost, a pipe  *)
(* is not used after it is freed, and the bytes of the ring buffer are a   *)
(* bounded FIFO queue.                                                     *)
(***************************************************************************)
EXTENDS Pipe, SequenceTheorems, TLAPS

(* The default prover. *)
USE ZenonT(60)

(* pipealloc() establishes the inductive invariant. *)
LEMMA WakeInit == ASSUME Init PROVE WakeInv
BY PipeConstants
   DEF Init, WakeInv, WakeTypes, InvLock, InvOpen, InvWriters, InvReaders, Ends,
       Labels, Locked, Reading, Writing

(* Every step of pipewrite(), piperead(), fileclose() and kill() preserves *)
(* it.                                                                     *)
LEMMA WakeStep ==
  ASSUME WakeInv, NEW p \in Procs,
         \/ \E e \in Ends : Close(p, e) \/ \E k \in 0 .. MaxCount : Call(p, e, k)
         \/ Acquire(p) \/ Kernel(p) \/ Kill(p)
  PROVE  WakeInv'
<1> USE PipeConstants DEF WakeInv, WakeTypes, Labels, Locked, Reading, Writing, Ends, pipe
<1>1. ASSUME NEW e \in Ends, NEW k \in 0 .. MaxCount, Call(p, e, k) PROVE WakeInv'
  <2> USE <1>1 DEF Call
  <2>1. WakeTypes' OBVIOUS
  <2>2. InvLock' BY DEF InvLock
  <2>3. InvOpen' BY DEF InvOpen
  <2>4. InvWriters' BY DEF InvWriters, Full
  <2>5. InvReaders' BY DEF InvReaders, Empty
  <2> QED BY <2>1, <2>2, <2>3, <2>4, <2>5
<1>2. CASE Acquire(p)
  <2> USE <1>2 DEF Acquire
  <2>1. WakeTypes' OBVIOUS
  <2>2. InvLock' BY DEF InvLock
  <2>3. InvOpen' BY DEF InvOpen
  <2>4. InvWriters' BY DEF InvWriters, Full
  <2>5. InvReaders' BY DEF InvReaders, Empty
  <2> QED BY <2>1, <2>2, <2>3, <2>4, <2>5
<1>3. CASE WriteTest(p)
  <2> USE <1>3
  <2>a. \A q \in Procs \ {p} : pc[q] \notin Locked BY DEF InvLock, WriteTest
  <2>b. pc[p] = "w_loop" /\ lock = p BY DEF InvLock, WriteTest
  <2>c. UNCHANGED <<nread, nwrite, readopen, writeopen, freed, fds, killed>> BY DEF WriteTest
  <2>d. /\ pc' \in [Procs -> Labels]
        /\ \/ lock' = p /\ pc'[p] = "w_body" /\ \A q \in Procs \ {p} : pc'[q] = pc[q]
           \/ /\ lock' = Free /\ pc'[p] = "user" /\ (~readopen \/ killed[p])
              /\ \A q \in Procs \ {p} : pc'[q] = pc[q]
           \/ /\ lock' = Free /\ pc'[p] = "user"
              /\ \A q \in Procs \ {p} : pc'[q] = IF pc[q] = "r_asleep" THEN "r_lock" ELSE pc[q]
    <3>1. CASE left[p] = 0 BY <3>1, <2>b DEF WriteTest, FinishWrite, Return, WakeReaders
    <3>2. CASE left[p] # 0 /\ (~readopen \/ killed[p]) BY <3>2, <2>b DEF WriteTest, Return
    <3>3. CASE left[p] # 0 /\ ~(~readopen \/ killed[p]) BY <3>3, <2>b DEF WriteTest, Goto
    <3> QED BY <3>1, <3>2, <3>3
  <2>1. WakeTypes' BY <2>c, <2>d
  <2>2. InvLock' BY SMTT(60), <2>a, <2>b, <2>d DEF InvLock
  <2>3. InvOpen' BY <2>b, <2>c, <2>d DEF InvOpen
  <2>4. InvWriters' BY <2>a, <2>b, <2>c, <2>d DEF InvWriters, Full
  <2>5. InvReaders' BY <2>a, <2>b, <2>c, <2>d DEF InvReaders, InvOpen, Empty
  <2> QED BY <2>1, <2>2, <2>3, <2>4, <2>5
<1>4. CASE WriteFull(p)
  <2> USE <1>4 DEF WriteFull, WakeReaders
  <2>a. \A q \in Procs \ {p} : pc[q] \notin Locked BY DEF InvLock
  <2>1. WakeTypes' OBVIOUS
  <2>2. InvLock' BY DEF InvLock
  <2>3. InvOpen' BY DEF InvOpen
  <2>4. InvWriters' BY <2>a DEF InvWriters, Full
  <2>5. InvReaders' BY DEF InvReaders, Empty
  <2> QED BY <2>1, <2>2, <2>3, <2>4, <2>5
<1>5. ASSUME NEW b \in Bytes, NEW ok \in BOOLEAN, WriteByte(p, b, ok) PROVE WakeInv'
  <2> USE <1>5
  <2>a. \A q \in Procs \ {p} : pc[q] \notin Locked BY DEF InvLock, WriteByte
  <2>b. \A q \in Procs : pc[q] # "w_asleep" BY <2>a DEF InvWriters, WriteByte
  <2>c. pc[p] = "w_body" /\ lock = p BY DEF InvLock, WriteByte
  <2>d. UNCHANGED <<nread, readopen, writeopen, freed, fds, killed>> BY DEF WriteByte
  <2>e. /\ pc' \in [Procs -> Labels]
        /\ \/ lock' = p /\ pc'[p] = "w_loop" /\ \A q \in Procs \ {p} : pc'[q] = pc[q]
           \/ /\ lock' = Free /\ pc'[p] = "user" /\ nwrite' = nwrite
              /\ \A q \in Procs \ {p} : pc'[q] = IF pc[q] = "r_asleep" THEN "r_lock" ELSE pc[q]
    <3>1. CASE ok BY <3>1, <2>c DEF WriteByte
    <3>2. CASE ~ok BY <3>2, <2>c DEF WriteByte, FinishWrite, Return, WakeReaders
    <3> QED BY <3>1, <3>2
  <2>1. WakeTypes' BY <2>d, <2>e
  <2>2. InvLock' BY <2>a, <2>e DEF InvLock
  <2>3. InvOpen' BY <2>c, <2>d, <2>e DEF InvOpen
  <2>4. InvWriters' BY <2>a, <2>b, <2>e DEF InvWriters
  <2>5. InvReaders' BY <2>a, <2>e DEF InvReaders
  <2> QED BY <2>1, <2>2, <2>3, <2>4, <2>5
<1>6. CASE ReadTest(p)
  <2> USE <1>6 DEF ReadTest, Return, Goto
  <2>a. \A q \in Procs \ {p} : pc[q] \notin Locked BY DEF InvLock
  <2>1. WakeTypes' OBVIOUS
  <2>2. InvLock' BY SMTT(60) DEF InvLock
  <2>3. InvOpen' BY SMTT(60) DEF InvOpen
  <2>4. InvWriters' BY SMTT(60), <2>a DEF InvWriters, Full
  <2>5. InvReaders' BY SMTT(60), <2>a DEF InvReaders, Empty
  <2> QED BY <2>1, <2>2, <2>3, <2>4, <2>5
<1>7. ASSUME NEW ok \in BOOLEAN, ReadByte(p, ok) PROVE WakeInv'
  <2> USE <1>7
  <2>a. \A q \in Procs \ {p} : pc[q] \notin Locked BY DEF InvLock, ReadByte
  <2>b. pc[p] = "r_copy" /\ lock = p BY DEF InvLock, ReadByte
  <2>c. UNCHANGED <<nwrite, readopen, writeopen, freed, fds, killed>> BY DEF ReadByte
  <2>d. /\ pc' \in [Procs -> Labels]
        /\ \/ lock' = p /\ pc' = pc
           \/ /\ lock' = Free /\ pc'[p] = "user"
              /\ \A q \in Procs \ {p} : pc'[q] = IF pc[q] = "w_asleep" THEN "w_lock" ELSE pc[q]
    <3>1. CASE left[p] = 0 \/ Empty
      BY <3>1, <2>b DEF ReadByte, FinishRead, Return, WakeWriters
    <3>2. CASE ~(left[p] = 0 \/ Empty) /\ ok BY <3>2, <2>b DEF ReadByte
    <3>3. CASE ~(left[p] = 0 \/ Empty) /\ ~ok
      BY <3>3, <2>b DEF ReadByte, FinishRead, Return, WakeWriters
    <3> QED BY <3>1, <3>2, <3>3
  <2>e. Empty => nread' = nread BY DEF ReadByte
  <2>1. WakeTypes' BY <2>c, <2>d
  <2>2. InvLock' BY <2>a, <2>b, <2>d DEF InvLock
  <2>3. InvOpen' BY <2>b, <2>c, <2>d DEF InvOpen
  <2>4. InvWriters' BY <2>a, <2>b, <2>d DEF InvWriters
  <2>5. InvReaders' BY SMTT(60), <2>a, <2>b, <2>c, <2>d, <2>e DEF InvReaders, Empty
  <2> QED BY <2>1, <2>2, <2>3, <2>4, <2>5
<1>8. CASE Sleep(p)
  <2> USE <1>8 DEF Sleep
  <2>a. \A q \in Procs \ {p} : pc[q] \notin Locked BY DEF InvLock
  <2>1. WakeTypes' OBVIOUS
  <2>2. InvLock' BY DEF InvLock
  <2>3. InvOpen' BY DEF InvOpen
  <2>4. InvWriters' BY DEF InvWriters, Full
  <2>5. InvReaders' BY DEF InvReaders, Empty
  <2> QED BY <2>1, <2>2, <2>3, <2>4, <2>5
<1>9. CASE Kill(p)
  <2> USE <1>9 DEF Kill
  <2>1. WakeTypes' OBVIOUS
  <2>2. InvLock' BY DEF InvLock
  <2>3. InvOpen' BY DEF InvOpen
  <2>4. InvWriters' BY DEF InvWriters, Full
  <2>5. InvReaders' BY DEF InvReaders, Empty
  <2> QED BY <2>1, <2>2, <2>3, <2>4, <2>5
<1>10. ASSUME NEW e \in Ends, Close(p, e) PROVE WakeInv'
  <2> USE <1>10
  <2>a. /\ pc[p] = "user" /\ e \in fds[p] /\ UNCHANGED <<nread, nwrite, lock, killed>>
        /\ fds' = [fds EXCEPT ![p] = @ \ {e}]
    BY DEF Close
  <2>b. /\ pc' \in [Procs -> Labels] /\ pc'[p] = "user"
        /\ \A q \in Procs : \/ pc'[q] = pc[q]
                            \/ pc[q] = "r_asleep" /\ pc'[q] = "r_lock"
                            \/ pc[q] = "w_asleep" /\ pc'[q] = "w_lock"
    <3>1. CASE LastRef(p, e) /\ e = "w" BY SMTT(60), <3>1, <2>a DEF Close, pipeclose, WakeReaders
    <3>2. CASE LastRef(p, e) /\ e # "w" BY SMTT(60), <3>2, <2>a DEF Close, pipeclose, WakeWriters
    <3>3. CASE ~LastRef(p, e) BY <3>3, <2>a DEF Close
    <3> QED BY <3>1, <3>2, <3>3
  <2>1. WakeTypes'
    <3>1. CASE LastRef(p, e) BY <3>1, <2>a, <2>b DEF Close, pipeclose
    <3>2. CASE ~LastRef(p, e) BY <3>2, <2>a, <2>b DEF Close
    <3> QED BY <3>1, <3>2
  <2>2. InvLock' BY <2>a, <2>b DEF InvLock
  <2>3. InvOpen'
    <3>1. \A q \in Procs, x \in Ends : x \in fds'[q] <=> x \in fds[q] /\ ~(q = p /\ x = e)
      BY <2>a
    <3>2. \A q \in Procs : /\ pc'[q] \in Reading => "r" \in fds'[q]
                           /\ pc'[q] \in Writing => "w" \in fds'[q]
      BY <2>b, <3>1 DEF InvOpen
    <3>3. /\ readopen' <=> \E q \in Procs : "r" \in fds'[q]
          /\ writeopen' <=> \E q \in Procs : "w" \in fds'[q]
          /\ freed' <=> ~readopen' /\ ~writeopen'
      <4>1. CASE LastRef(p, e)
        <5>1. \A q \in Procs : e \notin fds'[q] BY <3>1, <4>1 DEF LastRef
        <5>2. /\ readopen' <=> readopen /\ e # "r"
              /\ writeopen' <=> writeopen /\ e # "w"
              /\ freed' <=> freed \/ ~(readopen' \/ writeopen')
          BY <4>1 DEF Close, pipeclose
        <5> QED BY SMTT(60), <3>1, <5>1, <5>2 DEF InvOpen
      <4>2. CASE ~LastRef(p, e)
        <5>1. PICK r \in Procs \ {p} : e \in fds[r] BY <4>2 DEF LastRef
        <5>2. UNCHANGED <<readopen, writeopen, freed>> BY <4>2 DEF Close
        <5>3. \A x \in Ends : (\E q \in Procs : x \in fds'[q]) <=> (\E q \in Procs : x \in fds[q])
          BY SMTT(60), <3>1, <5>1
        <5> QED BY <5>2, <5>3 DEF InvOpen
      <4> QED BY <4>1, <4>2
    <3> QED BY <3>2, <3>3 DEF InvOpen
  <2>4. InvWriters' BY <2>a, <2>b DEF InvWriters, Full
  <2>5. InvReaders' BY <2>a, <2>b DEF InvReaders, Empty
  <2> QED BY <2>1, <2>2, <2>3, <2>4, <2>5
<1> QED
  BY <1>1, <1>2, <1>3, <1>4, <1>5, <1>6, <1>7, <1>8, <1>9, <1>10 DEF Kernel

(* The invariant holds in every reachable state of a pipe. *)
THEOREM PipeWakeInvariant == Spec => []WakeInv
<1>1. Init => WakeInv
  BY WakeInit
<1>2. WakeInv /\ [Next]_vars => WakeInv'
  <2> SUFFICES ASSUME WakeInv, [Next]_vars PROVE WakeInv'
    OBVIOUS
  <2>1. CASE Next
    BY <2>1, WakeStep DEF Next
  <2>2. CASE UNCHANGED vars
    BY <2>2 DEF vars, pipe, WakeInv, WakeTypes, InvLock, InvOpen, InvWriters, InvReaders, Full,
                Empty
  <2> QED
    BY <2>1, <2>2
<1> QED
  BY <1>1, <1>2, PTL DEF Spec

(* With pi->lock free, a writer asleep in pipewrite() has a full pipe, and *)
(* a reader asleep in piperead() an empty one unless a process was killed. *)
THEOREM PipeWakeups == Spec => []NoLostWakeup
<1>1. WakeInv => NoLostWakeup
  BY PipeConstants DEF WakeInv, InvLock, InvWriters, InvReaders, NoLostWakeup, WriterWaitsForSpace,
                       ReaderWaits, Locked
<1> QED
  BY <1>1, PipeWakeInvariant, PTL

(* pipeclose() frees the pipe when nobody has it open or is inside it. *)
THEOREM PipeFreedLast == Spec => []NoUseAfterFree
<1>1. WakeInv => NoUseAfterFree
  BY DEF WakeInv, WakeTypes, InvOpen, NoUseAfterFree, Labels, Reading, Writing, Ends
<1> QED
  BY <1>1, PipeWakeInvariant, PTL

-----------------------------------------------------------------------------
(* The bytes.  The counters are those of a ring of PIPESIZE bytes. *)
R == INSTANCE Rings WITH N <- PIPESIZE, M <- MODULUS

(* What WakeInv lacks for the contents: the buffer does not overrun, a     *)
(* writer past its tests has a byte to write and a reader to write it for, *)
(* and one about to sleep has a reason.                                    *)
InvRing ==
  /\ data \in [0 .. PIPESIZE - 1 -> Bytes]
  /\ nread \in 0 .. MODULUS - 1 /\ nwrite \in 0 .. MODULUS - 1 /\ Count <= PIPESIZE

InvCalls ==
  /\ left \in [Procs -> 0 .. MaxCount]
  /\ \A p \in Procs : pc[p] = "w_body" => readopen /\ left[p] # 0
  /\ \A p \in Procs : pc[p] = "r_sleep" => writeopen

ContentsInv == WakeInv /\ InvRing /\ InvCalls

(* PIPESIZE and the width of the counters fit each other. *)
LEMMA RingIs ==
  /\ R!RingConstants /\ PIPESIZE \in Nat \ {0} /\ MODULUS \in Nat \ {0}
  /\ PIPESIZE < MODULUS
BY SMTT(60), PipeConstants DEF R!RingConstants

(* The tests of pipewrite() and piperead() tell full and empty. *)
LEMMA CountIs ==
  ASSUME InvRing
  PROVE  /\ Count \in 0 .. PIPESIZE
         /\ Empty <=> Count = 0
         /\ Full <=> Count = PIPESIZE
<1>1. nread \in 0 .. MODULUS - 1 /\ nwrite \in 0 .. MODULUS - 1 /\ Count <= PIPESIZE
  BY DEF InvRing
<1>2. /\ (nwrite - nread) % MODULUS \in 0 .. MODULUS - 1
      /\ (nwrite - nread) % MODULUS = 0 <=> nread = nwrite
      /\ (nwrite - nread) % MODULUS =
           IF nread <= nwrite THEN nwrite - nread ELSE nwrite - nread + MODULUS
  BY <1>1, RingIs, R!DistanceFacts, R!DistanceIs
<1>3. nread + PIPESIZE \in 0 .. 2 * MODULUS - 1
  BY SMTT(60), <1>1, RingIs
<1>4. (nread + PIPESIZE) % MODULUS
        = IF nread + PIPESIZE < MODULUS THEN nread + PIPESIZE ELSE (nread + PIPESIZE) - MODULUS
  BY <1>3, RingIs, R!Wraps
<1>5. Count \in 0 .. PIPESIZE
  BY SMTT(60), <1>1, <1>2, RingIs DEF Count
<1>6. Full <=> Count = PIPESIZE
  BY SMTT(60), <1>1, <1>2, <1>4, RingIs DEF Full, Count
<1> QED
  BY <1>2, <1>5, <1>6 DEF Count, Empty

(* What a step may do to the bytes and the ends of the pipe. *)
PutByte(b) ==
  /\ readopen /\ writeopen /\ ~Full
  /\ data' = [data EXCEPT ![nwrite % PIPESIZE] = b] /\ nwrite' = (nwrite + 1) % MODULUS
  /\ UNCHANGED <<nread, readopen, writeopen>>

GetByte ==
  /\ readopen /\ ~Empty /\ nread' = (nread + 1) % MODULUS
  /\ UNCHANGED <<data, nwrite, readopen, writeopen>>

CloseEnd ==
  /\ UNCHANGED <<data, nread, nwrite>>
  /\ \/ readopen /\ readopen' = FALSE /\ writeopen' = writeopen
     \/ writeopen /\ writeopen' = FALSE /\ readopen' = readopen

SomeStep(p) ==
  \/ \E e \in Ends : Close(p, e) \/ \E k \in 0 .. MaxCount : Call(p, e, k)
  \/ Acquire(p) \/ Kernel(p) \/ Kill(p)

(* The holder of pi->lock is alone in the code, with its end open. *)
LEMMA Inside ==
  ASSUME WakeInv, NEW p \in Procs, pc[p] \in Locked
  PROVE  /\ lock = p /\ \A q \in Procs : q # p => pc[q] \notin Locked
         /\ pc[p] \in Writing => writeopen
         /\ pc[p] \in Reading => readopen
<1>1. lock = p /\ \A q \in Procs : q # p => pc[q] \notin Locked
  BY DEF WakeInv, InvLock
<1>2. (pc[p] \in Writing => writeopen) /\ (pc[p] \in Reading => readopen)
  BY DEF WakeInv, InvOpen
<1> QED
  BY <1>1, <1>2

(* Every step of the pipe is one of those, or leaves the bytes alone. *)
LEMMA StepIs ==
  ASSUME ContentsInv, NEW p \in Procs, SomeStep(p)
  PROVE  (\E b \in Bytes : PutByte(b)) \/ GetByte \/ CloseEnd \/ UNCHANGED pipe
<1>1. WakeInv /\ InvCalls
  BY DEF ContentsInv
<1>2. ASSUME NEW e \in Ends, Close(p, e) PROVE CloseEnd \/ UNCHANGED pipe
  <2>1. UNCHANGED <<data, nread, nwrite>> /\ e \in fds[p]
    BY <1>2 DEF Close
  <2>2. CASE ~LastRef(p, e)
    BY <1>2, <2>1, <2>2 DEF Close, pipe
  <2>3. CASE LastRef(p, e)
    <3>1. /\ readopen' = (readopen /\ e # "r") /\ writeopen' = (writeopen /\ e # "w")
          /\ (e = "r" => readopen) /\ (e = "w" => writeopen)
          /\ readopen \in BOOLEAN /\ writeopen \in BOOLEAN
      BY <1>1, <1>2, <2>1, <2>3 DEF Close, pipeclose, WakeInv, InvOpen, WakeTypes
    <3>2. CASE e = "r"
      BY <2>1, <3>1, <3>2 DEF CloseEnd
    <3>3. CASE e = "w"
      BY <2>1, <3>1, <3>3 DEF CloseEnd
    <3> QED
      BY <3>2, <3>3 DEF Ends
  <2> QED
    BY <2>2, <2>3
<1>3. ASSUME NEW b \in Bytes, NEW ok \in BOOLEAN, WriteByte(p, b, ok)
      PROVE  PutByte(b) \/ UNCHANGED pipe
  <2>1. pc[p] = "w_body" /\ ~Full /\ UNCHANGED <<nread, readopen, writeopen>>
    BY <1>3 DEF WriteByte
  <2>2. readopen /\ writeopen
    BY <1>1, <2>1, Inside DEF InvCalls, Locked, Writing
  <2>3. CASE ok
    BY <1>3, <2>1, <2>2, <2>3 DEF WriteByte, PutByte
  <2>4. CASE ~ok
    BY <1>3, <2>1, <2>4 DEF WriteByte, pipe
  <2> QED
    BY <2>3, <2>4
<1>4. ASSUME NEW ok \in BOOLEAN, ReadByte(p, ok) PROVE GetByte \/ UNCHANGED pipe
  <2>1. pc[p] = "r_copy" /\ UNCHANGED <<data, nwrite, readopen, writeopen>>
    BY <1>4 DEF ReadByte
  <2>2. readopen
    BY <1>1, <2>1, Inside DEF Locked, Reading
  <2>3. CASE left[p] = 0 \/ Empty
    BY <1>4, <2>1, <2>3 DEF ReadByte, pipe
  <2>4. CASE ~(left[p] = 0 \/ Empty)
    BY <1>4, <2>1, <2>2, <2>4 DEF ReadByte, GetByte
  <2> QED
    BY <2>3, <2>4
<1>5. ASSUME NEW e \in Ends, NEW k \in 0 .. MaxCount, Call(p, e, k) PROVE UNCHANGED pipe
  BY <1>5 DEF Call
<1>6. CASE WriteTest(p) \/ WriteFull(p) \/ ReadTest(p) \/ Sleep(p) \/ Acquire(p) \/ Kill(p)
  BY <1>6 DEF WriteTest, WriteFull, ReadTest, Sleep, Acquire, Kill
<1> QED
  BY <1>2, <1>3, <1>4, <1>5, <1>6 DEF SomeStep, Kernel

(* The indices stay in order: the buffer does not overrun. *)
LEMMA RingStep ==
  ASSUME InvRing, (\E b \in Bytes : PutByte(b)) \/ GetByte \/ CloseEnd \/ UNCHANGED pipe
  PROVE  /\ InvRing'
         /\ (\E b \in Bytes : PutByte(b)) => Count < PIPESIZE /\ Count' = Count + 1
         /\ GetByte => Count > 0 /\ Count' = Count - 1
<1>1. /\ data \in [0 .. PIPESIZE - 1 -> Bytes]
      /\ nread \in 0 .. MODULUS - 1 /\ nwrite \in 0 .. MODULUS - 1
  BY DEF InvRing
<1>2. Count \in 0 .. PIPESIZE /\ (Empty <=> Count = 0) /\ (Full <=> Count = PIPESIZE)
  BY CountIs
<1>3. /\ ((nwrite - nread) % MODULUS) + 1 < MODULUS =>
           (((nwrite + 1) % MODULUS) - nread) % MODULUS = ((nwrite - nread) % MODULUS) + 1
      /\ nread # nwrite =>
           (nwrite - ((nread + 1) % MODULUS)) % MODULUS = ((nwrite - nread) % MODULUS) - 1
  BY <1>1, RingIs, R!DistanceFacts
<1>4. (nread + 1) % MODULUS \in 0 .. MODULUS - 1 /\ (nwrite + 1) % MODULUS \in 0 .. MODULUS - 1
  BY <1>1, RingIs, R!NextIs
<1>5. ASSUME NEW b \in Bytes, PutByte(b) PROVE InvRing' /\ Count < PIPESIZE /\ Count' = Count + 1
  <2>1. Count < PIPESIZE /\ Count + 1 < MODULUS /\ Count + 1 <= PIPESIZE
    BY SMTT(60), <1>2, <1>5, RingIs DEF PutByte
  <2>2. Count' = Count + 1
    BY <1>3, <1>5, <2>1 DEF PutByte, Count
  <2>3. data' \in [0 .. PIPESIZE - 1 -> Bytes]
    BY <1>1, <1>5 DEF PutByte
  <2> QED
    BY <1>1, <1>4, <1>5, <2>1, <2>2, <2>3 DEF InvRing, PutByte
<1>6. ASSUME GetByte PROVE InvRing' /\ Count > 0 /\ Count' = Count - 1
  <2>1. Count > 0 /\ Count - 1 <= PIPESIZE /\ nread # nwrite
    BY SMTT(60), <1>2, <1>6, RingIs DEF GetByte, Empty
  <2>2. Count' = Count - 1
    BY <1>3, <1>6, <2>1 DEF GetByte, Count
  <2> QED
    BY <1>1, <1>4, <1>6, <2>1, <2>2 DEF InvRing, GetByte
<1>7. ASSUME CloseEnd \/ UNCHANGED pipe PROVE InvRing'
  BY <1>7 DEF CloseEnd, pipe, InvRing, Count
<1> QED
  BY <1>5, <1>6, <1>7

(* A call keeps its count and the reason for what it is about to do. *)
LEMMA CallsStep ==
  ASSUME ContentsInv, NEW p \in Procs, SomeStep(p)
  PROVE  InvCalls'
<1>1. WakeInv /\ InvCalls
  BY DEF ContentsInv
<1>2. /\ left \in [Procs -> 0 .. MaxCount] /\ pc \in [Procs -> Labels] /\ MaxCount \in Nat
      /\ \A q \in Procs : pc[q] = "w_body" => readopen /\ left[q] # 0
      /\ \A q \in Procs : pc[q] = "r_sleep" => writeopen
  BY <1>1, PipeConstants DEF InvCalls, WakeInv, WakeTypes
<1>3. 0 \in 0 .. MaxCount /\ \A k \in 0 .. MaxCount : k # 0 => k - 1 \in 0 .. MaxCount
  BY SMTT(60), <1>2
<1>4. ASSUME NEW e \in Ends, NEW k \in 0 .. MaxCount, Call(p, e, k) PROVE InvCalls'
  <2>1. /\ pc' = [pc EXCEPT ![p] = IF e = "w" THEN "w_lock" ELSE "r_lock"]
        /\ left' = [left EXCEPT ![p] = k] /\ UNCHANGED <<readopen, writeopen>>
    BY <1>4 DEF Call, pipe
  <2>2. /\ left' \in [Procs -> 0 .. MaxCount] /\ pc'[p] \notin {"w_body", "r_sleep"}
        /\ \A q \in Procs : q # p => pc'[q] = pc[q] /\ left'[q] = left[q]
    BY <1>2, <2>1
  <2> QED
    BY <1>2, <2>1, <2>2 DEF InvCalls
<1>5. ASSUME NEW at \in [Procs -> Labels], Return(p, at), UNCHANGED <<readopen, writeopen>>,
             \A q \in Procs : at[q] \in {"w_body", "r_sleep"} => pc[q] = at[q]
      PROVE  InvCalls'
  <2>1. /\ left' \in [Procs -> 0 .. MaxCount] /\ pc'[p] = "user"
        /\ \A q \in Procs : q # p => pc'[q] = at[q] /\ left'[q] = left[q]
    BY <1>2, <1>3, <1>5 DEF Return
  <2> QED
    BY <1>2, <1>5, <2>1 DEF InvCalls
<1>6. ASSUME NEW l \in Labels, pc' = [pc EXCEPT ![p] = l], left' = left,
             UNCHANGED <<readopen, writeopen>>,
             l = "w_body" => readopen /\ left[p] # 0, l = "r_sleep" => writeopen
      PROVE  InvCalls'
  <2>1. pc'[p] = l /\ \A q \in Procs : q # p => pc'[q] = pc[q]
    BY <1>2, <1>6
  <2> QED
    BY <1>2, <1>6, <2>1 DEF InvCalls
<1>7. /\ WakeReaders(pc) \in [Procs -> Labels] /\ WakeWriters(pc) \in [Procs -> Labels]
      /\ \A q \in Procs : WakeReaders(pc)[q] \in {"w_body", "r_sleep"} => pc[q] = WakeReaders(pc)[q]
      /\ \A q \in Procs : WakeWriters(pc)[q] \in {"w_body", "r_sleep"} => pc[q] = WakeWriters(pc)[q]
  BY <1>2 DEF WakeReaders, WakeWriters, Labels
<1>8. CASE Acquire(p)
  <2>1. CASE pc[p] = "w_lock"
    BY <1>2, <1>6, <1>8, <2>1 DEF Acquire, Labels, pipe
  <2>2. CASE pc[p] = "r_lock"
    BY <1>2, <1>6, <1>8, <2>2 DEF Acquire, Labels, pipe
  <2> QED
    BY <1>8, <2>1, <2>2 DEF Acquire
<1>9. CASE WriteTest(p)
  <2>1. UNCHANGED <<readopen, writeopen>>
    BY <1>9 DEF WriteTest, pipe
  <2>2. CASE left[p] = 0
    BY <1>5, <1>7, <1>9, <2>1, <2>2 DEF WriteTest, FinishWrite
  <2>3. CASE left[p] # 0 /\ (~readopen \/ killed[p])
    BY <1>2, <1>5, <1>9, <2>1, <2>3 DEF WriteTest
  <2>4. CASE left[p] # 0 /\ ~(~readopen \/ killed[p])
    <3>1. pc' = [pc EXCEPT ![p] = "w_body"] /\ left' = left /\ "w_body" \in Labels
      BY <1>9, <2>4 DEF WriteTest, Goto, Labels
    <3> QED
      BY <1>6, <2>1, <2>4, <3>1
  <2> QED
    BY <2>2, <2>3, <2>4
<1>10. CASE WriteFull(p)
  <2>1. /\ UNCHANGED <<readopen, writeopen, left>>
        /\ pc' = [WakeReaders(pc) EXCEPT ![p] = "w_sleep"]
    BY <1>10 DEF WriteFull, pipe
  <2>2. pc'[p] = "w_sleep" /\ \A q \in Procs : q # p => pc'[q] = WakeReaders(pc)[q]
    BY <1>7, <2>1
  <2> QED
    BY <1>2, <1>7, <2>1, <2>2 DEF InvCalls
<1>11. ASSUME NEW b \in Bytes, NEW ok \in BOOLEAN, WriteByte(p, b, ok) PROVE InvCalls'
  <2>1. UNCHANGED <<readopen, writeopen>> /\ pc[p] = "w_body"
    BY <1>11 DEF WriteByte
  <2>2. CASE ok
    <3>1. left' = [left EXCEPT ![p] = left[p] - 1] /\ pc' = [pc EXCEPT ![p] = "w_loop"]
      BY <1>11, <2>2 DEF WriteByte
    <3>2. left[p] - 1 \in 0 .. MaxCount
      BY <1>2, <1>3, <2>1
    <3>3. /\ left' \in [Procs -> 0 .. MaxCount] /\ pc'[p] = "w_loop"
          /\ \A q \in Procs : q # p => pc'[q] = pc[q] /\ left'[q] = left[q]
      BY <1>2, <3>1, <3>2
    <3> QED
      BY <1>2, <2>1, <3>3 DEF InvCalls
  <2>3. CASE ~ok
    BY <1>5, <1>7, <1>11, <2>1, <2>3 DEF WriteByte, FinishWrite
  <2> QED
    BY <2>2, <2>3
<1>12. CASE Sleep(p)
  <2>1. CASE pc[p] = "w_sleep"
    BY <1>2, <1>6, <1>12, <2>1 DEF Sleep, Labels, pipe
  <2>2. CASE pc[p] = "r_sleep"
    BY <1>2, <1>6, <1>12, <2>2 DEF Sleep, Labels, pipe
  <2> QED
    BY <1>12, <2>1, <2>2 DEF Sleep
<1>13. CASE ReadTest(p)
  <2>1. UNCHANGED <<readopen, writeopen>>
    BY <1>13 DEF ReadTest, pipe
  <2>2. CASE ~(Empty /\ writeopen)
    <3>1. pc' = [pc EXCEPT ![p] = "r_copy"] /\ left' = left /\ "r_copy" \in Labels
      BY <1>13, <2>2 DEF ReadTest, Goto, Labels
    <3> QED
      BY <1>6, <2>1, <3>1
  <2>3. CASE Empty /\ writeopen /\ killed[p]
    BY <1>2, <1>5, <1>13, <2>1, <2>3 DEF ReadTest
  <2>4. CASE Empty /\ writeopen /\ ~killed[p]
    <3>1. pc' = [pc EXCEPT ![p] = "r_sleep"] /\ left' = left /\ "r_sleep" \in Labels
      BY <1>13, <2>4 DEF ReadTest, Goto, Labels
    <3> QED
      BY <1>6, <2>1, <2>4, <3>1
  <2> QED
    BY <2>2, <2>3, <2>4
<1>14. ASSUME NEW ok \in BOOLEAN, ReadByte(p, ok) PROVE InvCalls'
  <2>1. UNCHANGED <<readopen, writeopen>> /\ pc[p] = "r_copy"
    BY <1>14 DEF ReadByte
  <2>2. CASE left[p] = 0 \/ Empty
    BY <1>5, <1>7, <1>14, <2>1, <2>2 DEF ReadByte, FinishRead
  <2>3. CASE ~(left[p] = 0 \/ Empty) /\ ~ok
    BY <1>5, <1>7, <1>14, <2>1, <2>3 DEF ReadByte, FinishRead
  <2>4. CASE ~(left[p] = 0 \/ Empty) /\ ok
    <3>1. left' = [left EXCEPT ![p] = left[p] - 1] /\ pc' = pc
      BY <1>14, <2>4 DEF ReadByte
    <3>2. left[p] - 1 \in 0 .. MaxCount
      BY <1>2, <1>3, <2>4
    <3>3. /\ left' \in [Procs -> 0 .. MaxCount]
          /\ \A q \in Procs : q # p => left'[q] = left[q]
      BY <1>2, <3>1, <3>2
    <3> QED
      BY <1>2, <2>1, <3>1, <3>3 DEF InvCalls
  <2> QED
    BY <2>2, <2>3, <2>4
<1>15. CASE Kill(p)
  <2>1. UNCHANGED <<readopen, writeopen, left>>
    BY <1>15 DEF Kill, pipe
  <2>2. \A q \in Procs : pc'[q] \in {"w_body", "r_sleep"} => pc[q] = pc'[q]
    BY <1>2, <1>15 DEF Kill
  <2> QED
    BY <1>2, <2>1, <2>2 DEF InvCalls
<1>16. ASSUME NEW e \in Ends, Close(p, e) PROVE InvCalls'
  <2>1. left' = left
    BY <1>16 DEF Close
  <2>2. CASE ~LastRef(p, e)
    BY <1>2, <1>16, <2>1, <2>2 DEF Close, InvCalls
  <2>3. CASE LastRef(p, e)
    <3>1. lock = Free /\ (pc' = WakeReaders(pc) \/ pc' = WakeWriters(pc))
      BY <1>16, <2>3 DEF Close, pipeclose
    <3>2. \A q \in Procs : pc[q] \notin Locked
      BY <1>1, <3>1, PipeConstants DEF WakeInv, InvLock
    <3>3. \A q \in Procs : pc'[q] \notin {"w_body", "r_sleep"}
      BY <1>7, <3>1, <3>2 DEF Locked
    <3> QED
      BY <1>2, <2>1, <3>3 DEF InvCalls
  <2> QED
    BY <2>2, <2>3
<1> QED
  BY <1>4, <1>8, <1>9, <1>10, <1>11, <1>12, <1>13, <1>14, <1>15, <1>16 DEF SomeStep, Kernel

(* The whole invariant holds in every reachable state. *)
LEMMA ContentsStep ==
  ASSUME ContentsInv, [Next]_vars
  PROVE  ContentsInv'
<1>1. CASE UNCHANGED vars
  <2>1. UNCHANGED <<data, nread, nwrite, readopen, writeopen>>
    BY <1>1 DEF vars, pipe
  <2>2. UNCHANGED <<lock, freed, fds, pc, left, killed>>
    BY <1>1 DEF vars
  <2>3. WakeInv'
    BY <2>1, <2>2 DEF ContentsInv, WakeInv, WakeTypes, InvLock, InvOpen, InvWriters, InvReaders,
                      Full, Empty
  <2>4. InvRing' /\ InvCalls'
    BY <2>1, <2>2 DEF ContentsInv, InvRing, InvCalls, Count
  <2> QED
    BY <2>3, <2>4 DEF ContentsInv
<1>2. CASE Next
  <2>1. PICK p \in Procs : SomeStep(p)
    BY <1>2 DEF Next, SomeStep
  <2>2. WakeInv'
    BY <2>1, WakeStep DEF SomeStep, ContentsInv
  <2>3. InvRing'
    BY <2>1, StepIs, RingStep DEF ContentsInv
  <2>4. InvCalls'
    BY <2>1, CallsStep
  <2> QED
    BY <2>2, <2>3, <2>4 DEF ContentsInv
<1> QED
  BY <1>1, <1>2

(* pipealloc() establishes it. *)
LEMMA ContentsInit == ASSUME Init PROVE ContentsInv
<1>1. WakeInv
  BY WakeInit
<1>2. InvRing
  <2>1. (CHOOSE b \in Bytes : TRUE) \in Bytes
    BY PipeConstants
  <2>2. data \in [0 .. PIPESIZE - 1 -> Bytes]
    BY <2>1 DEF Init
  <2>3. nread = 0 /\ nwrite = 0
    BY DEF Init
  <2>4. 0 \in 0 .. MODULUS - 1 /\ 0 <= PIPESIZE
    BY SMTT(60), RingIs
  <2>5. (0 - 0) % MODULUS = 0
    BY <2>4, RingIs, R!DistanceFacts
  <2> QED
    BY <2>2, <2>3, <2>4, <2>5 DEF InvRing, Count
<1>3. InvCalls
  <2>1. 0 \in 0 .. MaxCount
    BY SMTT(60), PipeConstants
  <2> QED
    BY <2>1 DEF Init, InvCalls
<1> QED
  BY <1>1, <1>2, <1>3 DEF ContentsInv

(* The invariant holds in every reachable state of a pipe. *)
THEOREM PipeContents == Spec => []ContentsInv
  BY ContentsInit, ContentsStep, PTL DEF Spec

(* The buffer never overruns, also when the counters wrap, who is between  *)
(* acquire() and release() holds pi->lock and has a reason for what it     *)
(* does, and the pipe is not used after it is freed.                       *)
THEOREM PipesAreRight == Spec => []PipeInv
<1>1. ASSUME ContentsInv PROVE PipeInv
  <2>1. WakeInv /\ InvRing /\ InvCalls
    BY <1>1 DEF ContentsInv
  <2>2. TypeOK
    BY <2>1 DEF TypeOK, WakeInv, WakeTypes, InvRing, InvCalls
  <2>3. NoUseAfterFree
    BY <2>1 DEF WakeInv, WakeTypes, InvOpen, NoUseAfterFree, Labels, Reading, Writing, Ends
  <2> QED
    BY <2>1, <2>2, <2>3
    DEF PipeInv, WakeInv, InvRing, InvCalls, InvLock, Locked, InvWriters, InvReaders
<1> QED
  BY <1>1, PipeContents, PTL

-----------------------------------------------------------------------------
(* The refinement of the queue.  A sequence is a function on its indices. *)
LEMMA LenIs ==
  ASSUME NEW S, NEW n \in Nat, NEW s \in [1 .. n -> S]
  PROVE  s \in Seq(S) /\ Len(s) = n
BY SMTT(60)

(* Append() as a function. *)
LEMMA AppendIs ==
  ASSUME NEW S, NEW n \in Nat, NEW s \in [1 .. n -> S], NEW b \in S
  PROVE  Append(s, b) = [k \in 1 .. n + 1 |-> IF k = n + 1 THEN b ELSE s[k]]
<1>1. s \in Seq(S) /\ Len(s) = n
  BY LenIs
<1>2. Append(s, b) \in Seq(S) /\ Len(Append(s, b)) = n + 1
  BY SMTT(60), <1>1
<1>3. (\A k \in 1 .. n : Append(s, b)[k] = s[k]) /\ Append(s, b)[n + 1] = b
  BY SMTT(60), <1>1
<1>4. Append(s, b) \in [1 .. n + 1 -> S]
  BY <1>2, LenProperties
<1>5. \A k \in 1 .. n + 1 : k = n + 1 \/ k \in 1 .. n
  BY SMTT(60)
<1>6. \A k \in 1 .. n + 1 : Append(s, b)[k] = IF k = n + 1 THEN b ELSE s[k]
  BY <1>3, <1>5
<1> QED
  BY <1>4, <1>6

(* Tail() as a function. *)
LEMMA TailIs ==
  ASSUME NEW S, NEW n \in Nat, NEW s \in [1 .. n -> S], n > 0
  PROVE  Tail(s) = [k \in 1 .. n - 1 |-> s[k + 1]]
<1>1. s \in Seq(S) /\ Len(s) = n
  BY LenIs
<1>2. s # <<>>
  BY SMTT(60), <1>1
<1>3. /\ Tail(s) \in Seq(S) /\ Len(Tail(s)) = n - 1
      /\ \A k \in 1 .. Len(Tail(s)) : Tail(s)[k] = s[k + 1]
  BY <1>1, <1>2, HeadTailProperties
<1>4. Tail(s) \in [1 .. n - 1 -> S]
  BY <1>3, LenProperties
<1> QED
  BY <1>3, <1>4

(* The bytes in the pipe are a sequence of Count bytes. *)
LEMMA QueueIs ==
  ASSUME InvRing
  PROVE  Count \in Nat /\ Count <= PIPESIZE /\ nread \in Nat /\ Queue \in [1 .. Count -> Bytes]
<1>1. Count \in Nat /\ Count <= PIPESIZE
  BY SMTT(60), CountIs
<1>2. nread \in Nat /\ data \in [0 .. PIPESIZE - 1 -> Bytes]
  BY SMTT(60), RingIs DEF InvRing
<1>3. ASSUME NEW k \in 1 .. Count
      PROVE  data[(nread + k - 1) % PIPESIZE] \in Bytes
  <2>1. k - 1 \in Nat /\ nread + k - 1 = nread + (k - 1)
    BY SMTT(60), <1>1, <1>2
  <2>2. (nread + (k - 1)) % PIPESIZE \in 0 .. PIPESIZE - 1
    BY <1>2, <2>1, RingIs, R!SlotOf
  <2> QED
    BY <1>2, <2>1, <2>2
<1> QED
  BY <1>1, <1>2, <1>3 DEF Queue

(* A byte that pipewrite() stores is the last of the queue. *)
LEMMA QueuePut ==
  ASSUME InvRing, NEW b \in Bytes, PutByte(b)
  PROVE  Len(Queue) < PIPESIZE /\ Queue' = Append(Queue, b)
<1> DEFINE n == Count
<1>1. /\ n \in Nat /\ n <= PIPESIZE /\ nread \in Nat /\ Queue \in [1 .. n -> Bytes]
      /\ data \in [0 .. PIPESIZE - 1 -> Bytes]
      /\ nread \in 0 .. MODULUS - 1 /\ nwrite \in 0 .. MODULUS - 1
  BY QueueIs DEF InvRing
<1>2. n < PIPESIZE /\ Count' = n + 1
  BY RingStep
<1>3. nwrite % PIPESIZE = (nread + n) % PIPESIZE
  BY <1>1, RingIs, R!SlotAfter DEF Count
<1>4. Queue = [k \in 1 .. n |-> data[(nread + k - 1) % PIPESIZE]]
  BY DEF Queue
<1>5. Queue' = [k \in 1 .. n + 1 |-> data'[(nread + k - 1) % PIPESIZE]]
  <2>1. nread' = nread
    BY DEF PutByte
  <2>2. Queue' = [k \in 1 .. Count' |-> data'[(nread' + k - 1) % PIPESIZE]]
    BY DEF Queue
  <2> QED
    BY <1>2, <2>1, <2>2
<1>6. data' = [data EXCEPT ![nwrite % PIPESIZE] = b]
  BY DEF PutByte
<1> HIDE DEF n
<1>7. n \in 0 .. PIPESIZE - 1
  BY SMTT(60), <1>1, <1>2, RingIs
<1>8. /\ (nread + n) % PIPESIZE \in 0 .. PIPESIZE - 1
      /\ \A i \in 0 .. n - 1 : /\ (nread + i) % PIPESIZE \in 0 .. PIPESIZE - 1
                               /\ (nread + i) % PIPESIZE # (nread + n) % PIPESIZE
  BY <1>1, <1>7, RingIs, R!Push
<1>9. ASSUME NEW k \in 1 .. n + 1
      PROVE  data'[(nread + k - 1) % PIPESIZE] = IF k = n + 1 THEN b ELSE Queue[k]
  <2>1. nread + k - 1 = nread + (k - 1)
    BY SMTT(60), <1>1
  <2>2. CASE k = n + 1
    <3>1. nread + k - 1 = nread + n
      BY SMTT(60), <1>1, <2>2
    <3> QED
      BY <1>1, <1>3, <1>6, <1>8, <2>2, <3>1
  <2>3. CASE k # n + 1
    <3>1. k \in 1 .. n /\ k - 1 \in 0 .. n - 1
      BY SMTT(60), <1>1, <2>3
    <3>2. /\ (nread + (k - 1)) % PIPESIZE \in 0 .. PIPESIZE - 1
          /\ (nread + (k - 1)) % PIPESIZE # (nread + n) % PIPESIZE
      BY <1>8, <3>1
    <3>3. data'[(nread + (k - 1)) % PIPESIZE] = data[(nread + (k - 1)) % PIPESIZE]
      BY <1>1, <1>3, <1>6, <3>2
    <3>4. Queue[k] = data[(nread + k - 1) % PIPESIZE]
      BY <1>4, <3>1
    <3> QED
      BY <2>1, <2>3, <3>3, <3>4
  <2> QED
    BY <2>2, <2>3
<1>10. Len(Queue) = n
  BY <1>1, LenIs
<1>11. Append(Queue, b) = [k \in 1 .. n + 1 |-> IF k = n + 1 THEN b ELSE Queue[k]]
  <2>1. n \in Nat /\ Queue \in [1 .. n -> Bytes]
    BY <1>1
  <2>2. ASSUME NEW s \in [1 .. n -> Bytes]
        PROVE  Append(s, b) = [k \in 1 .. n + 1 |-> IF k = n + 1 THEN b ELSE s[k]]
    BY SMTT(60), <2>1, AppendIs
  <2> QED
    BY <2>1, <2>2
<1>12. Queue' = [k \in 1 .. n + 1 |-> IF k = n + 1 THEN b ELSE Queue[k]]
  BY <1>5, <1>9
<1> QED
  BY <1>2, <1>10, <1>11, <1>12

(* The byte that piperead() takes is the first of the queue. *)
LEMMA QueueGet ==
  ASSUME InvRing, GetByte
  PROVE  Queue # <<>> /\ Queue' = Tail(Queue)
<1> DEFINE n == Count
<1>1. /\ n \in Nat /\ n <= PIPESIZE /\ nread \in Nat /\ Queue \in [1 .. n -> Bytes]
      /\ nread \in 0 .. MODULUS - 1
  BY QueueIs DEF InvRing
<1>2. n > 0 /\ Count' = n - 1
  BY RingStep
<1>3. /\ Queue = [k \in 1 .. n |-> data[(nread + k - 1) % PIPESIZE]]
      /\ Queue' = [k \in 1 .. n - 1 |-> data[(((nread + 1) % MODULUS) + k - 1) % PIPESIZE]]
  BY <1>2 DEF Queue, GetByte
<1> HIDE DEF n
<1>4. n \in 1 .. PIPESIZE
  BY SMTT(60), <1>1, <1>2, RingIs
<1>5. \A i \in 0 .. n - 2 :
        (((nread + 1) % MODULUS) + i) % PIPESIZE = (nread + (i + 1)) % PIPESIZE
  BY <1>1, <1>4, RingIs, R!Pop
<1>6. (nread + 1) % MODULUS \in Int
  BY SMTT(60), <1>1, RingIs
<1>7. ASSUME NEW k \in 1 .. n - 1
      PROVE  data[(((nread + 1) % MODULUS) + k - 1) % PIPESIZE] = Queue[k + 1]
  <2> DEFINE u == (nread + 1) % MODULUS
  <2>1. u \in Int
    BY <1>6
  <2> HIDE DEF u
  <2>2. /\ k - 1 \in 0 .. n - 2 /\ k + 1 \in 1 .. n /\ u + k - 1 = u + (k - 1)
        /\ nread + ((k - 1) + 1) = nread + (k + 1) - 1
    BY SMTT(60), <1>1, <2>1
  <2>3. (u + (k - 1)) % PIPESIZE = (nread + ((k - 1) + 1)) % PIPESIZE
    BY <1>5, <2>2 DEF u
  <2>4. Queue[k + 1] = data[(nread + (k + 1) - 1) % PIPESIZE]
    BY <1>3, <2>2
  <2> QED
    BY <2>2, <2>3, <2>4 DEF u
<1>8. Len(Queue) = n
  BY <1>1, LenIs
<1>9. Tail(Queue) = [k \in 1 .. n - 1 |-> Queue[k + 1]]
  <2>1. n \in Nat /\ n > 0 /\ Queue \in [1 .. n -> Bytes]
    BY <1>1, <1>2
  <2>2. ASSUME NEW s \in [1 .. n -> Bytes] PROVE Tail(s) = [k \in 1 .. n - 1 |-> s[k + 1]]
    BY <2>1, TailIs
  <2> QED
    BY <2>1, <2>2
<1>10. Queue' = [k \in 1 .. n - 1 |-> Queue[k + 1]]
  BY <1>3, <1>7
<1>11. Queue # <<>>
  <2>1. Len(<<>>) = 0 /\ n # 0
    BY SMTT(60), <1>1, <1>2
  <2> QED
    BY <1>8, <2>1
<1> QED
  BY <1>9, <1>10, <1>11

(* pipealloc() makes an empty queue, and every step of the pipe puts a     *)
(* byte at the end of the queue, takes the first, closes an end, or leaves *)
(* the queue as it is.                                                     *)
THEOREM PipeImplementsFifo == Spec => IsFifo
<1>1. Init => Abstract!Init
  <2> SUFFICES ASSUME Init PROVE Abstract!Init
    OBVIOUS
  <2>1. InvRing
    BY ContentsInit DEF ContentsInv
  <2>2. Empty /\ readopen = TRUE /\ writeopen = TRUE
    BY DEF Init, Empty
  <2>3. Queue \in [1 .. 0 -> Bytes]
    BY <2>1, <2>2, CountIs, QueueIs
  <2>4. Queue = <<>>
    BY SMTT(60), <2>3
  <2> QED
    BY <2>2, <2>4 DEF Abstract!Init
<1>2. ContentsInv /\ [Next]_vars => [Abstract!Next]_(Abstract!vars)
  <2> SUFFICES ASSUME ContentsInv, [Next]_vars PROVE [Abstract!Next]_(Abstract!vars)
    OBVIOUS
  <2>1. InvRing
    BY DEF ContentsInv
  <2>2. UNCHANGED <<data, nread, nwrite>> => UNCHANGED Queue
    BY DEF Queue, Count
  <2>3. (\E b \in Bytes : PutByte(b)) \/ GetByte \/ CloseEnd \/ UNCHANGED pipe
    <3>1. CASE UNCHANGED vars
      BY <3>1 DEF vars
    <3>2. CASE Next
      BY <3>2, StepIs DEF Next, SomeStep
    <3> QED
      BY <3>1, <3>2
  <2>4. ASSUME NEW b \in Bytes, PutByte(b) PROVE Abstract!Put(b)
    BY <2>1, <2>4, QueuePut DEF PutByte, Abstract!Put
  <2>5. ASSUME GetByte PROVE Abstract!Get
    BY <2>1, <2>5, QueueGet DEF GetByte, Abstract!Get
  <2>6. ASSUME CloseEnd PROVE Abstract!CloseRead \/ Abstract!CloseWrite
    BY <2>2, <2>6 DEF CloseEnd, Abstract!CloseRead, Abstract!CloseWrite
  <2>7. ASSUME UNCHANGED pipe PROVE UNCHANGED Abstract!vars
    BY <2>2, <2>7 DEF pipe, Abstract!vars
  <2> QED
    BY <2>3, <2>4, <2>5, <2>6, <2>7 DEF Abstract!Next
<1> QED
  BY <1>1, <1>2, PipeContents, PTL DEF Spec, IsFifo, Abstract!Spec
=============================================================================
