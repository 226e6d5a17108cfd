--------------------------- MODULE SpinlockProofs ---------------------------
(***************************************************************************)
(* Proofs about spinlocks: the steps of acquire(), release(), pop_off(),   *)
(* interrupts and context switches preserve the inductive invariant, and   *)
(* what follows from it.                                                   *)
(*                                                                         *)
(* Every step but a context switch acts on one CPU c and on the context    *)
(* that runs there.  StepFrame(c) says what such a step leaves alone, and  *)
(* CodeStep that it is then enough to look at c itself: one lemma for each *)
(* action shows its frame, the types, and the three facts about c.         *)
(***************************************************************************)
EXTENDS Spinlock, FiniteSetTheorems, TLAPS

(* The default prover. *)
USE ZenonT(60)

(* What a step on CPU c that is not a context switch leaves alone. *)
StepFrame(c) ==
  /\ run' = run /\ si' = si
  /\ \A d \in CPUs : d # c =>
       intr'[d] = intr[d] /\ noff'[d] = noff[d] /\ intena'[d] = intena[d]
  /\ \A k \in Contexts : k # run[c] =>
       pc'[k] = pc[k] /\ lk'[k] = lk[k] /\ old'[k] = old[k] /\ frame'[k] = frame[k]
  /\ \A k \in Threads : k # run[c] => want'[k] = want[k]
  /\ \A d \in CPUs, l \in Locks : d # c =>
       /\ owner'[l] = d <=> owner[l] = d
       /\ lcpu'[l] = d <=> lcpu[l] = d
       /\ owner[l] = d => lcpu'[l] = lcpu[l]

(* A CPU holds finitely many locks. *)
LEMMA HeldFinite ==
  ASSUME NEW c \in CPUs PROVE IsFiniteSet(Held(c)) /\ Cardinality(Held(c)) \in Nat
<1>1. IsFiniteSet(Locks)
  BY SpinConstants, FS_AddElement DEF Locks
<1> QED
  BY <1>1, FS_Subset, FS_CardinalityType DEF Held

(* A CPU that holds a lock has its interrupts off. *)
LEMMA HolderIsOff ==
  ASSUME NEW c \in CPUs, NoffAt(c), Held(c) # {} PROVE ~intr[c]
<1>1. Cardinality(Held(c)) # 0 /\ Cardinality(Held(c)) \in Nat
  BY HeldFinite, FS_EmptySet
<1> QED
  BY SMTT(60), <1>1 DEF NoffAt

(* A CPU executes a context of its own, which is not parked. *)
LEMMA RunFacts ==
  ASSUME SpinInv, NEW c \in CPUs
  PROVE  /\ run[c] \in Contexts /\ pc[run[c]] # "parked"
         /\ \A d \in CPUs : d # c => run[d] \in Contexts /\ run[d] # run[c]
         /\ NoffAt(c) /\ OwnerAt(c) /\ IntrAt(c)
<1>1. run[c] \in Contexts /\ \A d \in CPUs : d # c => run[d] \in Contexts /\ run[d] # run[c]
  BY SMTT(60) DEF SpinInv, TypeOK, InvPlace
<1>2. pc[run[c]] # "parked"
  BY <1>1 DEF SpinInv, InvPlace, Contexts
<1>3. NoffAt(c) /\ OwnerAt(c) /\ IntrAt(c)
  BY DEF SpinInv, NoffCounts, InvOwner, InvIntr
<1> QED
  BY <1>1, <1>2, <1>3

(* A step on CPU c preserves the inductive invariant if it preserves what  *)
(* the invariant says of c.                                                *)
LEMMA CodeStep ==
  ASSUME SpinInv, NEW c \in CPUs, StepFrame(c), TypeOK',
         pc'[run[c]] \notin {"panic", "parked", "back"},
         NoffAt(c)', OwnerAt(c)', IntrAt(c)'
  PROVE  SpinInv'
<1>a. run' = run /\ \A d \in CPUs : d # c => run[d] \in Contexts /\ run[d] # run[c]
  BY RunFacts DEF StepFrame
<1>b. \A k \in Threads : pc'[k] = "parked" => pc[k] = "parked" /\ k # run[c] /\ frame'[k] = frame[k]
  BY DEF StepFrame, Contexts
<1>c. \A k \in Threads : pc[k] = "parked" => pc'[k] = "parked"
  BY SMTT(60), RunFacts DEF StepFrame, Contexts
<1>d. ASSUME NEW d \in CPUs, d # c
      PROVE  /\ pc'[run[d]] = pc[run[d]] /\ lk'[run[d]] = lk[run[d]]
             /\ old'[run[d]] = old[run[d]] /\ frame'[run[d]] = frame[run[d]]
             /\ run[d] \in Threads => want'[run[d]] = want[run[d]]
             /\ intr'[d] = intr[d] /\ noff'[d] = noff[d] /\ intena'[d] = intena[d]
  BY <1>a, <1>d DEF StepFrame
<1>e. \A d \in CPUs : d # c => Held(d)' = Held(d)
  BY SMTT(60) DEF StepFrame, Held
<1>1. NoPanic'
  BY SMTT(60) DEF SpinInv, NoPanic, StepFrame
<1>2. NoffCounts'
  BY SMTT(60), <1>a, <1>d, <1>e DEF SpinInv, NoffCounts, NoffAt
<1>3. InvPlace'
  <2>1. \A k \in Threads : pc'[k] = "parked" <=> \A d \in CPUs : run'[d] # k
    BY SMTT(60), <1>a, <1>b, <1>c DEF SpinInv, InvPlace
  <2>2. \A d \in CPUs : pc'[d] # "parked"
    BY SMTT(60) DEF SpinInv, InvPlace, StepFrame, Contexts
  <2>3. \A d \in CPUs : run'[d] # d => pc'[d] = "idle" /\ frame'[d] = "base"
    <3>1. \A d \in CPUs : run[d] # d => run[c] # d
      BY SMTT(60), RunFacts DEF SpinInv, TypeOK
    <3> QED
      BY SMTT(60), <1>a, <3>1 DEF SpinInv, InvPlace, StepFrame, Contexts
  <2>4. \A k \in Contexts : pc'[k] = "back" => k \in CPUs /\ frame'[k] = "base"
    BY SMTT(60) DEF SpinInv, InvPlace, StepFrame
  <2>5. \A d \in CPUs : pc'[run'[d]] = "back" => Held(d)' # {}
    BY SMTT(60), <1>a, <1>d, <1>e DEF SpinInv, InvPlace
  <2> QED
    BY SMTT(60), <1>a, <2>1, <2>2, <2>3, <2>4, <2>5 DEF SpinInv, InvPlace
<1>4. InvOwner'
  <2>1. ASSUME NEW d \in CPUs, d # c PROVE OwnerAt(d)'
    <3>1. OwnerAt(d) /\ run[d] \in Contexts /\ (run[d] \in Contexts => lk[run[d]] \in Locks)
      BY RunFacts DEF SpinInv, TypeOK
    <3> QED
      BY SMTT(60), <1>a, <1>d, <2>1, <3>1 DEF OwnerAt, StepFrame
  <2> QED
    BY <2>1 DEF InvOwner
<1>5. InvIntr'
  <2>1. ASSUME NEW d \in CPUs, d # c PROVE IntrAt(d)'
    <3>1. IntrAt(d)
      BY RunFacts
    <3> QED
      BY <1>a, <1>d, <2>1, <3>1 DEF IntrAt, Before
  <2>2. \A k \in Threads : pc'[k] = "parked" =>
          /\ si'[k] = si[k] /\ frame'[k] = frame[k] /\ want'[k] = want[k]
    BY <1>b DEF StepFrame
  <2> QED
    BY SMTT(60), <1>b, <2>1, <2>2 DEF SpinInv, InvIntr, Before
<1> QED
  BY <1>1, <1>2, <1>3, <1>4, <1>5 DEF SpinInv

(* The initial state satisfies the inductive invariant. *)
LEMMA InitInv == Init => SpinInv
<1> SUFFICES ASSUME Init PROVE SpinInv
  OBVIOUS
<1> USE SpinConstants, FreeIsNoCpu DEF Init, Locks, Contexts
<1>1. TypeOK
  <2>1. pc \in [Contexts -> Labels]
    BY DEF Labels
  <2>2. saved \in [Contexts -> [pc : {"idle", "push"}, lk : Locks]]
    OBVIOUS
  <2>3. want \in [Threads -> BOOLEAN] /\ si \in [Threads -> BOOLEAN]
    OBVIOUS
  <2>4. run \in [CPUs -> Contexts] /\ \A c \in CPUs : run[c] \in CPUs => run[c] = c
    OBVIOUS
  <2>5. intr \in [CPUs -> BOOLEAN] /\ intena \in [CPUs -> BOOLEAN] /\ noff \in [CPUs -> Nat]
    OBVIOUS
  <2>6. /\ lk \in [Contexts -> Locks] /\ old \in [Contexts -> BOOLEAN]
        /\ frame \in [Contexts -> {"base", "handler"}]
    OBVIOUS
  <2>7. owner \in [Locks -> CPUs \cup {Free}] /\ lcpu \in [Locks -> CPUs \cup {Free}]
    OBVIOUS
  <2> QED
    BY <2>1, <2>2, <2>3, <2>4, <2>5, <2>6, <2>7 DEF TypeOK
<1>2. NoPanic
  BY DEF NoPanic
<1>3. ASSUME NEW c \in CPUs PROVE Held(c) = {}
  BY <1>3 DEF Held
<1>4. NoffCounts
  <2>1. \A c \in CPUs : noff[c] = 0 /\ pc[run[c]] = "idle"
    OBVIOUS
  <2>2. \A c \in CPUs : Cardinality(Held(c)) = 0
    BY <1>3, FS_EmptySet
  <2> QED
    BY SMTT(60), <2>1, <2>2 DEF NoffCounts, NoffAt
<1>5. InvPlace
  BY DEF InvPlace
<1>6. InvOwner
  BY DEF InvOwner, OwnerAt
<1>7. InvIntr
  BY DEF InvIntr, IntrAt, Before
<1> QED
  BY <1>1, <1>2, <1>4, <1>5, <1>6, <1>7 DEF SpinInv

(* The first half of push_off() preserves the inductive invariant. *)
LEMMA PushReadInv ==
  ASSUME SpinInv, NEW c \in CPUs, NEW l \in Locks, PushRead(c, l) PROVE SpinInv'
<1> DEFINE k == run[c]
<1>a. k \in Contexts /\ NoffAt(c) /\ OwnerAt(c) /\ IntrAt(c) /\ TypeOK
  BY RunFacts DEF SpinInv
<1>b. /\ pc[k] = "idle" /\ pc' = [pc EXCEPT ![k] = "push"] /\ owner[l] # c
      /\ lk' = [lk EXCEPT ![k] = l] /\ old' = [old EXCEPT ![k] = intr[c]]
      /\ UNCHANGED <<owner, lcpu, intr, noff, intena, run, frame, saved, si, want>>
  <2>1. l \in MayAcquire(c) /\ owner[l] # c
    BY SpinConstants DEF PushRead, MayAcquire, Held, Locks
  <2> QED
    BY <2>1 DEF PushRead, Goto, locks, cpu
<1> USE <1>a, <1>b
<1> HIDE DEF k
<1>1. TypeOK'
  BY DEF TypeOK, Labels
<1>2. StepFrame(c)
  BY DEF StepFrame, TypeOK, k
<1>c. pc'[k] = "push" /\ run'[c] = k /\ lk'[k] = l /\ old'[k] = intr[c] /\ Held(c)' = Held(c)
  BY DEF TypeOK, Held, k
<1>3. NoffAt(c)'
  BY <1>c DEF NoffAt, k
<1>4. OwnerAt(c)'
  BY <1>c DEF OwnerAt, k
<1>5. IntrAt(c)'
  BY <1>c DEF IntrAt, Before, k
<1> QED
  BY <1>c, <1>1, <1>2, <1>3, <1>4, <1>5, CodeStep DEF k

(* push_off() preserves the inductive invariant. *)
LEMMA PushOffInv ==
  ASSUME SpinInv, NEW c \in CPUs, PushOff(c) PROVE SpinInv'
<1> DEFINE k == run[c]
<1>a. k \in Contexts /\ NoffAt(c) /\ OwnerAt(c) /\ IntrAt(c) /\ TypeOK
  BY RunFacts DEF SpinInv
<1>b. pc[k] = "push" /\ ~holding(c, lk[k])
  BY <1>a DEF PushOff, OwnerAt, holding, TypeOK
<1>c. /\ pc' = [pc EXCEPT ![k] = "spin"] /\ intr' = [intr EXCEPT ![c] = FALSE]
      /\ intena' = [intena EXCEPT ![c] = Intena(c)] /\ noff' = [noff EXCEPT ![c] = @ + 1]
      /\ UNCHANGED <<owner, lcpu, run, lk, old, frame, saved, si, want>>
  BY <1>b DEF PushOff, Goto, locks
<1>d. Intena(c) \in BOOLEAN
  BY <1>a DEF TypeOK, Intena
<1> USE <1>a, <1>b, <1>c, <1>d
<1> HIDE DEF k
<1>1. TypeOK'
  BY SMTT(60) DEF TypeOK, Labels
<1>2. StepFrame(c)
  BY DEF StepFrame, TypeOK, k
<1>e. pc'[k] = "spin" /\ run'[c] = k /\ noff'[c] = noff[c] + 1 /\ ~intr'[c] /\ noff[c] \in Nat
  BY DEF TypeOK, k
<1>3. NoffAt(c)'
  <2>1. Held(c)' = Held(c) /\ Cardinality(Held(c)) \in Nat
    BY HeldFinite DEF Held
  <2> QED
    BY SMTT(60), <1>e, <2>1 DEF NoffAt, k
<1>4. OwnerAt(c)'
  BY <1>e DEF OwnerAt, k
<1>5. IntrAt(c)'
  <2>1. noff'[c] # 0 /\ noff'[c] > 0 /\ frame' = frame /\ want' = want
    BY SMTT(60), <1>e
  <2>2. CASE noff[c] = 0
    <3>1. intena'[c] = intr[c]
      BY <2>2 DEF TypeOK, Intena, IntrAt, k
    <3> QED
      BY <1>e, <2>1, <2>2, <3>1 DEF IntrAt, Before, k
  <2>3. CASE noff[c] # 0
    <3>1. intena'[c] = intena[c] /\ noff[c] > 0
      BY SMTT(60), <1>e, <2>3 DEF TypeOK, Intena
    <3> QED
      BY <1>e, <2>1, <3>1 DEF IntrAt, Before, k
  <2> QED
    BY <2>2, <2>3
<1> QED
  BY <1>e, <1>1, <1>2, <1>3, <1>4, <1>5, CodeStep DEF k

(* Taking a lock preserves the inductive invariant. *)
LEMMA SwapInv ==
  ASSUME SpinInv, NEW c \in CPUs, Swap(c) PROVE SpinInv'
<1> DEFINE k == run[c]
<1>a. k \in Contexts /\ NoffAt(c) /\ OwnerAt(c) /\ IntrAt(c) /\ TypeOK
  BY RunFacts DEF SpinInv
<1>b. /\ pc[k] = "spin" /\ pc' = [pc EXCEPT ![k] = "setcpu"] /\ lk[k] \in Locks
      /\ owner[lk[k]] = Free /\ owner' = [owner EXCEPT ![lk[k]] = c]
      /\ UNCHANGED <<lcpu, intr, noff, intena, run, lk, old, frame, saved, si, want>>
  BY <1>a DEF Swap, Goto, cpu, TypeOK
<1> USE <1>a, <1>b
<1> HIDE DEF k
<1>1. TypeOK'
  BY DEF TypeOK, Labels
<1>2. StepFrame(c)
  BY FreeIsNoCpu DEF StepFrame, TypeOK, k
<1>c. pc'[k] = "setcpu" /\ run'[c] = k
  BY DEF TypeOK, k
<1>3. NoffAt(c)'
  <2>1. Held(c)' = Held(c) \cup {lk[k]} /\ lk[k] \notin Held(c)
    BY SMTT(60), FreeIsNoCpu DEF Held, TypeOK
  <2>2. Cardinality(Held(c)') = Cardinality(Held(c)) + 1
    BY <2>1, HeldFinite, FS_AddElement
  <2> QED
    BY SMTT(60), <1>c, <2>2, HeldFinite DEF NoffAt, k
<1>4. OwnerAt(c)'
  <2>1. lcpu[lk[k]] = Free
    BY SMTT(60), FreeIsNoCpu DEF SpinInv, InvOwner, OwnerAt, TypeOK
  <2> QED
    BY <1>c, <2>1 DEF OwnerAt, TypeOK, k
<1>5. IntrAt(c)'
  BY <1>c DEF IntrAt, Before, k
<1> QED
  BY <1>c, <1>1, <1>2, <1>3, <1>4, <1>5, CodeStep DEF k

(* The end of acquire() preserves the inductive invariant. *)
LEMMA SetCpuInv ==
  ASSUME SpinInv, NEW c \in CPUs, SetCpu(c) PROVE SpinInv'
<1> DEFINE k == run[c]
<1>a. k \in Contexts /\ NoffAt(c) /\ OwnerAt(c) /\ IntrAt(c) /\ TypeOK
  BY RunFacts DEF SpinInv
<1>b. /\ pc[k] = "setcpu" /\ pc' = [pc EXCEPT ![k] = "idle"] /\ lk[k] \in Locks
      /\ owner[lk[k]] = c /\ lcpu' = [lcpu EXCEPT ![lk[k]] = c]
      /\ lk' = [lk EXCEPT ![k] = Outer] /\ old' = [old EXCEPT ![k] = FALSE]
      /\ UNCHANGED <<owner, intr, noff, intena, run, frame, saved, si, want>>
  BY <1>a DEF SetCpu, Done, Goto, cpu, TypeOK, OwnerAt
<1> USE <1>a, <1>b
<1> HIDE DEF k
<1>1. TypeOK'
  BY DEF TypeOK, Labels, Locks
<1>2. StepFrame(c)
  <2>1. lcpu[lk[k]] = Free
    BY DEF OwnerAt, k
  <2> QED
    BY <2>1, FreeIsNoCpu DEF StepFrame, TypeOK, k
<1>c. pc'[k] = "idle" /\ run'[c] = k /\ Held(c)' = Held(c)
  BY DEF TypeOK, Held, k
<1>3. NoffAt(c)'
  BY <1>c DEF NoffAt, k
<1>4. OwnerAt(c)'
  BY <1>c DEF OwnerAt, TypeOK, k
<1>5. IntrAt(c)'
  BY <1>c DEF IntrAt, Before, k
<1> QED
  BY <1>c, <1>1, <1>2, <1>3, <1>4, <1>5, CodeStep DEF k

(* The first half of release() preserves the inductive invariant. *)
LEMMA ReleaseInv ==
  ASSUME SpinInv, NEW c \in CPUs, NEW l \in Locks, Release(c, l) PROVE SpinInv'
<1> DEFINE k == run[c]
<1>a. k \in Contexts /\ NoffAt(c) /\ OwnerAt(c) /\ IntrAt(c) /\ TypeOK
  BY RunFacts DEF SpinInv
<1>b. pc[k] \in {"idle", "back"} /\ owner[l] = c /\ lcpu[l] = c /\ holding(c, l)
  BY <1>a, FreeIsNoCpu DEF Release, OwnerAt, holding, Held
<1>c. /\ pc' = [pc EXCEPT ![k] = "unlock"] /\ lcpu' = [lcpu EXCEPT ![l] = Free]
      /\ lk' = [lk EXCEPT ![k] = l]
      /\ UNCHANGED <<owner, intr, noff, intena, run, old, frame, saved, si, want>>
  BY <1>b DEF Release, Goto, cpu
<1> USE <1>a, <1>b, <1>c
<1> HIDE DEF k
<1>1. TypeOK'
  BY DEF TypeOK, Labels
<1>2. StepFrame(c)
  BY FreeIsNoCpu DEF StepFrame, TypeOK, k
<1>d. pc'[k] = "unlock" /\ run'[c] = k /\ lk'[k] = l /\ Held(c)' = Held(c)
  BY DEF TypeOK, Held, k
<1>3. NoffAt(c)'
  BY <1>d DEF NoffAt, k
<1>4. OwnerAt(c)'
  BY <1>d, FreeIsNoCpu DEF OwnerAt, TypeOK, k
<1>5. IntrAt(c)'
  <2>1. Held(c) # {}
    BY DEF Held
  <2>2. ~intr[c]
    BY <2>1, HolderIsOff
  <2> QED
    BY <1>d, <2>2 DEF IntrAt, Before, k
<1> QED
  BY <1>d, <1>1, <1>2, <1>3, <1>4, <1>5, CodeStep DEF k

(* Freeing a lock preserves the inductive invariant. *)
LEMMA UnlockInv ==
  ASSUME SpinInv, NEW c \in CPUs, Unlock(c) PROVE SpinInv'
<1> DEFINE k == run[c]
<1>a. k \in Contexts /\ NoffAt(c) /\ OwnerAt(c) /\ IntrAt(c) /\ TypeOK
  BY RunFacts DEF SpinInv
<1>b. /\ pc[k] = "unlock" /\ pc' = [pc EXCEPT ![k] = "pop"] /\ lk[k] \in Locks
      /\ owner' = [owner EXCEPT ![lk[k]] = Free]
      /\ UNCHANGED <<lcpu, intr, noff, intena, run, lk, old, frame, saved, si, want>>
  BY <1>a DEF Unlock, Goto, cpu, TypeOK
<1>c. owner[lk[k]] = c /\ lcpu[lk[k]] = Free
  BY <1>a, <1>b DEF OwnerAt
<1> USE <1>a, <1>b, <1>c
<1> HIDE DEF k
<1>1. TypeOK'
  BY DEF TypeOK, Labels
<1>2. StepFrame(c)
  BY FreeIsNoCpu DEF StepFrame, TypeOK, k
<1>d. pc'[k] = "pop" /\ run'[c] = k
  BY DEF TypeOK, k
<1>3. NoffAt(c)'
  <2>1. Held(c)' = Held(c) \ {lk[k]} /\ lk[k] \in Held(c)
    BY FreeIsNoCpu DEF Held, TypeOK
  <2>2. Cardinality(Held(c)') = Cardinality(Held(c)) - 1
    BY <2>1, HeldFinite, FS_RemoveElement
  <2> QED
    BY SMTT(60), <1>d, <2>2, HeldFinite DEF NoffAt, k
<1>4. OwnerAt(c)'
  BY <1>d, FreeIsNoCpu DEF OwnerAt, TypeOK, k
<1>5. IntrAt(c)'
  BY <1>d DEF IntrAt, Before, k
<1> QED
  BY <1>d, <1>1, <1>2, <1>3, <1>4, <1>5, CodeStep DEF k

(* pop_off() preserves the inductive invariant. *)
LEMMA PopOffInv ==
  ASSUME SpinInv, NEW c \in CPUs, PopOff(c) PROVE SpinInv'
<1> DEFINE k == run[c]
<1>a. k \in Contexts /\ NoffAt(c) /\ OwnerAt(c) /\ IntrAt(c) /\ TypeOK
  BY RunFacts DEF SpinInv
<1>b. pc[k] = "pop" /\ noff[c] = Cardinality(Held(c)) + 1 /\ noff[c] \in Nat \ {0} /\ ~intr[c]
  BY SMTT(60), <1>a, HeldFinite DEF NoffAt, PopOff
<1>c. /\ pc' = [pc EXCEPT ![k] = "idle"] /\ noff' = [noff EXCEPT ![c] = @ - 1]
      /\ intr' = [intr EXCEPT ![c] = @ \/ IntrOn(c)]
      /\ lk' = [lk EXCEPT ![k] = Outer] /\ old' = [old EXCEPT ![k] = FALSE]
      /\ UNCHANGED <<owner, lcpu, intena, run, frame, saved, si, want>>
  <2>1. ~(intr[c] \/ noff[c] < 1)
    BY SMTT(60), <1>b
  <2> QED
    BY <2>1 DEF PopOff, Done, Goto, locks
<1>d. (intr'[c] <=> IntrOn(c)) /\ IntrOn(c) \in BOOLEAN
  BY <1>a, <1>b, <1>c DEF TypeOK, IntrOn
<1> USE <1>a, <1>b, <1>c, <1>d
<1> HIDE DEF k
<1>1. TypeOK'
  <2>1. intr' \in [CPUs -> BOOLEAN] /\ old' \in [Contexts -> BOOLEAN]
    BY DEF TypeOK
  <2>2. noff[c] - 1 \in Nat
    BY SMTT(60)
  <2>3. noff' \in [CPUs -> Nat]
    BY <2>2 DEF TypeOK
  <2> QED
    BY <2>1, <2>3 DEF TypeOK, Labels, Locks
<1>2. StepFrame(c)
  BY DEF StepFrame, TypeOK, k
<1>e. /\ pc'[k] = "idle" /\ run'[c] = k /\ Held(c)' = Held(c) /\ noff'[c] = noff[c] - 1
      /\ intena' = intena /\ frame' = frame /\ want' = want
  BY DEF TypeOK, Held, k
<1>3. NoffAt(c)'
  <2>1. noff'[c] > 0 => ~intr'[c]
    BY SMTT(60), <1>e DEF IntrOn
  <2> QED
    BY SMTT(60), <1>e, <2>1, HeldFinite DEF NoffAt
<1>4. OwnerAt(c)'
  BY <1>e DEF OwnerAt, k
<1>5. IntrAt(c)'
  <2>1. /\ k \in Threads => (intena[c] <=> Before(k))
        /\ frame[k] = "handler" => (k \in Threads => want[k]) /\ ~intena[c]
    BY SMTT(60) DEF IntrAt, k
  <2>2. (noff'[c] = 0 => (intr'[c] <=> intena[c])) /\ (noff'[c] # 0 => ~intr'[c])
    BY SMTT(60), <1>e DEF IntrOn
  <2>3. noff'[c] > 0 => noff'[c] # 0
    BY SMTT(60), <1>e
  <2> QED
    BY <1>e, <2>1, <2>2, <2>3 DEF IntrAt, Before
<1> QED
  BY <1>e, <1>1, <1>2, <1>3, <1>4, <1>5, CodeStep DEF k

(* An interrupt preserves the inductive invariant. *)
LEMMA TrapInv ==
  ASSUME SpinInv, NEW c \in CPUs, Trap(c) PROVE SpinInv'
<1> DEFINE k == run[c]
<1>a. k \in Contexts /\ NoffAt(c) /\ OwnerAt(c) /\ IntrAt(c) /\ TypeOK
  BY RunFacts DEF SpinInv
<1>b. /\ pc[k] \in {"idle", "push"} /\ pc' = [pc EXCEPT ![k] = "idle"] /\ intr[c]
      /\ intr' = [intr EXCEPT ![c] = FALSE] /\ frame' = [frame EXCEPT ![k] = "handler"]
      /\ saved' = [saved EXCEPT ![k] = [pc |-> pc[k], lk |-> lk[k]]]
      /\ UNCHANGED <<owner, lcpu, noff, intena, run, lk, old, si, want>>
  BY DEF Trap, Goto, locks
<1>c. noff[c] = 0 /\ ~(noff[c] > 0)
  BY SMTT(60), <1>a, <1>b DEF NoffAt, TypeOK
<1> USE <1>a, <1>b, <1>c
<1> HIDE DEF k
<1>1. TypeOK'
  <2>1. saved' \in [Contexts -> [pc : {"idle", "push"}, lk : Locks]]
    BY DEF TypeOK
  <2> QED
    BY <2>1 DEF TypeOK, Labels
<1>2. StepFrame(c)
  BY DEF StepFrame, TypeOK, k
<1>d. /\ pc'[k] = "idle" /\ run'[c] = k /\ Held(c)' = Held(c) /\ noff' = noff
      /\ frame'[k] = "handler" /\ ~intr'[c] /\ want' = want
  BY DEF TypeOK, Held, k
<1>3. NoffAt(c)'
  BY <1>d DEF NoffAt, k
<1>4. OwnerAt(c)'
  BY <1>d DEF OwnerAt, k
<1>5. IntrAt(c)'
  <2>1. k \in Threads => want[k]
    BY DEF IntrAt, Before, k
  <2> QED
    BY <1>d, <2>1 DEF IntrAt, Before
<1> QED
  BY <1>d, <1>1, <1>2, <1>3, <1>4, <1>5, CodeStep DEF k

(* The return from an interrupt preserves the inductive invariant. *)
LEMMA SretInv ==
  ASSUME SpinInv, NEW c \in CPUs, Sret(c) PROVE SpinInv'
<1> DEFINE k == run[c]
<1>a. k \in Contexts /\ NoffAt(c) /\ OwnerAt(c) /\ IntrAt(c) /\ TypeOK
  BY RunFacts DEF SpinInv
<1>b. /\ pc[k] = "idle" /\ frame[k] = "handler" /\ Held(c) = {}
      /\ saved[k].pc \in {"idle", "push"} /\ saved[k].lk \in Locks
      /\ pc' = [pc EXCEPT ![k] = saved[k].pc] /\ lk' = [lk EXCEPT ![k] = saved[k].lk]
      /\ intr' = [intr EXCEPT ![c] = TRUE] /\ frame' = [frame EXCEPT ![k] = "base"]
      /\ old' = [old EXCEPT ![k] = saved[k].pc = "push"]
      /\ saved' = [saved EXCEPT ![k] = [pc |-> "idle", lk |-> Outer]]
      /\ UNCHANGED <<owner, lcpu, noff, intena, run, si, want>>
  BY <1>a DEF Sret, locks, TypeOK
<1>c. noff[c] = 0 /\ ~(noff[c] > 0) /\ Cardinality(Held(c)) = 0
  <2>1. Cardinality(Held(c)) = 0
    BY <1>b, FS_EmptySet
  <2> QED
    BY SMTT(60), <1>a, <1>b, <2>1 DEF NoffAt
<1> USE <1>a, <1>b, <1>c
<1> HIDE DEF k
<1>1. TypeOK'
  <2>1. saved' \in [Contexts -> [pc : {"idle", "push"}, lk : Locks]]
    BY DEF TypeOK, Locks
  <2>2. old' \in [Contexts -> BOOLEAN] /\ intr' \in [CPUs -> BOOLEAN]
    BY DEF TypeOK
  <2> QED
    BY <2>1, <2>2 DEF TypeOK, Labels
<1>2. StepFrame(c)
  BY DEF StepFrame, TypeOK, k
<1>d. /\ pc'[k] = saved[k].pc /\ run'[c] = k /\ Held(c)' = Held(c) /\ noff' = noff
      /\ frame'[k] = "base" /\ intr'[c] = TRUE /\ want' = want
  BY DEF TypeOK, Held, k
<1>3. NoffAt(c)'
  BY <1>d DEF NoffAt
<1>4. OwnerAt(c)'
  <2>1. lk'[k] \in Locks /\ \A l \in Locks : owner[l] # c
    BY DEF TypeOK, Held
  <2> QED
    BY <1>d, <2>1 DEF OwnerAt, k
<1>5. IntrAt(c)'
  <2>1. pc'[k] = "push" => old'[k] = TRUE
    BY <1>d DEF TypeOK
  <2>2. k \in Threads => want[k]
    BY DEF IntrAt, k
  <2> QED
    BY <1>d, <2>1, <2>2 DEF IntrAt, Before
<1> QED
  BY <1>d, <1>1, <1>2, <1>3, <1>4, <1>5, CodeStep DEF k

(* Enabling or disabling interrupts preserves the inductive invariant. *)
LEMMA SetIntrInv ==
  ASSUME SpinInv, NEW c \in CPUs, NEW on \in BOOLEAN, SetIntr(c, on) PROVE SpinInv'
<1> DEFINE k == run[c]
<1>a. k \in Contexts /\ NoffAt(c) /\ OwnerAt(c) /\ IntrAt(c) /\ TypeOK
  BY RunFacts DEF SpinInv
<1>b. /\ k \in Threads /\ frame[k] = "base" /\ pc[k] = "idle" /\ Held(c) = {}
      /\ intr' = [intr EXCEPT ![c] = on] /\ want' = [want EXCEPT ![k] = on]
      /\ UNCHANGED <<owner, lcpu, noff, intena, run, pc, lk, old, frame, saved, si>>
  BY DEF SetIntr, locks
<1>c. noff[c] = 0 /\ ~(noff[c] > 0) /\ Cardinality(Held(c)) = 0
  <2>1. Cardinality(Held(c)) = 0
    BY <1>b, FS_EmptySet
  <2> QED
    BY SMTT(60), <1>a, <1>b, <2>1 DEF NoffAt
<1> USE <1>a, <1>b, <1>c
<1> HIDE DEF k
<1>1. TypeOK'
  BY DEF TypeOK
<1>2. StepFrame(c)
  BY DEF StepFrame, TypeOK, k
<1>d. /\ pc'[k] = "idle" /\ run'[c] = k /\ Held(c)' = Held(c) /\ noff' = noff
      /\ frame'[k] = "base" /\ (intr'[c] <=> on) /\ (want'[k] <=> on)
  BY DEF TypeOK, Held, k
<1>3. NoffAt(c)'
  BY <1>d DEF NoffAt
<1>4. OwnerAt(c)'
  BY DEF OwnerAt, k
<1>5. IntrAt(c)'
  BY <1>d DEF IntrAt, Before
<1> QED
  BY <1>d, <1>1, <1>2, <1>3, <1>4, <1>5, CodeStep DEF k

(* intr_on() in scheduler() preserves the inductive invariant. *)
LEMMA SchedulerOnInv ==
  ASSUME SpinInv, NEW c \in CPUs, SchedulerOn(c) PROVE SpinInv'
<1>a. NoffAt(c) /\ OwnerAt(c) /\ IntrAt(c) /\ TypeOK /\ c \notin Threads /\ c \in Contexts
  BY RunFacts, SpinConstants DEF SpinInv, Contexts
<1>b. /\ run[c] = c /\ frame[c] = "base" /\ pc[c] = "idle" /\ Held(c) = {}
      /\ intr' = [intr EXCEPT ![c] = TRUE]
      /\ UNCHANGED <<owner, lcpu, noff, intena, run, pc, lk, old, frame, saved, si, want>>
  BY DEF SchedulerOn, locks, context
<1>c. noff[c] = 0 /\ ~(noff[c] > 0) /\ Cardinality(Held(c)) = 0
  <2>1. Cardinality(Held(c)) = 0
    BY <1>b, FS_EmptySet
  <2> QED
    BY SMTT(60), <1>a, <1>b, <2>1 DEF NoffAt
<1>1. TypeOK'
  BY <1>a, <1>b DEF TypeOK
<1>2. StepFrame(c)
  BY <1>a, <1>b DEF StepFrame, TypeOK
<1>3. NoffAt(c)'
  BY <1>a, <1>b, <1>c DEF NoffAt, Held
<1>4. OwnerAt(c)'
  BY <1>a, <1>b DEF OwnerAt
<1>5. IntrAt(c)'
  BY <1>a, <1>b, <1>c DEF IntrAt
<1> QED
  BY <1>b, <1>1, <1>2, <1>3, <1>4, <1>5, CodeStep

(* sched() preserves the inductive invariant: the thread keeps in its      *)
(* local intena what the CPU knew of its interrupts.                       *)
LEMMA SchedInv ==
  ASSUME SpinInv, NEW c \in CPUs, Sched(c) PROVE SpinInv'
<1> DEFINE k == run[c]
<1> USE SpinConstants, FreeIsNoCpu DEF SpinInv, Sched, Goto, locks
<1>a. k \in Contexts /\ \A d \in CPUs : d # c => run[d] # k /\ run[d] # c
  BY SMTT(60) DEF TypeOK, InvPlace
<1>z. NoffAt(c) /\ IntrAt(c) /\ OwnerAt(c)
  BY DEF NoffCounts, InvIntr, InvOwner
<1>b. /\ k \in Threads /\ pc[k] = "idle" /\ Held(c) = {k} /\ k # c /\ c \in Contexts
      /\ pc[c] = "idle" /\ frame[c] = "base"
  BY SMTT(60) DEF InvPlace, Contexts
<1>c. noff[c] = 1 /\ noff[c] > 0 /\ ~intr[c]
  <2>1. Cardinality(Held(c)) = 1
    BY <1>b, FS_Singleton
  <2> QED
    BY SMTT(60), <1>b, <1>z, <2>1 DEF NoffAt
<1>d. holding(c, k)
  <2>1. k \in Locks /\ owner[k] = c
    BY <1>b DEF Held, Locks
  <2> QED
    BY <1>b, <1>z, <2>1 DEF OwnerAt, holding
<1>e. ~(~holding(c, k) \/ noff[c] # 1 \/ intr[c])
  BY <1>c, <1>d
<1>f. /\ si' = [si EXCEPT ![k] = intena[c]] /\ run' = [run EXCEPT ![c] = c]
      /\ pc' = [pc EXCEPT ![k] = "parked", ![c] = "back"]
  BY <1>e
<1>g. UNCHANGED <<owner, lcpu, intr, noff, intena, lk, old, frame, saved, want>>
  OBVIOUS
<1>h. (intena[c] <=> Before(k)) /\ (frame[k] = "handler" => want[k])
  BY <1>b, <1>c, <1>z DEF IntrAt
<1> HIDE DEF k, Sched
<1>i. /\ run'[c] = c /\ pc'[c] = "back" /\ pc'[k] = "parked"
      /\ \A d \in CPUs : d # c => run'[d] = run[d]
      /\ \A x \in Contexts : x # c /\ x # k => pc'[x] = pc[x]
  BY <1>a, <1>b, <1>f DEF TypeOK
<1>j. \A d \in CPUs : d # c => run[d] \in Contexts /\ pc'[run[d]] = pc[run[d]]
  BY <1>a, <1>i DEF TypeOK
<1>1. TypeOK'
  <2>1. pc' \in [Contexts -> Labels]
    BY <1>f DEF TypeOK, Labels
  <2>2. run' \in [CPUs -> Contexts] /\ \A d \in CPUs : run'[d] \in CPUs => run'[d] = d
    BY <1>b, <1>f DEF TypeOK
  <2>3. si' \in [Threads -> BOOLEAN]
    BY <1>f DEF TypeOK
  <2> QED
    BY <1>g, <2>1, <2>2, <2>3 DEF TypeOK
<1>2. NoPanic'
  BY <1>i DEF NoPanic
<1>3. NoffCounts'
  <2>1. \A d \in CPUs : Held(d)' = Held(d)
    BY <1>g DEF Held
  <2>2. NoffAt(c)'
    BY <1>b, <1>g, <1>i, <1>z, <2>1 DEF NoffAt, k
  <2>3. \A d \in CPUs : d # c => NoffAt(d)'
    BY SMTT(60), <1>g, <1>i, <1>j, <2>1 DEF NoffCounts, NoffAt
  <2> QED
    BY <2>2, <2>3 DEF NoffCounts
<1>4. InvPlace'
  <2>1. \A d, e \in CPUs : run'[d] = run'[e] => d = e
    BY SMTT(60), <1>a, <1>i DEF InvPlace
  <2>2. \A t \in Threads : pc'[t] = "parked" <=> \A d \in CPUs : run'[d] # t
    <3>1. \A d \in CPUs : run'[d] # k
      BY <1>a, <1>b, <1>i
    <3>2. ASSUME NEW t \in Threads, t # k
          PROVE  pc'[t] = "parked" <=> \A d \in CPUs : run'[d] # t
      <4>1. t # c /\ pc'[t] = pc[t] /\ run[c] # t /\ run'[c] # t
        BY <1>i, <3>2 DEF Contexts, k
      <4> QED
        BY SMTT(60), <1>i, <4>1 DEF InvPlace
    <3> QED
      BY <1>i, <3>1, <3>2
  <2>3. \A d \in CPUs : pc'[d] # "parked"
    BY SMTT(60), <1>b, <1>i DEF InvPlace, Contexts
  <2>4. \A d \in CPUs : run'[d] # d => pc'[d] = "idle" /\ frame'[d] = "base"
    BY SMTT(60), <1>b, <1>g, <1>i DEF InvPlace, Contexts
  <2>5. \A x \in Contexts : pc'[x] = "back" => x \in CPUs /\ frame'[x] = "base"
    BY SMTT(60), <1>b, <1>g, <1>i DEF InvPlace
  <2>6. \A d \in CPUs : pc'[run'[d]] = "back" => Held(d)' # {}
    BY SMTT(60), <1>b, <1>g, <1>i, <1>j DEF InvPlace, Held
  <2> QED
    BY <2>1, <2>2, <2>3, <2>4, <2>5, <2>6 DEF InvPlace
<1>5. InvOwner'
  <2>1. OwnerAt(c)'
    BY <1>b, <1>g, <1>i, <1>z DEF OwnerAt, k
  <2>2. \A d \in CPUs : d # c => OwnerAt(d)'
    BY SMTT(60), <1>g, <1>i, <1>j DEF InvOwner, OwnerAt
  <2> QED
    BY <2>1, <2>2 DEF InvOwner
<1>6. InvIntr'
  <2>1. \A d \in CPUs : d # c => IntrAt(d)'
    BY SMTT(60), <1>g, <1>i, <1>j DEF InvIntr, IntrAt, Before
  <2>2. IntrAt(c)'
    BY <1>b, <1>c, <1>g, <1>i DEF IntrAt
  <2>3. si'[k] = intena[c] /\ \A t \in Threads : t # k => si'[t] = si[t]
    BY <1>b, <1>f DEF TypeOK
  <2>4. \A t \in Threads : t # k => pc'[t] = pc[t]
    BY <1>i DEF Contexts
  <2>5. \A t \in Threads : pc'[t] = "parked" => (si'[t] <=> Before(t)')
    BY <1>g, <1>h, <2>3, <2>4 DEF InvIntr, Before
  <2>6. \A t \in Threads : pc'[t] = "parked" /\ frame'[t] = "handler" => want'[t]
    BY <1>g, <1>h, <2>4 DEF InvIntr
  <2> QED
    BY <2>1, <2>2, <2>5, <2>6 DEF InvIntr
<1> QED
  BY <1>1, <1>2, <1>3, <1>4, <1>5, <1>6

(* A switch to a thread preserves the inductive invariant: the CPU learns  *)
(* of the thread's interrupts from the thread.                             *)
LEMMA SwitchInv ==
  ASSUME SpinInv, NEW c \in CPUs, NEW k \in Threads, Switch(c, k) PROVE SpinInv'
<1> USE SpinConstants, FreeIsNoCpu DEF SpinInv
<1>a. /\ k \in Contexts /\ c \in Contexts /\ k # c
      /\ \A d \in CPUs : run[d] # k /\ (d # c => run[d] # c)
  BY SMTT(60) DEF TypeOK, InvPlace, Contexts, Switch
<1>z. NoffAt(c) /\ IntrAt(c) /\ OwnerAt(c)
  BY DEF NoffCounts, InvIntr, InvOwner
<1>b. /\ run[c] = c /\ frame[c] = "base" /\ pc[c] = "idle" /\ Held(c) = {k}
      /\ pc[k] = "parked"
  BY DEF Switch
<1>c. noff[c] = 1 /\ noff[c] > 0 /\ ~intr[c]
  <2>1. Cardinality(Held(c)) = 1
    BY <1>b, FS_Singleton
  <2> QED
    BY SMTT(60), <1>b, <1>z, <2>1 DEF NoffAt
<1>g. UNCHANGED <<owner, lcpu, intr, noff, lk, old, frame, saved, want>>
  BY DEF Switch, locks
<1>h. (si[k] <=> Before(k)) /\ (frame[k] = "handler" => want[k])
  BY <1>b DEF InvIntr
<1>f. /\ run' = [run EXCEPT ![c] = k] /\ intena' = [intena EXCEPT ![c] = si[k]]
      /\ si' = [si EXCEPT ![k] = FALSE] /\ pc' = [pc EXCEPT ![k] = "idle"]
  BY DEF Switch, Goto
<1>i. /\ run'[c] = k /\ pc'[k] = "idle" /\ intena'[c] = si[k]
      /\ \A d \in CPUs : d # c => run'[d] = run[d] /\ intena'[d] = intena[d]
      /\ \A x \in Contexts : x # k => pc'[x] = pc[x]
  BY <1>a, <1>f DEF TypeOK
<1>j. \A d \in CPUs : d # c => run[d] \in Contexts /\ pc'[run[d]] = pc[run[d]]
  BY <1>a, <1>i DEF TypeOK
<1>1. TypeOK'
  <2>1. pc' \in [Contexts -> Labels]
    BY <1>f DEF TypeOK, Labels
  <2>2. run' \in [CPUs -> Contexts] /\ \A d \in CPUs : run'[d] \in CPUs => run'[d] = d
    BY <1>a, <1>f DEF TypeOK
  <2>3. si' \in [Threads -> BOOLEAN] /\ intena' \in [CPUs -> BOOLEAN]
    BY <1>f DEF TypeOK
  <2> QED
    BY <1>g, <2>1, <2>2, <2>3 DEF TypeOK
<1>2. NoPanic'
  BY <1>i DEF NoPanic
<1>3. NoffCounts'
  <2>1. \A d \in CPUs : Held(d)' = Held(d)
    BY <1>g DEF Held
  <2>2. NoffAt(c)'
    BY <1>b, <1>g, <1>i, <1>z, <2>1 DEF NoffAt
  <2>3. \A d \in CPUs : d # c => NoffAt(d)'
    BY SMTT(60), <1>g, <1>i, <1>j, <2>1 DEF NoffCounts, NoffAt
  <2> QED
    BY <2>2, <2>3 DEF NoffCounts
<1>4. InvPlace'
  <2>1. \A d, e \in CPUs : run'[d] = run'[e] => d = e
    BY SMTT(60), <1>a, <1>i DEF InvPlace
  <2>2. \A t \in Threads : pc'[t] = "parked" <=> \A d \in CPUs : run'[d] # t
    <3>1. ASSUME NEW t \in Threads, t # k
          PROVE  pc'[t] = "parked" <=> \A d \in CPUs : run'[d] # t
      <4>1. t # c /\ pc'[t] = pc[t] /\ run[c] # t /\ run'[c] # t
        BY <1>b, <1>i, <3>1 DEF Contexts
      <4> QED
        BY SMTT(60), <1>i, <4>1 DEF InvPlace
    <3> QED
      BY <1>i, <3>1
  <2>3. \A d \in CPUs : pc'[d] # "parked"
    BY SMTT(60), <1>i DEF InvPlace, Contexts
  <2>4. ASSUME NEW d \in CPUs, run'[d] # d PROVE pc'[d] = "idle" /\ frame'[d] = "base"
    <3>1. CASE d = c
      BY <1>a, <1>b, <1>g, <1>i, <3>1 DEF Contexts
    <3>2. CASE d # c
      <4>1. run[d] # d /\ pc'[d] = pc[d]
        BY <1>a, <1>i, <2>4, <3>2 DEF Contexts
      <4> QED
        BY <1>g, <4>1 DEF InvPlace
    <3> QED
      BY <3>1, <3>2
  <2>5. \A x \in Contexts : pc'[x] = "back" => x \in CPUs /\ frame'[x] = "base"
    BY SMTT(60), <1>g, <1>i DEF InvPlace
  <2>6. \A d \in CPUs : pc'[run'[d]] = "back" => Held(d)' # {}
    BY SMTT(60), <1>g, <1>i, <1>j DEF InvPlace, Held
  <2> QED
    BY <2>1, <2>2, <2>3, <2>4, <2>5, <2>6 DEF InvPlace
<1>5. InvOwner'
  <2>1. OwnerAt(c)'
    BY <1>b, <1>g, <1>i, <1>z DEF OwnerAt
  <2>2. \A d \in CPUs : d # c => OwnerAt(d)'
    BY SMTT(60), <1>g, <1>i, <1>j DEF InvOwner, OwnerAt
  <2> QED
    BY <2>1, <2>2 DEF InvOwner
<1>6. InvIntr'
  <2>1. \A d \in CPUs : d # c => IntrAt(d)'
    BY SMTT(60), <1>g, <1>i, <1>j DEF InvIntr, IntrAt, Before
  <2>2. IntrAt(c)'
    BY SMTT(60), <1>c, <1>g, <1>h, <1>i DEF IntrAt, Before
  <2>3. \A t \in Threads : pc'[t] = "parked" => t # k /\ pc[t] = "parked" /\ si'[t] = si[t]
    BY <1>f, <1>i DEF TypeOK, Contexts
  <2> QED
    BY <1>g, <2>1, <2>2, <2>3 DEF InvIntr, Before
<1> QED
  BY <1>1, <1>2, <1>3, <1>4, <1>5, <1>6

(* Every step preserves the inductive invariant. *)
LEMMA NextInv == SpinInv /\ [Next]_vars => SpinInv'
<1> SUFFICES ASSUME SpinInv, [Next]_vars PROVE SpinInv'
  OBVIOUS
<1>1. CASE UNCHANGED vars
  <2>1. \A c \in CPUs : Held(c)' = Held(c)
    BY <1>1 DEF vars, locks, Held
  <2>2. UNCHANGED <<owner, lcpu, intr, noff, intena, run, pc, lk, old, frame, saved, si, want>>
    BY <1>1 DEF vars, locks, cpu, context
  <2>3. TypeOK' /\ NoPanic'
    BY <2>2 DEF SpinInv, TypeOK, NoPanic
  <2>4. NoffCounts' /\ InvPlace'
    BY SMTT(60), <2>1, <2>2 DEF SpinInv, NoffCounts, NoffAt, InvPlace
  <2>5. InvOwner'
    BY SMTT(60), <2>2 DEF SpinInv, InvOwner, OwnerAt
  <2>6. InvIntr'
    BY <2>2 DEF SpinInv, InvIntr, IntrAt, Before
  <2> QED
    BY <2>3, <2>4, <2>5, <2>6 DEF SpinInv
<1>2. CASE Next
  <2>1. PICK c \in CPUs :
          \/ \E l \in Locks : PushRead(c, l) \/ Release(c, l)
          \/ PushOff(c) \/ Swap(c) \/ SetCpu(c) \/ Unlock(c) \/ PopOff(c)
          \/ Trap(c) \/ Sret(c) \/ (\E on \in BOOLEAN : SetIntr(c, on))
          \/ Sched(c) \/ (\E k \in Threads : Switch(c, k)) \/ SchedulerOn(c)
    BY <1>2 DEF Next
  <2> QED
    BY <2>1, PushReadInv, ReleaseInv, PushOffInv, SwapInv, SetCpuInv, UnlockInv, PopOffInv,
       TrapInv, SretInv, SetIntrInv, SchedInv, SwitchInv, SchedulerOnInv
<1> QED
  BY <1>1, <1>2

(* The inductive invariant holds throughout, for any number of CPUs and    *)
(* threads: spinlock.c with its callers in trap.c and proc.c.              *)
THEOREM SpinInvariant == Spec => []SpinInv
<1>1. Init => SpinInv
  BY InitInv
<1>2. SpinInv /\ [Next]_vars => SpinInv'
  BY NextInv
<1> QED
  BY <1>1, <1>2, PTL DEF Spec

(* No check of acquire(), release(), pop_off() or sched() ever panics. *)
THEOREM SpinNeverPanics == Spec => []NoPanic
<1>1. SpinInv => NoPanic
  BY DEF SpinInv
<1> QED
  BY <1>1, SpinInvariant, PTL

(* holding() answers whether this CPU owns the lock, at every point where  *)
(* the code calls it.                                                      *)
THEOREM HoldingIsExact == Spec => []HoldingExact
<1>1. SpinInv => HoldingExact
  BY SMTT(60), FreeIsNoCpu DEF SpinInv, HoldingExact, InvOwner, OwnerAt, holding
<1> QED
  BY <1>1, SpinInvariant, PTL

(* When a thread has released its last lock, its interrupts are as they    *)
(* were before it took the first, on whichever CPU it now runs.            *)
THEOREM InterruptsAreRestored == Spec => []InterruptsRestored
<1>1. SpinInv => InterruptsRestored
  <2> SUFFICES ASSUME SpinInv, NEW c \in CPUs, run[c] \in Threads,
                      pc[run[c]] = "idle", Held(c) = {}
               PROVE  intr[c] = (frame[run[c]] = "base" /\ want[run[c]])
    BY DEF InterruptsRestored
  <2>1. Cardinality(Held(c)) = 0 /\ NoffAt(c) /\ IntrAt(c)
    BY FS_EmptySet DEF SpinInv, NoffCounts, InvIntr
  <2>2. noff[c] = 0
    BY SMTT(60), <2>1 DEF NoffAt
  <2>3. intr[c] <=> (frame[run[c]] = "base" /\ want[run[c]])
    BY <2>1, <2>2 DEF IntrAt, Before
  <2>4. intr[c] \in BOOLEAN
    BY DEF SpinInv, TypeOK
  <2> QED
    BY <2>3, <2>4
<1> QED
  BY <1>1, SpinInvariant, PTL
=============================================================================
