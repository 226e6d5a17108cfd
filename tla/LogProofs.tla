----------------------------- MODULE LogProofs ------------------------------
(***************************************************************************)
(* Proofs about the logging layer: every step preserves the inductive      *)
(* invariant, and what follows from it, the refinement of the atomic disk  *)
(* included.                                                               *)
(***************************************************************************)
EXTENDS Log, FiniteSetTheorems, TLAPS

(* The default prover. *)
USE ZenonT(60)

(* Where a block is found after recovery: in the log if the header names   *)
(* it, at home otherwise.                                                  *)
LEMMA OverlayFacts ==
  ASSUME NEW h \in Seq(Blocks), Injective(h), NEW l, NEW d
  PROVE  /\ \A i \in DOMAIN h : Overlay(h, l, d)[h[i]] = l[i]
         /\ \A b \in Blocks : b \notin Entries(h) => Overlay(h, l, d)[b] = d[b]
         /\ Overlay(h, l, d) = [b \in Blocks |-> Overlay(h, l, d)[b]]
<1>1. ASSUME NEW i \in DOMAIN h PROVE Overlay(h, l, d)[h[i]] = l[i]
  <2>1. h[i] \in Blocks /\ h[i] \in Entries(h)
    BY SMTT(60) DEF Entries
  <2>2. (CHOOSE j \in DOMAIN h : h[j] = h[i]) = i
    BY DEF Injective
  <2> QED
    BY <2>1, <2>2 DEF Overlay
<1>2. \A b \in Blocks : b \notin Entries(h) => Overlay(h, l, d)[b] = d[b]
  BY DEF Overlay
<1>3. Overlay(h, l, d) = [b \in Blocks |-> Overlay(h, l, d)[b]]
  BY SMTT(60) DEF Overlay
<1> QED
  BY <1>1, <1>2, <1>3

(* Two logs over two disks recover to the same contents. *)
LEMMA OverlayEqual ==
  ASSUME NEW h \in Seq(Blocks), Injective(h), NEW l, NEW d,
         NEW g \in Seq(Blocks), Injective(g), NEW m, NEW e,
         \A b \in Blocks : Overlay(h, l, d)[b] = Overlay(g, m, e)[b]
  PROVE  Overlay(h, l, d) = Overlay(g, m, e)
BY DEF Overlay

(* The initial state satisfies the inductive invariant. *)
LEMMA InitInv == Init => LogInv
<1> SUFFICES ASSUME Init PROVE LogInv
  OBVIOUS
<1> USE LogConstants DEF Init
<1>1. TypeOK
  <2>1. home \in [Blocks -> Data \cup {Torn}] /\ cache \in [Blocks -> Data \cup {Torn}]
    OBVIOUS
  <2>2. logd \in [LogIndex -> Data \cup {Torn}]
    OBVIOUS
  <2>3. pc \in [Ops -> PCs] /\ wrote \in [Ops -> SUBSET Blocks] /\ pin \in [Blocks -> Nat]
    BY DEF PCs
  <2>4. head \in Seq(Blocks) /\ lh \in Seq(Blocks) /\ Len(lh) <= LOGSIZE /\ Len(head) <= LOGSIZE
    BY SMTT(60)
  <2>5. committing \in BOOLEAN /\ writing \in BOOLEAN
    OBVIOUS
  <2>6. outstanding \in Nat /\ tail \in Nat \ {0}
    BY SMTT(60)
  <2>7. sys \in {"boot", "recover", "up", "panic"}
    OBVIOUS
  <2> QED
    BY <2>1, <2>2, <2>3, <2>4, <2>5, <2>6, <2>7 DEF TypeOK
<1>2. Injective(head) /\ Injective(lh)
  BY SMTT(60) DEF Injective
<1>3. InvControl
  <2>1. InOp = {}
    BY DEF InOp
  <2> QED
    BY <2>1, FS_EmptySet DEF InvControl, CommitPCs
<1>4. InvRecover /\ InvCache /\ InvCommit /\ InvPin
  BY DEF InvRecover, InvCache, InvCommit, InvPin
<1> QED
  BY <1>1, <1>2, <1>3, <1>4 DEF LogInv

(* begin_op() preserves the inductive invariant. *)
LEMMA BeginOpInv ==
  ASSUME LogInv, NEW o \in Ops, BeginOp(o) PROVE LogInv'
<1> USE LogConstants DEF LogInv, BeginOp, disk
<1>1. TypeOK'
  <2>0. pc' \in [Ops -> PCs]
    BY DEF TypeOK, PCs
  <2>1. outstanding' \in Nat
    BY SMTT(60) DEF TypeOK, PCs
  <2> QED
    BY <2>0, <2>1 DEF TypeOK
<1>2. Injective(head)' /\ Injective(lh)'
  BY DEF Injective
<1>3. InvControl'
  <2>1. CASE MustWait
    <3>1. InOp' = InOp
      BY <2>1 DEF InOp, TypeOK
    <3> QED
      BY SMTT(60), <2>1, <3>1 DEF InvControl, TypeOK, CommitPCs
  <2>2. CASE ~MustWait
    <3>1. InOp' = InOp \cup {o} /\ o \notin InOp
      BY <2>2 DEF InOp, TypeOK
    <3>2. IsFiniteSet(InOp)
      BY FS_Subset DEF InOp
    <3>3. Cardinality(InOp') = Cardinality(InOp) + 1
      BY <3>1, <3>2, FS_AddElement
    <3> QED
      BY SMTT(60), <2>2, <3>1, <3>3 DEF InvControl, TypeOK, CommitPCs, MustWait
  <2> QED
    BY <2>1, <2>2
<1>4. InvRecover'
  BY DEF InvRecover
<1>5. InvCache'
  BY SMTT(60) DEF InvCache, TypeOK
<1>6. InvCommit'
  BY SMTT(60) DEF InvCommit, TypeOK, Installed
<1>7. InvPin'
  <2>1. \A p \in Ops : /\ pc'[p] = "install" <=> pc[p] = "install"
                       /\ pc'[p] = "clear" <=> pc[p] = "clear"
    BY DEF TypeOK
  <2> QED
    BY <2>1 DEF InvPin
<1> QED
  BY <1>1, <1>2, <1>3, <1>4, <1>5, <1>6, <1>7

(* log_write() preserves the inductive invariant: a block is appended once. *)
LEMMA LogWriteInv ==
  ASSUME LogInv, NEW o \in Ops, NEW b \in Blocks, NEW v \in Data, LogWrite(o, b, v)
  PROVE  LogInv'
<1> USE LogConstants DEF LogInv, LogWrite, disk
<1>a. InvControl /\ ~committing /\ outstanding > 0
  <2>1. InvControl
    OBVIOUS
  <2>2. o \in InOp
    BY DEF InOp
  <2>3. IsFiniteSet(InOp)
    BY FS_Subset DEF InOp
  <2>4. Cardinality(InOp) # 0
    BY <2>2, <2>3, FS_EmptySet
  <2> QED
    BY SMTT(60), <2>1, <2>2, <2>4 DEF InvControl, TypeOK
<1>b. /\ cache' \in [Blocks -> Data \cup {Torn}]
      /\ wrote' \in [Ops -> SUBSET Blocks]
  BY DEF TypeOK
<1>1. CASE TooBig
  <2>1. sys' = "panic" /\ lh' = lh /\ pin' = pin
    BY <1>1
  <2>2. TypeOK'
    BY <1>b, <2>1 DEF TypeOK
  <2>3. InvControl'
    BY <1>a, <2>1 DEF InvControl, InOp
  <2> QED
    BY <2>1, <2>2, <2>3 DEF Injective, InvRecover, InvCache, InvCommit, InvPin
<1>2. CASE ~TooBig
  <2>1. sys' = "up" /\ lh' = Logged(b) /\ pin' = Pinned(b)
    BY SMTT(60), <1>2, <1>a DEF TypeOK
  <2>2. InvControl' /\ InvRecover'
    BY <1>a, <2>1 DEF InvControl, InOp, InvRecover, CommitPCs
  <2>3. \A p \in Ops : pc[p] \notin CommitPCs
    BY <1>a DEF InvControl
  <2>4. InvCommit'
    BY <2>1, <2>3 DEF InvCommit, CommitPCs, TypeOK
  <2>5. CASE b \in Entries(lh)
    <3>1. lh' = lh /\ pin' = pin
      BY <2>1, <2>5 DEF Logged, Pinned
    <3>2. TypeOK'
      BY <1>b, <2>1, <3>1 DEF TypeOK
    <3>3. InvPin'
      BY <2>1, <3>1 DEF InvPin
    <3>4. \E i \in DOMAIN lh : lh[i] = b /\ pin[b] = 1
      BY <2>3, <2>5 DEF InvPin, Entries, CommitPCs
    <3>5. InvCache'
      BY SMTT(60), <1>a, <2>1, <3>1, <3>4 DEF InvCache, TypeOK, Entries
    <3> QED
      BY <2>1, <2>2, <2>4, <3>1, <3>2, <3>3, <3>5 DEF Injective
  <2>6. CASE b \notin Entries(lh)
    <3>1. lh' = Append(lh, b) /\ pin' = [pin EXCEPT ![b] = @ + 1]
      BY <2>1, <2>6 DEF Logged, Pinned
    <3>2. /\ lh' \in Seq(Blocks) /\ Len(lh') = Len(lh) + 1 /\ Len(lh) \in Nat
          /\ DOMAIN lh = 1 .. Len(lh) /\ DOMAIN lh' = 1 .. Len(lh) + 1
          /\ \A i \in 1 .. Len(lh) : lh'[i] = lh[i]
          /\ lh'[Len(lh) + 1] = b
      BY SMTT(60), <3>1 DEF TypeOK
    <3>3. \A i \in 1 .. Len(lh) : lh[i] \in Entries(lh) /\ lh[i] # b
      BY SMTT(60), <2>6 DEF Entries, TypeOK
    <3>4. TypeOK'
      <4>1. Len(lh') <= LOGSIZE
        BY SMTT(60), <1>2, <3>2 DEF TooBig, TypeOK
      <4>2. pin' \in [Blocks -> Nat]
        BY SMTT(60), <3>1 DEF TypeOK
      <4> QED
        BY <1>b, <2>1, <3>2, <4>1, <4>2 DEF TypeOK
    <3>5. Injective(lh)'
      <4> SUFFICES ASSUME NEW i \in 1 .. Len(lh) + 1, NEW j \in 1 .. Len(lh) + 1,
                          lh'[i] = lh'[j]
                   PROVE  i = j
        BY <3>2 DEF Injective
      <4>1. i \in 1 .. Len(lh) \/ i = Len(lh) + 1
        BY SMTT(60), <3>2
      <4>2. j \in 1 .. Len(lh) \/ j = Len(lh) + 1
        BY SMTT(60), <3>2
      <4> QED
        BY <3>2, <3>3, <4>1, <4>2 DEF Injective
    <3>6. Entries(lh') = Entries(lh) \cup {b}
      <4>1. \A i \in DOMAIN lh' : i \in DOMAIN lh \/ lh'[i] = b
        BY SMTT(60), <3>2
      <4>2. \A i \in 1 .. Len(lh) : i \in DOMAIN lh'
        BY SMTT(60), <3>2
      <4>3. Len(lh) + 1 \in DOMAIN lh'
        BY SMTT(60), <3>2
      <4> QED
        BY <3>2, <4>1, <4>2, <4>3 DEF Entries
    <3>7. InvCache'
      <4>1. pin'[b] > 0 /\ \A c \in Blocks : pin[c] > 0 => pin'[c] > 0
        BY SMTT(60), <3>1 DEF TypeOK
      <4> QED
        BY <1>a, <2>1, <3>6, <4>1 DEF InvCache, TypeOK
    <3>8. InvPin'
      <4>1. \A i \in 1 .. Len(lh) : pin[lh[i]] = 1
        BY SMTT(60), <2>3 DEF InvPin, CommitPCs, TypeOK
      <4>2. pin'[b] = 1
        BY SMTT(60), <2>6, <3>1 DEF InvPin, TypeOK
      <4>3. \A i \in DOMAIN lh' : pin'[lh'[i]] = 1
        <5>1. ASSUME NEW i \in 1 .. Len(lh) PROVE pin'[lh'[i]] = 1
          <6>1. lh'[i] = lh[i] /\ lh[i] \in Blocks /\ lh[i] # b
            BY SMTT(60), <3>2, <3>3 DEF TypeOK
          <6> QED
            BY <3>1, <4>1, <6>1 DEF TypeOK
        <5>2. \A i \in DOMAIN lh' : i \in 1 .. Len(lh) \/ i = Len(lh) + 1
          BY SMTT(60), <3>2
        <5> QED
          BY <3>2, <4>2, <5>1, <5>2
      <4>4. \A c \in Blocks : c \notin Entries(lh') => pin'[c] = 0
        <5>1. \A c \in Blocks : c \notin Entries(lh') => c \notin Entries(lh) /\ c # b
          BY <3>6
        <5> QED
          BY <3>1, <5>1 DEF InvPin, TypeOK
      <4> QED
        BY <2>1, <2>3, <4>3, <4>4 DEF InvPin, CommitPCs
    <3> QED
      BY <2>1, <2>2, <2>4, <3>4, <3>5, <3>7, <3>8 DEF Injective
  <2> QED
    BY <2>5, <2>6
<1> QED
  BY <1>1, <1>2

(* The start of commit() preserves the inductive invariant. *)
LEMMA StartCommitInv ==
  ASSUME LogInv, NEW o \in Ops, StartCommit(o) PROVE LogInv'
<1> USE LogConstants DEF LogInv, StartCommit, Committing, disk, trans
<1>1. TypeOK'
  <2>1. pc' \in [Ops -> PCs]
    BY DEF TypeOK, PCs, CommitPCs
  <2>2. tail' \in Nat \ {0}
    BY SMTT(60) DEF TypeOK
  <2> QED
    BY <2>1, <2>2 DEF TypeOK
<1>2. Injective(head)' /\ Injective(lh)'
  BY DEF Injective
<1>3. InvControl'
  BY DEF InvControl, InOp, TypeOK, CommitPCs
<1>4. InvRecover'
  BY DEF InvRecover, InvControl, TypeOK, Installed
<1>5. InvCache'
  BY DEF InvCache, TypeOK
<1>6. InvCommit'
  BY SMTT(60) DEF InvCommit, InvControl, TypeOK, Installed, CommitPCs
<1>7. InvPin'
  BY DEF InvPin, InvControl, TypeOK, CommitPCs
<1> QED
  BY <1>1, <1>2, <1>3, <1>4, <1>5, <1>6, <1>7

(* A transfer into the log area preserves the inductive invariant ... *)
LEMMA WriteLogStartInv ==
  ASSUME LogInv, NEW o \in Ops, WriteLogStart(o) PROVE LogInv'
<1> USE LogConstants DEF LogInv, WriteLogStart, Committing, disk, trans
<1>1. TypeOK'
  <2>1. logd' \in [LogIndex -> Data \cup {Torn}]
    BY DEF TypeOK
  <2>2. writing' \in BOOLEAN
    BY DEF TypeOK
  <2> QED
    BY <2>1, <2>2 DEF TypeOK
<1>2. Injective(head)' /\ Injective(lh)'
  BY DEF Injective
<1>3. InvControl'
  BY DEF InvControl, InOp, TypeOK, CommitPCs
<1>4. InvRecover'
  BY DEF InvRecover, InvControl, TypeOK, Installed
<1>5. InvCache'
  BY DEF InvCache, TypeOK
<1>6. InvCommit'
  BY SMTT(60) DEF InvCommit, InvControl, TypeOK, Installed, CommitPCs
<1>7. InvPin'
  BY DEF InvPin, InvControl, TypeOK, CommitPCs
<1> QED
  BY <1>1, <1>2, <1>3, <1>4, <1>5, <1>6, <1>7

(* ... also when it completes. *)
LEMMA WriteLogDoneInv ==
  ASSUME LogInv, NEW o \in Ops, WriteLogDone(o) PROVE LogInv'
<1> USE LogConstants DEF LogInv, WriteLogDone, Committing, disk, trans
<1>a. /\ \A p \in Ops : p # o => pc[p] \notin CommitPCs
      /\ committing
      /\ DOMAIN lh = 1 .. Len(lh) /\ Len(lh) \in Nat
  BY SMTT(60) DEF InvControl, TypeOK, CommitPCs
<1>1. TypeOK'
  <2>1. logd' \in [LogIndex -> Data \cup {Torn}]
    <3>1. tail \in DOMAIN lh
      BY SMTT(60), <1>a DEF InvCommit, TypeOK
    <3>2. cache[lh[tail]] \in Data \cup {Torn}
      BY SMTT(60), <3>1 DEF TypeOK
    <3> QED
      BY <3>2 DEF TypeOK
  <2>2. writing' \in BOOLEAN
    BY DEF TypeOK
  <2>3. tail' \in Nat \ {0}
    BY SMTT(60) DEF TypeOK
  <2>4. pc' \in [Ops -> PCs]
    BY DEF TypeOK, PCs, CommitPCs
  <2> QED
    BY <2>1, <2>2, <2>3, <2>4 DEF TypeOK
<1>2. Injective(head)' /\ Injective(lh)'
  BY DEF Injective
<1>3. InvControl'
  BY DEF InvControl, InOp, TypeOK, CommitPCs
<1>4. InvRecover'
  BY DEF InvRecover, InvControl, TypeOK, Installed
<1>5. InvCache'
  BY DEF InvCache, TypeOK
<1>6. InvCommit'
  <2>1. head = << >> /\ tail \in 1 .. Len(lh) /\ tail \in LogIndex
    BY SMTT(60), <1>a DEF InvCommit, CommitPCs, TypeOK, LogIndex
  <2>2. \A i \in 1 .. Len(lh) : i < tail + 1 => logd'[i] = cache[lh[i]]
    <3> SUFFICES ASSUME NEW i \in 1 .. Len(lh), i < tail + 1
                 PROVE  logd'[i] = cache[lh[i]]
      OBVIOUS
    <3>1. i \in LogIndex
      BY SMTT(60), <1>a DEF TypeOK, LogIndex
    <3>2. i < tail \/ i = tail
      BY SMTT(60), <2>1
    <3>3. i < tail => logd[i] = cache[lh[i]]
      BY <1>a DEF InvCommit
    <3> QED
      BY <2>1, <3>1, <3>2, <3>3 DEF TypeOK
  <2>3. CASE tail < Len(lh)
    BY SMTT(60), <1>a, <2>1, <2>2, <2>3 DEF InvCommit, TypeOK, CommitPCs
  <2>4. CASE ~(tail < Len(lh))
    <3>1. \A i \in 1 .. Len(lh) : i < tail + 1
      BY SMTT(60), <1>a, <2>1, <2>4
    <3> QED
      BY SMTT(60), <1>a, <2>1, <2>2, <2>4, <3>1 DEF InvCommit, TypeOK, CommitPCs
  <2> QED
    BY <2>3, <2>4
<1>7. InvPin'
  BY DEF InvPin, InvControl, TypeOK, CommitPCs
<1> QED
  BY <1>1, <1>2, <1>3, <1>4, <1>5, <1>6, <1>7

(* The commit point preserves the inductive invariant. *)
LEMMA WriteHeadInv ==
  ASSUME LogInv, NEW o \in Ops, WriteHead(o) PROVE LogInv'
<1> USE LogConstants DEF LogInv, WriteHead, Committing, disk, trans
<1>a. /\ \A p \in Ops : p # o => pc[p] \notin CommitPCs
      /\ committing
      /\ DOMAIN lh = 1 .. Len(lh) /\ Len(lh) \in Nat
  BY SMTT(60) DEF InvControl, TypeOK, CommitPCs
<1>1. TypeOK'
  <2>1. head' \in Seq(Blocks)
    BY DEF TypeOK
  <2>2. tail' \in Nat \ {0}
    BY SMTT(60) DEF TypeOK
  <2>3. pc' \in [Ops -> PCs]
    BY DEF TypeOK, PCs, CommitPCs
  <2> QED
    BY <2>1, <2>2, <2>3 DEF TypeOK
<1>2. Injective(head)' /\ Injective(lh)'
  BY DEF Injective
<1>3. InvControl'
  BY DEF InvControl, InOp, TypeOK, CommitPCs
<1>4. InvRecover'
  BY DEF InvRecover, InvControl, TypeOK, Installed
<1>5. InvCache'
  BY DEF InvCache, TypeOK
<1>6. InvCommit'
  BY SMTT(60), <1>a DEF InvCommit, TypeOK, CommitPCs, Installed
<1>7. InvPin'
  <2>1. \A p \in Ops : pc[p] \notin {"install", "clear"} /\ pc'[p] # "clear"
    BY <1>a DEF CommitPCs, TypeOK
  <2>2. \A i \in DOMAIN lh : ~(i < tail')
    BY SMTT(60), <1>a
  <2> QED
    BY <2>1, <2>2 DEF InvPin
<1> QED
  BY <1>1, <1>2, <1>3, <1>4, <1>5, <1>6, <1>7

(* Erasing the transaction preserves the inductive invariant. *)
LEMMA ClearLogInv ==
  ASSUME LogInv, NEW o \in Ops, ClearLog(o) PROVE LogInv'
<1> USE LogConstants DEF LogInv, ClearLog, Committing, disk, trans
<1>a. /\ \A p \in Ops : p # o => pc[p] \notin CommitPCs
      /\ committing
      /\ DOMAIN lh = 1 .. Len(lh) /\ Len(lh) \in Nat
  BY SMTT(60) DEF InvControl, TypeOK, CommitPCs
<1>1. TypeOK'
  <2>1. head' \in Seq(Blocks) /\ lh' \in Seq(Blocks)
    BY SMTT(60) DEF TypeOK
  <2>2. Len(lh') <= LOGSIZE /\ Len(head') <= LOGSIZE
    BY SMTT(60) DEF TypeOK
  <2>3. pc' \in [Ops -> PCs]
    BY DEF TypeOK, PCs, CommitPCs
  <2> QED
    BY <2>1, <2>2, <2>3 DEF TypeOK
<1>2. Injective(head)' /\ Injective(lh)'
  BY SMTT(60) DEF Injective
<1>3. InvControl'
  BY DEF InvControl, InOp, TypeOK, CommitPCs
<1>4. InvRecover'
  BY DEF InvRecover, InvControl, TypeOK, Installed
<1>5. InvCache'
  <2>1. \A b \in Entries(lh) : cache[b] = home[b]
    BY SMTT(60) DEF Entries, InvCommit, Installed
  <2> QED
    BY <2>1 DEF InvCache, TypeOK
<1>6. InvCommit'
  BY SMTT(60) DEF InvCommit, InvControl, TypeOK, Installed, CommitPCs
<1>7. InvPin'
  <2>1. \A b \in Blocks : pin[b] = 0
    BY DEF InvPin, Entries
  <2> QED
    BY SMTT(60), <2>1 DEF InvPin
<1> QED
  BY <1>1, <1>2, <1>3, <1>4, <1>5, <1>6, <1>7

(* The end of end_op() preserves the inductive invariant. *)
LEMMA FinishCommitInv ==
  ASSUME LogInv, NEW o \in Ops, FinishCommit(o) PROVE LogInv'
<1> USE LogConstants DEF LogInv, FinishCommit, Committing, Woken, disk, trans
<1>1. TypeOK'
  <2>1. committing' \in BOOLEAN
    BY DEF TypeOK
  <2>2. pc' \in [Ops -> PCs]
    BY DEF TypeOK, PCs, CommitPCs, Woken
  <2> QED
    BY <2>1, <2>2 DEF TypeOK
<1>2. Injective(head)' /\ Injective(lh)'
  BY DEF Injective
<1>3. InvControl'
  BY DEF InvControl, InOp, TypeOK, CommitPCs
<1>4. InvRecover'
  BY DEF InvRecover, InvControl, TypeOK, Installed
<1>5. InvCache'
  BY DEF InvCache, InvCommit, TypeOK
<1>6. InvCommit'
  BY DEF InvCommit, InvControl, TypeOK, Installed, CommitPCs
<1>7. InvPin'
  BY DEF InvPin, InvControl, TypeOK, CommitPCs
<1> QED
  BY <1>1, <1>2, <1>3, <1>4, <1>5, <1>6, <1>7

(* end_op() preserves the inductive invariant: the last one out commits. *)
LEMMA EndOpInv ==
  ASSUME LogInv, NEW o \in Ops, EndOp(o) PROVE LogInv'
<1> USE LogConstants DEF LogInv, EndOp, disk
<1>a. /\ InvControl /\ ~committing /\ sys' = "up"
      /\ \A p \in Ops : pc[p] \notin CommitPCs
  BY DEF InvControl, InOp, TypeOK
<1>b. /\ IsFiniteSet(InOp) /\ o \in InOp
      /\ Cardinality(InOp \ {o}) = Cardinality(InOp) - 1
      /\ Cardinality(InOp) \in Nat /\ Cardinality(InOp) # 0
  <2>1. IsFiniteSet(InOp) /\ o \in InOp
    BY FS_Subset DEF InOp
  <2> QED
    BY <2>1, FS_RemoveElement, FS_EmptySet, FS_CardinalityType
<1>c. outstanding \in Nat /\ outstanding # 0 /\ Cardinality(InOp) = outstanding
  BY <1>a, <1>b DEF InvControl
<1>d. InOp' = InOp \ {o}
  BY DEF InOp, TypeOK, Woken
<1>1. TypeOK'
  <2>1. pc' \in [Ops -> PCs]
    BY DEF TypeOK, PCs, CommitPCs, Woken
  <2>2. outstanding' \in Nat
    BY SMTT(60), <1>c
  <2>3. committing' \in BOOLEAN
    BY DEF TypeOK
  <2>4. wrote' \in [Ops -> SUBSET Blocks]
    BY DEF TypeOK
  <2> QED
    BY <1>a, <2>1, <2>2, <2>3, <2>4 DEF TypeOK
<1>2. Injective(head)' /\ Injective(lh)'
  BY DEF Injective
<1>3. InvControl'
  <2>1. outstanding' = Cardinality(InOp')
    BY <1>b, <1>c, <1>d
  <2>2. CASE outstanding = 1
    <3>1. InOp' = {}
      <4>1. Cardinality(InOp \ {o}) = 0
        BY SMTT(60), <1>b, <1>c, <2>2
      <4>2. IsFiniteSet(InOp \ {o})
        BY <1>b, FS_RemoveElement
      <4> QED
        BY <1>d, <4>1, <4>2, FS_EmptySet
    <3> QED
      BY <1>a, <2>1, <2>2, <3>1 DEF InvControl, TypeOK, CommitPCs
  <2>3. CASE outstanding # 1
    BY SMTT(60), <1>a, <2>1, <2>3 DEF InvControl, TypeOK, CommitPCs, Woken
  <2> QED
    BY <2>2, <2>3
<1>4. InvRecover'
  BY <1>a DEF InvRecover
<1>5. InvCache'
  <2>1. committing' \/ outstanding' > 0
    <3>1. CASE outstanding = 1
      BY <3>1
    <3>2. CASE outstanding # 1
      BY SMTT(60), <1>c, <3>2
    <3> QED
      BY <3>1, <3>2
  <2> QED
    BY <1>a, <2>1 DEF InvCache
<1>6. InvCommit'
  BY <1>a DEF InvCommit, TypeOK, CommitPCs, Woken
<1>7. InvPin'
  BY <1>a DEF InvPin, TypeOK, CommitPCs, Woken
<1> QED
  BY <1>1, <1>2, <1>3, <1>4, <1>5, <1>6, <1>7

-----------------------------------------------------------------------------
(* install_trans(), a crash, and recovery. *)

(* One transfer of install_trans(), whoever runs it. *)
LEMMA InstallBlockType ==
  ASSUME TypeOK, tail \in DOMAIN lh, InstallBlock
  PROVE  /\ home' \in [Blocks -> Data \cup {Torn}]
         /\ cache' \in [Blocks -> Data \cup {Torn}]
         /\ tail' \in Nat \ {0}
         /\ writing' \in BOOLEAN
<1>0. DOMAIN lh = 1 .. Len(lh) /\ Len(lh) \in Nat /\ Len(lh) <= LOGSIZE
  BY SMTT(60) DEF TypeOK
<1>1. lh[tail] \in Blocks /\ tail \in LogIndex
  BY SMTT(60), <1>0, LogConstants DEF TypeOK, LogIndex
<1>2. logd[tail] \in Data \cup {Torn}
  BY <1>1 DEF TypeOK
<1>3. writing' \in BOOLEAN
  BY DEF TypeOK, InstallBlock
<1>4. tail' \in Nat \ {0}
  BY SMTT(60) DEF TypeOK, InstallBlock
<1>5. home' \in [Blocks -> Data \cup {Torn}]
  BY <1>1, <1>2 DEF TypeOK, InstallBlock
<1>6. cache' \in [Blocks -> Data \cup {Torn}]
  BY <1>1, <1>2 DEF TypeOK, InstallBlock
<1> QED
  BY <1>3, <1>4, <1>5, <1>6

(* install_trans(0) preserves the inductive invariant. *)
LEMMA InstallInv ==
  ASSUME LogInv, NEW o \in Ops, Install(o) PROVE LogInv'
<1> USE LogConstants DEF LogInv, Install, Committing, trans
<1>a. /\ \A p \in Ops : p # o => pc[p] \notin CommitPCs
      /\ committing
      /\ DOMAIN lh = 1 .. Len(lh) /\ Len(lh) \in Nat
      /\ lh[tail] \in Blocks
      /\ tail \in DOMAIN lh
  BY SMTT(60) DEF InvControl, TypeOK, CommitPCs, InvCommit
<1>b. /\ lh = head
      /\ \A i \in DOMAIN lh : logd[i] = cache[lh[i]]
      /\ \A i \in DOMAIN lh : i < tail => Installed(i)
      /\ \A i \in DOMAIN lh : lh[i] \in Blocks
  BY SMTT(60) DEF InvCommit, TypeOK
<1>c. \A i \in DOMAIN lh : i # tail => lh[i] # lh[tail]
  BY <1>a DEF Injective
<1>d. pin[lh[tail]] = 1
  <2>1. ~(tail < tail)
    BY SMTT(60) DEF TypeOK
  <2>2. \A p \in Ops : pc[p] # "clear"
    BY <1>a DEF CommitPCs
  <2> QED
    BY <1>a, <2>1, <2>2 DEF InvPin
<1>e. cache' = cache
  <2>1. ~writing => cache' = [cache EXCEPT ![lh[tail]] = cache[lh[tail]]]
    BY <1>a, <1>b DEF InstallBlock
  <2> QED
    BY <1>a, <2>1 DEF InstallBlock, TypeOK
<1>f. \A b \in Blocks : b # lh[tail] => home'[b] = home[b] /\ pin'[b] = pin[b]
  BY <1>a DEF InstallBlock, TypeOK
<1>g. writing => /\ home'[lh[tail]] = logd[tail]
                 /\ pin' = [pin EXCEPT ![lh[tail]] = 0]
                 /\ pin'[lh[tail]] = 0
                 /\ tail' = tail + 1
  <2>1. writing => pin' = [pin EXCEPT ![lh[tail]] = 0]
    BY SMTT(60), <1>d
  <2> QED
    BY <1>a, <2>1 DEF InstallBlock, TypeOK
<1>h. ~writing => pin' = pin /\ tail' = tail /\ pc' = pc
  BY DEF InstallBlock
<1>1. TypeOK'
  <2>1. pin' \in [Blocks -> Nat]
    <3>1. pin \in [Blocks -> Nat]
      BY DEF TypeOK
    <3>2. CASE writing
      <4> HIDE DEF Install
      <4>1. pin' = [pin EXCEPT ![lh[tail]] = 0]
        BY <1>g, <3>2
      <4> QED
        BY <3>1, <4>1
    <3>3. CASE ~writing
      BY <1>h, <3>1, <3>3
    <3> QED
      BY <3>2, <3>3
  <2>2. pc' \in [Ops -> PCs]
    BY DEF TypeOK, PCs, CommitPCs
  <2> QED
    BY <1>a, <2>1, <2>2, InstallBlockType DEF TypeOK
<1>2. Injective(head)' /\ Injective(lh)'
  BY DEF Injective
<1>3. InvControl'
  BY <1>a DEF InvControl, InOp, TypeOK, CommitPCs
<1>4. InvRecover'
  BY DEF InvRecover
<1>5. InvCache'
  <2>1. lh[tail] \in Entries(lh)
    BY <1>a DEF Entries
  <2>2. writing => cache'[lh[tail]] = home'[lh[tail]]
    BY <1>a, <1>b, <1>e, <1>g
  <2>3. ~writing => pin'[lh[tail]] > 0
    BY SMTT(60), <1>d, <1>h
  <2> QED
    BY <1>a, <1>e, <1>f, <2>1, <2>2, <2>3 DEF InvCache, TypeOK
<1>i. \A i \in DOMAIN lh : i < tail' => home'[lh[i]] = logd[i]
  <2> SUFFICES ASSUME NEW i \in DOMAIN lh, i < tail' PROVE home'[lh[i]] = logd[i]
    OBVIOUS
  <2>1. CASE i = tail
    BY SMTT(60), <1>a, <1>g, <1>h, <2>1
  <2>2. CASE i # tail
    <3>1. i < tail
      BY SMTT(60), <1>a, <1>g, <1>h, <2>2
    <3> QED
      BY <1>b, <1>c, <1>f, <2>2, <3>1 DEF Installed
  <2> QED
    BY <2>1, <2>2
<1>6. InvCommit'
  <2>1. CASE writing /\ tail = Len(lh)
    <3>1. pc' = [pc EXCEPT ![o] = "clear"] /\ writing' = FALSE
      BY <2>1 DEF InstallBlock
    <3>2. \A i \in DOMAIN lh : i < tail'
      BY SMTT(60), <1>a, <1>g, <2>1
    <3> QED
      <4>1. pc'[o] = "clear" /\ \A p \in Ops : p # o => pc'[p] \notin CommitPCs
        BY <1>a, <3>1 DEF TypeOK
      <4>2. head' = lh' /\ lh' = lh /\ logd' = logd /\ Len(lh) > 0
        BY SMTT(60), <1>a, <1>b
      <4> QED
        BY SMTT(60), <1>b, <1>e, <1>i, <3>1, <3>2, <4>1, <4>2 DEF InvCommit, Installed, CommitPCs
  <2>2. CASE ~(writing /\ tail = Len(lh))
    <3>1. pc' = pc
      BY <2>2
    <3>2. tail' <= Len(lh)
      BY SMTT(60), <1>a, <1>g, <1>h, <2>2
    <3>3. Len(lh) > 0
      BY SMTT(60), <1>a
    <3> QED
      <4>1. pc'[o] = "install" /\ \A p \in Ops : p # o => pc'[p] \notin CommitPCs
        BY <1>a, <3>1 DEF TypeOK
      <4>2. head' = lh' /\ lh' = lh /\ logd' = logd
        BY <1>b
      <4> QED
        BY SMTT(60), <1>b, <1>e, <1>i, <3>2, <3>3, <4>1, <4>2 DEF InvCommit, Installed, CommitPCs
  <2> QED
    BY <2>1, <2>2
<1>7. InvPin'
  <2>1. \A b \in Blocks : b \notin Entries(lh) => pin'[b] = 0
    BY <1>a, <1>f DEF InvPin, Entries
  <2>2. ASSUME NEW i \in DOMAIN lh
        PROVE  pin'[lh[i]] = IF i < tail' THEN 0 ELSE 1
    <3>1. pin[lh[i]] = IF i < tail THEN 0 ELSE 1
      BY <1>a DEF InvPin, CommitPCs, TypeOK
    <3>2. CASE i = tail
      BY SMTT(60), <1>a, <1>d, <1>g, <1>h, <3>2
    <3>3. CASE i # tail
      BY SMTT(60), <1>a, <1>b, <1>c, <1>f, <1>g, <1>h, <3>1, <3>3
    <3> QED
      BY <3>2, <3>3
  <2>3. CASE pc' = pc
    BY <1>a, <2>1, <2>2, <2>3 DEF InvPin, CommitPCs
  <2>4. CASE pc' # pc
    <3>1. pc' = [pc EXCEPT ![o] = "clear"] /\ writing /\ tail = Len(lh)
      BY <2>4
    <3>2. \A i \in DOMAIN lh : i < tail'
      BY SMTT(60), <1>a, <1>g, <3>1
    <3>3. pc'[o] = "clear"
      BY <3>1 DEF TypeOK
    <3> QED
      BY <2>1, <2>2, <3>2, <3>3 DEF InvPin
  <2> QED
    BY <2>3, <2>4
<1> QED
  BY <1>1, <1>2, <1>3, <1>4, <1>5, <1>6, <1>7

(* Recycling an unpinned buffer changes nothing: it equals its home block. *)
LEMMA EvictInv ==
  ASSUME LogInv, NEW b \in Blocks, Evict(b)
  PROVE  LogInv' /\ cache' = cache
<1> USE DEF LogInv, Evict, disk, trans
<1>1. cache[b] = home[b]
  BY SMTT(60) DEF InvCache
<1>2. cache' = cache
  BY <1>1 DEF TypeOK
<1>3. TypeOK'
  BY <1>2 DEF TypeOK
<1>4. Injective(head)' /\ Injective(lh)' /\ InvControl'
  BY DEF Injective, InvControl, InOp
<1>5. InvRecover' /\ InvCache' /\ InvCommit' /\ InvPin'
  BY SMTT(60), <1>2 DEF InvRecover, InvCache, InvCommit, InvPin, Installed
<1> QED
  BY <1>2, <1>3, <1>4, <1>5

(* A crash leaves a state from which initlog() can recover. *)
LEMMA CrashInv ==
  ASSUME LogInv, Crash PROVE LogInv'
<1> USE LogConstants DEF LogInv, Crash, disk
<1>1. TypeOK'
  <2>1. pc' \in [Ops -> PCs] /\ wrote' \in [Ops -> SUBSET Blocks] /\ pin' \in [Blocks -> Nat]
    BY DEF PCs
  <2>2. lh' \in Seq(Blocks) /\ Len(lh') <= LOGSIZE
    BY SMTT(60)
  <2>3. committing' \in BOOLEAN /\ writing' \in BOOLEAN
    OBVIOUS
  <2>4. outstanding' \in Nat /\ tail' \in Nat \ {0}
    BY SMTT(60)
  <2>5. sys' \in {"boot", "recover", "up", "panic"}
    OBVIOUS
  <2>6. cache' \in [Blocks -> Data \cup {Torn}]
    BY DEF TypeOK
  <2> QED
    BY <2>1, <2>2, <2>3, <2>4, <2>5, <2>6 DEF TypeOK
<1>2. Injective(head)' /\ Injective(lh)'
  BY SMTT(60) DEF Injective
<1>3. InvControl'
  <2>1. InOp' = {}
    BY DEF InOp
  <2> QED
    BY <2>1, FS_EmptySet DEF InvControl, CommitPCs
<1>4. InvRecover' /\ InvCache' /\ InvCommit' /\ InvPin'
  BY DEF InvRecover, InvCache, InvCommit, InvPin
<1> QED
  BY <1>1, <1>2, <1>3, <1>4

(* Reading the header preserves the inductive invariant. *)
LEMMA ReadHeadInv ==
  ASSUME LogInv, ReadHead PROVE LogInv'
<1> USE LogConstants DEF LogInv, ReadHead, disk
<1>1. TypeOK'
  <2>1. tail' \in Nat \ {0}
    BY SMTT(60)
  <2> QED
    BY <2>1 DEF TypeOK
<1>2. Injective(head)' /\ Injective(lh)'
  BY DEF Injective
<1>3. InvControl'
  BY DEF InvControl, InOp
<1>4. InvRecover'
  BY SMTT(60) DEF InvRecover, TypeOK, Installed
<1>5. InvCache' /\ InvCommit' /\ InvPin'
  BY DEF InvCache, InvCommit, InvPin
<1> QED
  BY <1>1, <1>2, <1>3, <1>4, <1>5

(* install_trans(1) preserves the inductive invariant. *)
LEMMA ReinstallInv ==
  ASSUME LogInv, Reinstall PROVE LogInv'
<1> USE LogConstants DEF LogInv, Reinstall, trans
<1>a. /\ lh = head /\ DOMAIN lh = 1 .. Len(lh) /\ Len(lh) \in Nat
      /\ tail \in DOMAIN lh /\ lh[tail] \in Blocks
  BY SMTT(60) DEF InvRecover, TypeOK
<1>b. \A i \in DOMAIN lh : i # tail => lh[i] # lh[tail] /\ lh[i] \in Blocks
  BY SMTT(60), <1>a DEF Injective, TypeOK
<1>c. \A b \in Blocks : b # lh[tail] => home'[b] = home[b] /\ cache'[b] = cache[b]
  BY <1>a DEF InstallBlock, TypeOK
<1>d. writing => /\ home'[lh[tail]] = logd[tail] /\ cache'[lh[tail]] = logd[tail]
                 /\ tail' = tail + 1 /\ writing' = FALSE
  BY <1>a DEF InstallBlock, TypeOK, InvRecover
<1>e. ~writing => cache'[lh[tail]] = logd[tail] /\ tail' = tail /\ writing' = TRUE
  BY <1>a DEF InstallBlock, TypeOK
<1>1. TypeOK'
  BY <1>a, InstallBlockType DEF TypeOK
<1>2. Injective(head)' /\ Injective(lh)'
  BY DEF Injective
<1>3. InvControl'
  BY DEF InvControl, InOp
<1>4. InvRecover'
  <2>1. \A i \in DOMAIN lh : i < tail' => home'[lh[i]] = logd[i]
    <3> SUFFICES ASSUME NEW i \in DOMAIN lh, i < tail' PROVE home'[lh[i]] = logd[i]
      OBVIOUS
    <3>1. CASE i = tail
      BY SMTT(60), <1>a, <1>d, <1>e, <3>1
    <3>2. CASE i # tail
      <4>1. i < tail
        BY SMTT(60), <1>a, <1>d, <1>e, <3>2
      <4> QED
        BY <1>b, <1>c, <3>2, <4>1 DEF InvRecover, Installed
    <3> QED
      BY <3>1, <3>2
  <2>2. tail' <= Len(lh) + 1 /\ (writing' => tail' <= Len(lh))
    BY SMTT(60), <1>a, <1>d, <1>e
  <2>3. writing' => cache'[lh[tail']] = logd[tail']
    BY <1>d, <1>e
  <2>4. \A b \in Blocks : (writing' => b # lh[tail']) => cache'[b] = home'[b]
    <3>1. CASE writing
      BY <1>a, <1>c, <1>d, <3>1 DEF InvRecover
    <3>2. CASE ~writing
      BY <1>a, <1>c, <1>e, <3>2 DEF InvRecover
    <3> QED
      BY <3>1, <3>2
  <2> QED
    BY <1>a, <2>1, <2>2, <2>3, <2>4 DEF InvRecover, Installed
<1>5. InvCache' /\ InvCommit' /\ InvPin'
  BY DEF InvCache, InvCommit, InvPin
<1> QED
  BY <1>1, <1>2, <1>3, <1>4, <1>5

(* The end of recovery: every logged block is home, so the log may go. *)
LEMMA RecoverDoneInv ==
  ASSUME LogInv, RecoverDone
  PROVE  LogInv' /\ cache = home /\ lh = head /\ \A i \in DOMAIN lh : Installed(i)
<1> USE LogConstants DEF LogInv, RecoverDone
<1>a. lh = head /\ DOMAIN lh = 1 .. Len(lh) /\ Len(lh) \in Nat /\ ~writing
  BY SMTT(60) DEF InvRecover, TypeOK
<1>b. \A b \in Blocks : cache[b] = home[b]
  BY <1>a DEF InvRecover
<1>c. cache = home
  BY SMTT(60), <1>b DEF TypeOK
<1>d. \A i \in DOMAIN lh : Installed(i)
  BY SMTT(60), <1>a DEF InvRecover, TypeOK
<1>1. TypeOK'
  <2>1. /\ lh' \in Seq(Blocks) /\ Len(lh') <= LOGSIZE
        /\ head' \in Seq(Blocks) /\ Len(head') <= LOGSIZE
    BY SMTT(60)
  <2> QED
    BY <2>1 DEF TypeOK
<1>2. Injective(head)' /\ Injective(lh)'
  BY SMTT(60) DEF Injective
<1>3. InvControl'
  BY DEF InvControl, InOp
<1>4. InvRecover' /\ InvCache'
  BY <1>b DEF InvRecover, InvCache
<1>5. InvCommit'
  BY <1>a DEF InvCommit, InvControl
<1>6. InvPin'
  BY SMTT(60) DEF InvPin, InvRecover
<1> QED
  BY <1>a, <1>c, <1>d, <1>1, <1>2, <1>3, <1>4, <1>5, <1>6

(* Every step of the log preserves the inductive invariant. *)
LEMMA NextInv == LogInv /\ [Next]_vars => LogInv'
<1> SUFFICES ASSUME LogInv, [Next]_vars PROVE LogInv'
  OBVIOUS
<1>1. CASE UNCHANGED vars
  <2>1. UNCHANGED <<home, logd, head, lh, cache, pin, outstanding, committing, pc, wrote,
                    tail, writing, sys>> /\ InOp' = InOp
    BY <1>1 DEF vars, disk, trans, InOp
  <2>2. TypeOK' /\ Injective(head)' /\ Injective(lh)'
    BY <2>1 DEF LogInv, TypeOK, Injective
  <2>3. InvControl' /\ InvRecover'
    BY <2>1 DEF LogInv, InvControl, InvRecover, Installed
  <2>4. InvCache'
    BY <2>1 DEF LogInv, InvCache
  <2>5. InvPin'
    BY <2>1 DEF LogInv, InvPin
  <2>6. InvCommit'
    BY <2>1 DEF LogInv, InvCommit, Installed
  <2> QED
    BY <2>2, <2>3, <2>4, <2>5, <2>6 DEF LogInv
<1>2. CASE Next
  BY <1>2, BeginOpInv, EndOpInv, LogWriteInv, StartCommitInv, WriteLogStartInv,
     WriteLogDoneInv, WriteHeadInv, InstallInv, ClearLogInv, FinishCommitInv,
     EvictInv, CrashInv, ReadHeadInv, ReinstallInv, RecoverDoneInv
     DEF Next, CommitStep
<1> QED
  BY <1>1, <1>2

(* LogInv holds in every reachable state: header, log area, buffers and    *)
(* home blocks fit together in every phase of commit() and initlog(), for  *)
(* any number of processes, blocks and log entries.                        *)
THEOREM LogInvariant == Spec => []LogInv
BY InitInv, NextInv, PTL DEF Spec

(* commit() runs alone: log.c:12 "only commits when there are no FS system *)
(* calls active".                                                          *)
THEOREM CommitIsExclusive == Spec => []CommitExclusive
<1>1. LogInv => CommitExclusive
  <2> SUFFICES ASSUME LogInv PROVE CommitExclusive
    OBVIOUS
  <2>1. committing <=> Committers # {}
    BY DEF LogInv, InvControl, Committers
  <2>2. ASSUME committing PROVE Cardinality(Committers) = 1
    <3>1. PICK o \in Ops : o \in Committers
      BY <2>1, <2>2 DEF Committers
    <3>2. Committers = {o}
      BY <3>1 DEF LogInv, InvControl, Committers
    <3> QED
      BY <3>2, FS_Singleton
  <2> QED
    BY <2>1, <2>2 DEF LogInv, InvControl, CommitExclusive
<1> QED
  BY <1>1, LogInvariant, PTL

(* What end_op() finished survives a crash: when the log is quiet, the     *)
(* disk recovers to what bread() shows.                                    *)
THEOREM FinishedIsDurable == Spec => []QuietIsDurable
<1>1. LogInv => QuietIsDurable
  <2> SUFFICES ASSUME LogInv, sys = "up", outstanding = 0, ~committing
               PROVE  Recovered = cache
    BY DEF QuietIsDurable
  <2>1. lh = << >>
    BY SMTT(60) DEF LogInv, InvCache, TypeOK
  <2>2. head = << >>
    BY DEF LogInv, InvControl, InvCommit, CommitPCs
  <2>3. Entries(lh) = {} /\ Entries(head) = {}
    BY SMTT(60), <2>1, <2>2 DEF Entries
  <2>4. \A b \in Blocks : cache[b] = home[b]
    BY <2>3 DEF LogInv, InvCache
  <2> QED
    BY <2>3, <2>4 DEF Recovered, Overlay, LogInv, TypeOK
<1> QED
  BY <1>1, LogInvariant, PTL

(* No wakeup(&log) is lost: whoever sleeps in begin_op() still has to, and *)
(* another process is on its way to wake it.                               *)
THEOREM NoLostWakeup == Spec => []SleeperHasWaker
<1> USE LogConstants
<1>1. Init => SleeperHasWaker
  BY DEF Init, SleeperHasWaker
<1>2. ASSUME LogInv, LogInv', SleeperHasWaker, [Next]_vars
      PROVE  SleeperHasWaker'
  <2> USE <1>2
  <2>a. ASSUME sys = "up", MustWait PROVE committing \/ InOp # {}
    <3>1. CASE ~committing /\ outstanding = 0
      <4>1. lh = << >>
        BY SMTT(60), <2>a, <3>1 DEF LogInv, InvCache, TypeOK
      <4>2. Len(lh) + (outstanding + 1) * MAXOPBLOCKS = MAXOPBLOCKS
        BY SMTT(60), <3>1, <4>1
      <4> QED
        BY SMTT(60), <2>a, <3>1, <4>2 DEF MustWait, NoSpace
    <3>2. CASE outstanding # 0
      BY <3>2, FS_EmptySet DEF LogInv, InvControl
    <3> QED
      BY <3>1, <3>2
  <2>b. ASSUME \A p \in Ops : pc'[p] # "asleep" PROVE SleeperHasWaker'
    BY <2>b DEF SleeperHasWaker
  <2>1. ASSUME NEW o \in Ops, BeginOp(o) PROVE SleeperHasWaker'
    <3>1. CASE MustWait
      <4>1. MustWait' /\ InOp' = InOp
        BY <2>1, <3>1 DEF BeginOp, MustWait, NoSpace, InOp, LogInv, TypeOK
      <4>2. committing' \/ InOp' # {}
        BY <2>1, <2>a, <3>1, <4>1 DEF BeginOp
      <4> QED
        BY <4>1, <4>2 DEF SleeperHasWaker
    <3>2. CASE ~MustWait
      <4>1. \A p \in Ops : pc[p] # "asleep"
        BY <3>2 DEF SleeperHasWaker
      <4> QED
        BY <2>1, <2>b, <3>2, <4>1 DEF BeginOp, LogInv, TypeOK
    <3> QED
      BY <3>1, <3>2
  <2>2. ASSUME NEW o \in Ops, EndOp(o) PROVE SleeperHasWaker'
    <3>1. CASE outstanding = 1
      BY <2>2, <3>1 DEF EndOp, SleeperHasWaker, MustWait
    <3>2. CASE outstanding # 1
      BY <2>2, <2>b, <3>2 DEF EndOp, Woken
    <3> QED
      BY <3>1, <3>2
  <2>3. ASSUME NEW o \in Ops, NEW b \in Blocks, NEW v \in Data, LogWrite(o, b, v)
        PROVE  SleeperHasWaker'
    <3>1. InOp' = InOp /\ pc' = pc /\ committing' = committing /\ outstanding' = outstanding
      BY <2>3 DEF LogWrite, InOp
    <3>2. Len(lh') >= Len(lh) /\ Len(lh) \in Nat /\ Len(lh') \in Nat
      <4>1. lh \in Seq(Blocks) /\ (lh' = lh \/ lh' = Append(lh, b))
        BY <2>3 DEF LogWrite, Logged, LogInv, TypeOK
      <4> QED
        BY SMTT(60), <4>1
    <3>3. NoSpace => NoSpace'
      <4>1. (outstanding + 1) * MAXOPBLOCKS \in Nat
        BY SMTT(60) DEF LogInv, TypeOK
      <4> QED
        BY SMTT(60), <3>1, <3>2, <4>1 DEF NoSpace
    <3> QED
      BY <3>1, <3>3 DEF SleeperHasWaker, MustWait
  <2>4. ASSUME NEW o \in Ops, FinishCommit(o) PROVE SleeperHasWaker'
    BY <2>4, <2>b DEF FinishCommit, Woken
  <2>5. ASSUME NEW o \in Ops, \/ StartCommit(o) \/ WriteLogStart(o) \/ WriteLogDone(o)
                               \/ WriteHead(o) \/ Install(o) \/ ClearLog(o)
        PROVE  SleeperHasWaker'
    <3>1. committing
      BY <2>5 DEF StartCommit, WriteLogStart, WriteLogDone, WriteHead, Install,
                  ClearLog, Committing, LogInv, InvControl, CommitPCs
    <3>2. committing'
      BY <2>5, <3>1 DEF StartCommit, WriteLogStart, WriteLogDone, WriteHead, Install,
                        ClearLog, trans
    <3> QED
      BY <3>2 DEF SleeperHasWaker, MustWait
  <2>6. ASSUME NEW b \in Blocks, Evict(b) PROVE SleeperHasWaker'
    BY <2>6 DEF Evict, trans, SleeperHasWaker, MustWait, NoSpace, InOp
  <2>7. ASSUME Crash PROVE SleeperHasWaker'
    BY <2>7, <2>b DEF Crash
  <2>8. ASSUME ReadHead \/ Reinstall \/ RecoverDone PROVE SleeperHasWaker'
    BY <2>8, <2>b DEF ReadHead, Reinstall, RecoverDone, LogInv, InvControl
  <2>9. CASE UNCHANGED vars
    BY <2>9 DEF vars, SleeperHasWaker, MustWait, NoSpace, InOp
  <2> QED
    BY <1>2, <2>1, <2>2, <2>3, <2>4, <2>5, <2>6, <2>7, <2>8, <2>9 DEF Next, CommitStep
<1> QED
  BY <1>1, <1>2, LogInvariant, PTL DEF Spec

-----------------------------------------------------------------------------
(* The log implements the atomic disk.  One lemma for each group of        *)
(* actions says what their steps do to it.                                 *)

(* Steps that leave disk, buffers and the set of active calls alone. *)
LEMMA QuietStep ==
  ASSUME UNCHANGED <<home, logd, head>>, cache' = cache, InOp' = InOp, sys' = sys
  PROVE  UNCHANGED Abstract!vars
BY DEF Abstract!vars, Recovered

(* Steps of commit() and of recovery that touch the disk without changing  *)
(* what it recovers to.                                                    *)
LEMMA HiddenStep ==
  ASSUME Recovered' = Recovered, cache' = cache \/ sys \notin {"up", "panic"},
         InOp' = InOp, sys' = sys
  PROVE  UNCHANGED Abstract!vars
BY DEF Abstract!vars

(* begin_op() and end_op() move the call in and out of the transaction. *)
LEMMA BeginEndRefine ==
  ASSUME LogInv, LogInv', NEW o \in Ops, BeginOp(o) \/ EndOp(o)
  PROVE  Abstract!Next \/ UNCHANGED Abstract!vars
<1>a. UNCHANGED <<home, logd, head>> /\ cache' = cache
  BY DEF BeginOp, EndOp, disk
<1>1. CASE BeginOp(o)
  <2>1. sys' = sys
    BY <1>1 DEF BeginOp
  <2>2. CASE MustWait
    <3>1. InOp' = InOp
      BY <1>1, <2>2 DEF BeginOp, InOp, LogInv, TypeOK
    <3> QED
      BY <1>a, <2>1, <3>1, QuietStep
  <2>3. CASE ~MustWait
    <3>1. o \notin InOp /\ InOp' = InOp \cup {o}
      BY <1>1, <2>3 DEF BeginOp, InOp, LogInv, TypeOK
    <3>2. Abstract!Begin(o)
      BY <1>a, <2>1, <3>1 DEF Abstract!Begin, Recovered
    <3> QED
      BY <3>2 DEF Abstract!Next
  <2> QED
    BY <2>2, <2>3
<1>2. CASE EndOp(o)
  <2>1. sys = "up" /\ sys' = "up" /\ o \in InOp
    BY <1>2 DEF EndOp, LogInv, InvControl, InOp
  <2>2. InOp' = InOp \ {o}
    BY <1>2 DEF EndOp, InOp, Woken, LogInv, TypeOK
  <2>3. Abstract!End(o)
    BY <1>a, <2>1, <2>2 DEF Abstract!End, Recovered
  <2> QED
    BY <2>3 DEF Abstract!Next
<1> QED
  BY <1>1, <1>2

(* log_write() is a write of the atomic disk, and changes nothing on disk. *)
LEMMA LogWriteRefine ==
  ASSUME LogInv, NEW o \in Ops, NEW b \in Blocks, NEW v \in Data, LogWrite(o, b, v)
  PROVE  Abstract!Next
<1>1. UNCHANGED <<home, logd, head>> /\ InOp' = InOp /\ o \in InOp
  BY DEF LogWrite, disk, InOp
<1>2. sys = "up" /\ sys' \in {"up", "panic"} /\ cache' = [cache EXCEPT ![b] = v]
  BY DEF LogWrite
<1>3. Abstract!Write(o, b, v)
  BY <1>1, <1>2 DEF Abstract!Write, Recovered
<1> QED
  BY <1>3 DEF Abstract!Next

(* Before the commit point the log area is not part of what recovery sees. *)
LEMMA WriteLogRefine ==
  ASSUME LogInv, NEW o \in Ops, WriteLogStart(o) \/ WriteLogDone(o)
  PROVE  UNCHANGED Abstract!vars
<1>1. /\ pc[o] = "write_log" /\ sys = "up" /\ sys' = sys /\ cache' = cache
      /\ home' = home /\ head' = head
  BY DEF WriteLogStart, WriteLogDone, Committing
<1>2. head = << >>
  BY <1>1 DEF LogInv, InvControl, InvCommit, CommitPCs
<1>3. InOp' = InOp
  BY DEF WriteLogStart, WriteLogDone, Committing, InOp, LogInv, TypeOK
<1>4. Recovered' = Recovered
  BY SMTT(60), <1>1, <1>2 DEF Recovered, Overlay, Entries
<1> QED
  BY <1>1, <1>3, <1>4, HiddenStep

(* Writing the header commits: the disk then recovers to what bread() shows. *)
LEMMA WriteHeadRefine ==
  ASSUME LogInv, NEW o \in Ops, WriteHead(o)
  PROVE  Abstract!Next
<1>1. /\ pc[o] = "write_head" /\ sys = "up" /\ sys' = sys /\ cache' = cache
      /\ home' = home /\ logd' = logd /\ head' = lh
  BY DEF WriteHead, Committing
<1>2. InOp = {} /\ InOp' = {}
  <2>1. committing
    BY <1>1 DEF LogInv, InvControl, CommitPCs
  <2>2. InOp = {}
    BY <2>1 DEF LogInv, InvControl
  <2> QED
    BY <2>2 DEF WriteHead, InOp, LogInv, TypeOK
<1>3. lh \in Seq(Blocks) /\ Injective(lh) /\ cache \in [Blocks -> Data \cup {Torn}]
  BY DEF LogInv, TypeOK
<1>4. \A b \in Blocks : Overlay(lh, logd, home)[b] = cache[b]
  <2> SUFFICES ASSUME NEW b \in Blocks PROVE Overlay(lh, logd, home)[b] = cache[b]
    OBVIOUS
  <2>1. CASE b \in Entries(lh)
    <3>1. PICK i \in DOMAIN lh : lh[i] = b
      BY <2>1 DEF Entries
    <3>2. logd[i] = cache[b]
      BY <1>1, <3>1 DEF LogInv, InvCommit
    <3> QED
      BY SMTT(60), <1>3, <3>1, <3>2, OverlayFacts
  <2>2. CASE b \notin Entries(lh)
    BY SMTT(60), <1>1, <1>3, <2>2, OverlayFacts DEF LogInv, InvCache
  <2> QED
    BY <2>1, <2>2
<1>5. Recovered' = cache
  BY <1>1, <1>3, <1>4 DEF Recovered, Overlay
<1>6. Abstract!Commit
  BY <1>1, <1>2, <1>5 DEF Abstract!Commit
<1> QED
  BY <1>6 DEF Abstract!Next

(* Changing the home block of a logged entry is invisible to recovery. *)
LEMMA HomeHidden ==
  ASSUME head \in Seq(Blocks), Injective(head), head' = head, logd' = logd,
         NEW i \in DOMAIN head,
         \A b \in Blocks : b # head[i] => home'[b] = home[b]
  PROVE  Recovered' = Recovered
<1>1. \A b \in Blocks : b \notin Entries(head) => home'[b] = home[b]
  BY DEF Entries
<1> QED
  BY SMTT(60), <1>1 DEF Recovered, Overlay

(* When every logged entry is home, the header can go. *)
LEMMA HeaderHidden ==
  ASSUME head \in Seq(Blocks), Injective(head), head' = << >>, home' = home,
         \A i \in DOMAIN head : home[head[i]] = logd[i]
  PROVE  Recovered' = Recovered
<1>1. \A b \in Blocks : Overlay(head, logd, home)[b] = home[b]
  BY SMTT(60), OverlayFacts DEF Entries
<1>2. Entries(head') = {}
  BY SMTT(60) DEF Entries
<1> QED
  BY <1>1, <1>2 DEF Recovered, Overlay

(* install_trans(), in commit() or in recovery, is invisible. *)
LEMMA InstallRefine ==
  ASSUME LogInv, Reinstall \/ \E o \in Ops : Install(o)
  PROVE  UNCHANGED Abstract!vars
<1>1. ASSUME Reinstall PROVE UNCHANGED Abstract!vars
  <2>1. /\ lh = head /\ tail \in DOMAIN head /\ head' = head /\ logd' = logd
        /\ head \in Seq(Blocks) /\ Injective(head)
        /\ sys = "recover" /\ sys' = sys
    BY SMTT(60), <1>1 DEF Reinstall, LogInv, InvRecover, TypeOK
  <2>2. \A b \in Blocks : b # head[tail] => home'[b] = home[b]
    BY <1>1, <2>1 DEF Reinstall, InstallBlock, LogInv, TypeOK
  <2>3. InOp' = InOp
    BY <1>1 DEF Reinstall, InOp
  <2> QED
    BY <2>1, <2>2, <2>3, HomeHidden, HiddenStep
<1>2. ASSUME NEW o \in Ops, Install(o) PROVE UNCHANGED Abstract!vars
  <2>1. /\ lh = head /\ tail \in DOMAIN head /\ head' = head /\ logd' = logd
        /\ head \in Seq(Blocks) /\ Injective(head)
        /\ sys = "up" /\ sys' = sys /\ pc[o] = "install"
    BY SMTT(60), <1>2 DEF Install, Committing, LogInv, InvCommit, TypeOK
  <2>2. \A b \in Blocks : b # head[tail] => home'[b] = home[b]
    BY SMTT(60), <1>2, <2>1 DEF Install, InstallBlock, LogInv, TypeOK
  <2>3. InOp' = InOp
    BY <1>2, <2>1 DEF Install, InOp, LogInv, TypeOK
  <2>4. cache' = cache
    <3>1. logd[tail] = cache[lh[tail]]
      BY <2>1 DEF LogInv, InvCommit
    <3>2. lh[tail] \in Blocks
      BY SMTT(60), <2>1
    <3> QED
      BY SMTT(60), <1>2, <3>1, <3>2 DEF Install, InstallBlock, LogInv, TypeOK
  <2> QED
    BY <2>1, <2>2, <2>3, <2>4, HomeHidden, HiddenStep
<1> QED
  BY <1>1, <1>2

(* Clearing the header is invisible. *)
LEMMA ClearRefine ==
  ASSUME LogInv, RecoverDone \/ \E o \in Ops : ClearLog(o)
  PROVE  UNCHANGED Abstract!vars
<1>0. head \in Seq(Blocks) /\ Injective(head)
  BY DEF LogInv, TypeOK
<1>1. ASSUME RecoverDone PROVE UNCHANGED Abstract!vars
  <2>1. cache = home /\ lh = head /\ \A i \in DOMAIN lh : Installed(i)
    BY <1>1, RecoverDoneInv
  <2>2. Recovered' = Recovered
    BY <1>0, <1>1, <2>1, HeaderHidden DEF RecoverDone, Installed
  <2>3. Recovered' = cache'
    BY SMTT(60), <1>1, <2>1 DEF RecoverDone, Recovered, Overlay, Entries, LogInv, TypeOK
  <2>4. InOp' = InOp /\ sys = "recover" /\ sys' = "up"
    BY <1>1 DEF RecoverDone, InOp
  <2> QED
    BY <2>2, <2>3, <2>4 DEF Abstract!vars
<1>2. ASSUME NEW o \in Ops, ClearLog(o) PROVE UNCHANGED Abstract!vars
  <2>1. lh = head /\ \A i \in DOMAIN lh : Installed(i)
    BY <1>2 DEF ClearLog, Committing, LogInv, InvCommit
  <2>2. Recovered' = Recovered
    BY <1>0, <1>2, <2>1, HeaderHidden DEF ClearLog, Installed
  <2>3. InOp' = InOp /\ sys' = sys /\ cache' = cache
    BY <1>2 DEF ClearLog, Committing, InOp, LogInv, TypeOK
  <2> QED
    BY <2>2, <2>3, HiddenStep
<1> QED
  BY <1>1, <1>2

(* A crash of the machine is a crash of the atomic disk. *)
LEMMA CrashRefine ==
  ASSUME Crash PROVE Abstract!Next
<1>1. Recovered' = Recovered
  BY DEF Crash, disk, Recovered
<1>2. InOp' = {} /\ sys' = "boot"
  BY DEF Crash, InOp
<1>3. Abstract!Crash
  BY <1>1, <1>2 DEF Abstract!Crash
<1> QED
  BY <1>3 DEF Abstract!Next

(* The log implements a disk with atomic transactions: at every moment the *)
(* disk recovers to the effects of whole transactions, and only the        *)
(* header write of a commit() with no call in progress changes that.       *)
THEOREM LogIsAtomic == Spec => Atomicity
<1>1. Init => Abstract!Init
  <2> SUFFICES ASSUME Init PROVE Abstract!Init
    OBVIOUS
  <2>1. Recovered = home
    BY SMTT(60) DEF Init, Recovered, Overlay, Entries
  <2>2. InOp = {} /\ sys = "boot" /\ home \in [Blocks -> Data]
    BY DEF Init, InOp
  <2> QED
    BY <2>1, <2>2 DEF Abstract!Init
<1>2. ASSUME LogInv, LogInv', [Next]_vars
      PROVE  Abstract!Next \/ UNCHANGED Abstract!vars
  <2> USE <1>2
  <2>1. ASSUME NEW o \in Ops, StartCommit(o) \/ FinishCommit(o)
        PROVE  UNCHANGED Abstract!vars
    <3>1. InOp' = InOp
      BY <2>1 DEF StartCommit, FinishCommit, Committing, InOp, Woken, LogInv, TypeOK
    <3> QED
      BY <2>1, <3>1, QuietStep DEF StartCommit, FinishCommit, disk
  <2>2. ASSUME NEW b \in Blocks, Evict(b) PROVE UNCHANGED Abstract!vars
    <3>1. cache' = cache
      BY <2>2, EvictInv
    <3> QED
      BY <2>2, <3>1, QuietStep DEF Evict, disk, InOp
  <2>3. ASSUME ReadHead PROVE UNCHANGED Abstract!vars
    <3>1. Recovered' = Recovered /\ InOp' = InOp
      BY <2>3 DEF ReadHead, disk, Recovered, InOp
    <3> QED
      BY <2>3, <3>1 DEF ReadHead, Abstract!vars
  <2>4. CASE UNCHANGED vars
    BY <2>4, QuietStep DEF vars, InOp
  <2> QED
    BY <2>1, <2>2, <2>3, <2>4, BeginEndRefine, LogWriteRefine, WriteLogRefine,
       WriteHeadRefine, InstallRefine, ClearRefine, CrashRefine DEF Next, CommitStep
<1> QED
  BY <1>1, <1>2, LogInvariant, PTL DEF Spec, Atomicity, Abstract!Spec
=============================================================================
