------------------------------ MODULE FileData ------------------------------
(***************************************************************************)
(* The contents of files: block allocation, bmap(), itrunc(), readi() and  *)
(* writei() of kernel/fs.c, and the loops of fileread() and filewrite() of *)
(* kernel/file.c above them.                                               *)
(*                                                                         *)
(* What a call does with ip->lock held is one action: a whole read, one    *)
(* round of filewrite()'s loop, a truncation.  Processes share struct      *)
(* files and inodes.  A copy from or to user memory may fail at any block. *)
(* A block is seen as data and as an indirect block; each use has its view *)
(* of it.  A byte is the process that wrote it.                            *)
(***************************************************************************)
EXTENDS Integers, Sequences, FiniteSets, FiniteSetsExt, Functions

CONSTANTS
  Procs,
  Files, Inodes, InodeOf,  \* struct files, inodes, and f->ip
  NBlocks,                 \* data blocks of the disk
  NDIRECT, NINDIRECT, BSIZE,
  MAXOPBLOCKS,             \* at least 6: filewrite() asks for one block or more
  BPB,                     \* bits, that is blocks, of a bitmap block
  Lengths                  \* the n of the reads and writes, positive

Blocks == 1 .. NBlocks
MAXFILE == NDIRECT + NINDIRECT
Zero == "zero"

VARIABLES
  fs,       \* the disk: used, data, ind, size, addrs; log: the blocks that the
            \*   transaction in progress has logged; why: the panic
  logged,   \* the number of blocks that the transaction just ended has logged
  off,      \* f->off
  job,      \* each process: the file and the bytes that filewrite() has left
  content   \* history: what each file should contain

vars == <<fs, logged, off, job, content>>

StaleData == [k \in 0 .. BSIZE - 1 |-> "stale"]
StaleInd == [k \in 0 .. NINDIRECT - 1 |-> 1]

NoJob == [f |-> 0, left |-> 0]

Init ==
  /\ fs = [used |-> {}, log |-> {}, why |-> "",
           data |-> [b \in Blocks |-> StaleData], ind |-> [b \in Blocks |-> StaleInd],
           size |-> [i \in Inodes |-> 0],
           addrs |-> [i \in Inodes |-> [k \in 0 .. NDIRECT |-> 0]]]
  /\ logged = 0 /\ off = [f \in Files |-> 0]
  /\ job = [p \in Procs |-> NoJob]
  /\ content = [i \in Inodes |-> <<>>]

-----------------------------------------------------------------------------
BBLOCK(b) == <<"bitmap", b \div BPB>>

(* balloc(): the first free block, marked and zeroed. *)
NextFree(s) == IF s.used = Blocks THEN 0 ELSE Min(Blocks \ s.used)
balloc(s) ==
  LET b == NextFree(s) IN
  IF b = 0 THEN [s EXCEPT !.why = "balloc: out of blocks"]
  ELSE [s EXCEPT !.used = @ \cup {b}, !.log = @ \cup {BBLOCK(b), <<"block", b>>},
                 !.data[b] = [k \in 0 .. BSIZE - 1 |-> Zero],
                 !.ind[b] = [k \in 0 .. NINDIRECT - 1 |-> 0]]

(* bfree() of the blocks of the sequence q.  What is left in them is dead: *)
(* it is shown as one arbitrary value.                                     *)
BfreeAll(s, q) ==
  [s EXCEPT !.used = @ \ Range(q),
            !.data = [b \in Blocks |-> IF b \in Range(q) THEN StaleData ELSE @[b]],
            !.ind = [b \in Blocks |-> IF b \in Range(q) THEN StaleInd ELSE @[b]],
            !.log = @ \cup {BBLOCK(b) : b \in Range(q)},
            !.why = IF \/ \E k \in DOMAIN q : q[k] \notin s.used
                       \/ \E j, k \in DOMAIN q : j # k /\ q[j] = q[k]
                    THEN "freeing free block" ELSE @]

(* bmap(): the address of the nth block, and the disk once it has one. *)
Addr(s, i, bn) ==
  IF bn < NDIRECT THEN s.addrs[i][bn]
  ELSE IF s.addrs[i][NDIRECT] = 0 THEN 0
  ELSE s.ind[s.addrs[i][NDIRECT]][bn - NDIRECT]

WithAddr(s, i, k) ==
  IF s.addrs[i][k] # 0 THEN s ELSE [balloc(s) EXCEPT !.addrs[i][k] = NextFree(s)]

bmap(s, i, bn) ==
  IF bn >= MAXFILE THEN [s EXCEPT !.why = "bmap: out of range"]
  ELSE IF bn < NDIRECT THEN WithAddr(s, i, bn)
  ELSE LET s1 == WithAddr(s, i, NDIRECT)
           a == s1.addrs[i][NDIRECT]
       IN IF Addr(s1, i, bn) # 0 \/ s1.why # "" THEN s1
          ELSE [balloc(s1) EXCEPT !.ind[a][bn - NDIRECT] = NextFree(s1),
                                  !.log = @ \cup {<<"block", a>>}]

(* iupdate(). *)
iupdate(s, i) == [s EXCEPT !.log = @ \cup {<<"inode", i>>}]

(* The entries of the indirect block. *)
Indirect(s, i) ==
  LET ind == s.addrs[i][NDIRECT] IN
  IF ind = 0 THEN <<>> ELSE [k \in 1 .. NINDIRECT |-> s.ind[ind][k - 1]]

Direct(s, i) == [k \in 1 .. NDIRECT |-> s.addrs[i][k - 1]]

(* The blocks of an inode: direct, those of the indirect block, and it. *)
OwnBlocks(s, i) ==
  SelectSeq(Direct(s, i) \o Indirect(s, i) \o <<s.addrs[i][NDIRECT]>>, LAMBDA b : b # 0)

(* Mutant of itrunc(): the indirect block itself is not freed. *)
Mut_itrunc(s, i) ==
  iupdate([BfreeAll(s, SelectSeq(Direct(s, i) \o Indirect(s, i), LAMBDA b : b # 0)) EXCEPT
            !.addrs[i] = [k \in 0 .. NDIRECT |-> 0], !.size[i] = 0], i)

itrunc(s, i) ==
  iupdate([BfreeAll(s, OwnBlocks(s, i)) EXCEPT
            !.addrs[i] = [k \in 0 .. NDIRECT |-> 0], !.size[i] = 0], i)

(* The loop of writei(): m bytes of one block at a time, until all n are   *)
(* written or, after ok blocks, user memory cannot be read.                *)
RECURSIVE CopyIn(_, _, _, _, _, _)
CopyIn(s, i, at, n, ok, v) ==
  LET s1 == bmap(s, i, at \div BSIZE)
      m == Min({n, BSIZE - (at % BSIZE)})
      b == Addr(s1, i, at \div BSIZE)
      s2 == [s1 EXCEPT !.log = @ \cup {<<"block", b>>},
                       !.data[b] = [k \in 0 .. BSIZE - 1 |->
                          IF k \in (at % BSIZE) .. (at % BSIZE) + m - 1 THEN v ELSE @[k]]]
  IN
  IF n = 0 THEN [s |-> s, at |-> at]
  ELSE IF s1.why # "" \/ ok = 0 THEN [s |-> s1, at |-> at]
  ELSE CopyIn(s2, i, at + m, n - m, ok - 1, v)


(* writei(): what it returns and leaves. *)
writei(s, i, at, n, ok, v) ==
  IF at > s.size[i] \/ at + n > MAXFILE * BSIZE THEN [s |-> s, r |-> -1]
  ELSE LET c == CopyIn(s, i, at, n, ok, v) IN
       [s |-> iupdate([c.s EXCEPT !.size[i] = Max({@, c.at})], i),
        r |-> c.at - at]

(* readi(): the count, and the blocks it asks bmap() for. *)
ReadCount(s, i, at, n) ==
  IF at > s.size[i] THEN 0 ELSE IF at + n > s.size[i] THEN s.size[i] - at ELSE n

RECURSIVE Fetch(_, _, _, _)
Fetch(s, i, at, n) ==
  LET m == Min({n, BSIZE - (at % BSIZE)}) IN
  IF n = 0 THEN s ELSE Fetch(bmap(s, i, at \div BSIZE), i, at + m, n - m)

-----------------------------------------------------------------------------
(* end_op(): the transaction that led to s is over. *)
Commit(s) == fs' = [s EXCEPT !.log = {}] /\ logged' = Cardinality(s.log)

Idle(p) == job[p].left = 0

(* filewrite() of n bytes begins. *)
Write(p, f, n) ==
  /\ Idle(p)
  /\ job' = [job EXCEPT ![p] = [f |-> f, left |-> n]]
  /\ logged' = 0
  /\ UNCHANGED <<fs, off, content>>

(* "write a few blocks at a time to avoid exceeding the maximum log        *)
(* transaction size".                                                      *)
MaxChunk == ((MAXOPBLOCKS - 1 - 1 - 2) \div 2) * BSIZE

(* The contents of a file after r bytes of p at offset at. *)
Overwrite(c, at, r, p) ==
  IF r = 0 THEN c
  ELSE [k \in 1 .. Max({at + r, Len(c)}) |-> IF k > at /\ k <= at + r THEN p ELSE c[k]]

(* One round of the loop, a transaction of its own. *)
Chunk(p, ok) ==
  LET f == job[p].f
      i == InodeOf[f]
      n1 == Min({job[p].left, MaxChunk})
      w == writei(fs, i, off[f], n1, ok, p)
      got == IF w.r > 0 THEN w.r ELSE 0
  IN
  /\ ~Idle(p)
  /\ Commit(w.s)
  /\ off' = [off EXCEPT ![f] = @ + got]
  /\ content' = [content EXCEPT ![i] = Overwrite(@, off[f], got, p)]
  /\ job' = [job EXCEPT ![p] = IF w.r # n1 \/ w.r = job[p].left THEN NoJob
                              ELSE [@ EXCEPT !.left = @ - w.r]]

(* fileread(): no transaction, so bmap() must find every block; a failed   *)
(* copyout() leaves the offset where it was.                               *)
Read(f, n, ok) ==
  LET i == InodeOf[f]
      r == ReadCount(fs, i, off[f], n)
      s == Fetch(fs, i, off[f], r)
  IN
  /\ \E p \in Procs : Idle(p)
  /\ fs' = IF s.log # {} THEN [fs EXCEPT !.why = "log_write outside of trans"] ELSE s
  /\ off' = [off EXCEPT ![f] = IF ok THEN @ + r ELSE @]
  /\ logged' = 0
  /\ UNCHANGED <<job, content>>

(* open(O_TRUNC), and iput() of a file that is gone. *)
Truncate(i) ==
  /\ Commit(itrunc(fs, i))
  /\ content' = [content EXCEPT ![i] = <<>>]
  /\ UNCHANGED <<off, job>>

Running == fs.why = ""
Full == fs.why = "balloc: out of blocks" /\ UNCHANGED vars

Next ==
  \/ /\ Running
     /\ \/ \E p \in Procs, f \in Files, n \in Lengths : Write(p, f, n)
        \/ \E f \in Files, n \in Lengths, ok \in BOOLEAN : Read(f, n, ok)
        \/ \E p \in Procs, ok \in 0 .. MaxChunk \div BSIZE + 1 : Chunk(p, ok)
        \/ \E i \in Inodes : Truncate(i)
  \/ Full

Spec == Init /\ [][Next]_vars

-----------------------------------------------------------------------------
(* A block is marked in use exactly if one inode owns it, and is owned     *)
(* once: also after writes that failed half way, nothing is lost or        *)
(* shared, and no assertion of the block code fails.                       *)
BlocksAccounted ==
  /\ Running =>
       /\ fs.used = UNION {Range(OwnBlocks(fs, i)) : i \in Inodes}
       /\ FoldSet(LAMBDA i, n : n + Len(OwnBlocks(fs, i)), 0, Inodes) = Cardinality(fs.used)
  /\ fs.why \in {"", "balloc: out of blocks"}


(* A round of filewrite() logs no more blocks than the transaction it      *)
(* reserved, even if every block it allocates is in a bitmap block of its  *)
(* own (file.c:149).                                                       *)
OpFitsLog == logged <= MAXOPBLOCKS
=============================================================================
