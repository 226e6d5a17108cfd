-------------------------------- MODULE Mkfs --------------------------------
(***************************************************************************)
(* mkfs/mkfs.c, which writes the first file system image: the root         *)
(* directory, one file for each argument, and the bitmap at the end.  A    *)
(* byte is known by its inode and its place there; a directory entry is    *)
(* one byte, the inode number that it gives.  A step is one iappend() with *)
(* the ialloc() before it; the asserts and die() stop the program.         *)
(***************************************************************************)
EXTENDS Integers, Sequences, FiniteSets, SequencesExt

CONSTANTS
  BSIZE, NDIRECT, NINDIRECT,
  NMETA,      \* boot block, super block, log, inodes and bitmap
  FSSIZE,     \* blocks of the image
  MaxFiles    \* bound on the files, below NINODES

VARIABLES
  dinode,     \* the inodes written so far: type, nlink, size, addrs
  sect,       \* the blocks: of data, or of addresses
  freeblock,
  bitmap,     \* the blocks marked by balloc()
  text,       \* history: what each inode was given
  state       \* "run", "done" or "died"

vars == <<dinode, sect, freeblock, bitmap, text, state>>

ROOTINO == 1
MAXFILE == NDIRECT + NINDIRECT
Zeroes == [k \in 0 .. BSIZE - 1 |-> 0]
NewInode(type) == [type |-> type, nlink |-> 1, size |-> 0, addrs |-> [k \in 0 .. NDIRECT |-> 0]]

(* An address: what is there, or the next free block. *)
Addr(st, a) == IF a = 0 THEN [addr |-> st.free, free |-> st.free + 1] ELSE [addr |-> a, free |-> st.free]

(* Block fbn of the inode: its number, the inode, the blocks and freeblock *)
(* afterwards.                                                             *)
Block(st, fbn) ==
  IF fbn < NDIRECT
    THEN LET x == Addr(st, st.din.addrs[fbn]) IN
         [st EXCEPT !.din.addrs[fbn] = x.addr, !.free = x.free, !.x = x.addr]
    ELSE LET i == Addr(st, st.din.addrs[NDIRECT])
             y == Addr([st EXCEPT !.free = i.free], st.sect[i.addr][fbn - NDIRECT])
         IN [st EXCEPT !.din.addrs[NDIRECT] = i.addr, !.sect[i.addr][fbn - NDIRECT] = y.addr,
                       !.free = y.free, !.x = y.addr]

(* How many blocks that takes; rsect() dies beyond the end of the image. *)
Missing(st, fbn) ==
  IF fbn < NDIRECT THEN IF st.din.addrs[fbn] = 0 THEN 1 ELSE 0
  ELSE IF st.din.addrs[NDIRECT] = 0 THEN 2
  ELSE IF st.sect[st.din.addrs[NDIRECT]][fbn - NDIRECT] = 0 THEN 1 ELSE 0

RECURSIVE Appended(_, _, _)
(* The loop of iappend(): the bytes p go behind the contents of the inode, *)
(* unless it is too large or the image full.                               *)
Appended(st, off, p) ==
  LET fbn == off \div BSIZE
      b == Block(st, fbn)
      n1 == IF Len(p) < (fbn + 1) * BSIZE - off THEN Len(p) ELSE (fbn + 1) * BSIZE - off
      Into(s) == [k \in DOMAIN s |-> LET j == k - (off - fbn * BSIZE) IN
                                     IF j \in 0 .. n1 - 1 THEN p[j + 1] ELSE s[k]]
  IN IF p = <<>> THEN [st EXCEPT !.din.size = off]
     ELSE IF fbn >= MAXFILE \/ st.free + Missing(st, fbn) > FSSIZE THEN [st EXCEPT !.ok = FALSE]
     ELSE Appended([b EXCEPT !.sect[b.x] = Into(@)], off + n1, SubSeq(p, n1 + 1, Len(p)))

iappend(din, s, fb, p) == Appended([din |-> din, sect |-> s, free |-> fb, x |-> 0, ok |-> TRUE], din.size, p)

Init ==
  LET new == iappend(NewInode("DIR"), [b \in NMETA .. FSSIZE - 1 |-> Zeroes], NMETA, <<1, 1>>) IN
  /\ dinode = <<new.din>> /\ sect = new.sect /\ freeblock = new.free
  /\ bitmap = {} /\ text = << <<1, 1>> >> /\ state = "run"

(* iappend() to an inode of the image. *)
AppendTo(inum, p, din, given) ==
  LET r == iappend(din[inum], sect, freeblock, p) IN
  /\ state = "run"
  /\ IF r.ok
       THEN /\ dinode' = [din EXCEPT ![inum] = r.din] /\ sect' = r.sect /\ freeblock' = r.free
            /\ text' = [given EXCEPT ![inum] = @ \o p] /\ UNCHANGED state
       ELSE state' = "died" /\ UNCHANGED <<dinode, sect, freeblock, text>>
  /\ UNCHANGED bitmap

(* The next argument: its inode, and its entry in the root directory. *)
AddFile ==
  LET inum == Len(dinode) + 1 IN
  /\ inum <= MaxFiles + 1
  /\ AppendTo(ROOTINO, <<inum>>, Append(dinode, NewInode("FILE")), Append(text, <<>>))

(* The next n bytes of it. *)
CopyIn(n) ==
  LET inum == Len(dinode) IN
  /\ inum > ROOTINO
  /\ AppendTo(inum, [k \in 1 .. n |-> inum * 100 + Len(text[inum]) + k], dinode, text)

(* Mutant of Used: the block at freeblock is marked as well. *)
Mut_Used == 0 .. freeblock

(* balloc() marks all blocks below freeblock. *)
Used == 0 .. freeblock - 1

(* "fix size of root inode dir" *)
Finish ==
  /\ state = "run" /\ state' = "done"
  /\ dinode' = [dinode EXCEPT ![ROOTINO].size = (@ \div BSIZE + 1) * BSIZE]
  /\ bitmap' = Used
  /\ UNCHANGED <<sect, freeblock, text>>

Next == AddFile \/ (\E n \in 1 .. BSIZE : CopyIn(n)) \/ Finish \/ (state # "run" /\ UNCHANGED vars)
Spec == Init /\ [][Next]_vars

-----------------------------------------------------------------------------
(* The blocks of an inode as the kernel's bmap() finds them, and the       *)
(* block of addresses.                                                     *)
BlockOf(i, bn) == IF bn < NDIRECT THEN dinode[i].addrs[bn]
                  ELSE LET ind == dinode[i].addrs[NDIRECT] IN
                       IF ind = 0 THEN 0 ELSE sect[ind][bn - NDIRECT]
BlocksOf(i) == { b \in [bn : 0 .. MAXFILE - 1, addr : NMETA .. FSSIZE - 1] : BlockOf(i, b.bn) = b.addr }
               \cup { b \in [bn : {-1}, addr : NMETA .. FSSIZE - 1] : dinode[i].addrs[NDIRECT] = b.addr }

(* The image is a file system as the kernel expects it: the bitmap marks   *)
(* exactly the blocks before the data and those of some inode; no block    *)
(* belongs to two inodes or two places; each file reads back as it was     *)
(* copied, and the root directory as its entries, followed by free ones up *)
(* to a multiple of the block size; each inode but the root is named once  *)
(* and counts one link.                                                    *)
ImageRight ==
  state = "done" =>
  LET all == UNION { { <<i, b.bn, b.addr>> : b \in BlocksOf(i) } : i \in DOMAIN dinode }
  IN /\ bitmap = (0 .. NMETA - 1) \cup { t[3] : t \in all }
     /\ \A t, u \in all : t[3] = u[3] => t = u
     /\ \A i \in DOMAIN dinode :
          /\ dinode[i].nlink = 1
          /\ \A k \in DOMAIN text[i] : sect[BlockOf(i, (k - 1) \div BSIZE)][(k - 1) % BSIZE] = text[i][k]
          /\ i # ROOTINO => dinode[i].size = Len(text[i])
          /\ i # ROOTINO => Cardinality({ k \in DOMAIN text[ROOTINO] : text[ROOTINO][k] = i }) = 1
     /\ dinode[ROOTINO].size % BSIZE = 0 /\ dinode[ROOTINO].size > Len(text[ROOTINO])
     /\ \A k \in Len(text[ROOTINO]) .. dinode[ROOTINO].size - 1 :
          LET b == BlockOf(ROOTINO, k \div BSIZE) IN b = 0 \/ sect[b][k % BSIZE] = 0
=============================================================================
