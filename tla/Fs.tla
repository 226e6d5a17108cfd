--------------------------------- MODULE Fs ---------------------------------
(***************************************************************************)
(* Inodes, directories, path names and the file table: kernel/fs.c,        *)
(* kernel/file.c and the system calls of kernel/sysfile.c that name files. *)
(*                                                                         *)
(* An action runs from one point where the code may block (an inode's      *)
(* sleep lock, begin_op()) or looks at a reference count (iput()) to the   *)
(* next.  The inode table has at most one entry in use per inode number,   *)
(* so ref, valid and the copy of the inode are indexed by the number; an   *)
(* entry that is not in use keeps a fixed value, for iget() resets it.     *)
(* A path is a sequence of names, as skipelem() delivers them, and the     *)
(* entries of a directory are a function, 0 where there is no entry.  What *)
(* files contain is in module FileData, the transaction in module Log.     *)
(***************************************************************************)
EXTENDS Integers, Sequences, FiniteSets, FiniteSetsExt

CONSTANTS
  Procs, First,     \* processes; the one that exists at the start
  Names,            \* file names other than "." and ".."
  NInodes,          \* sb.ninodes - 1
  NINODE,           \* entries of the inode table
  NFILE, NOFILE,    \* struct files; descriptors of a process
  MaxOps,           \* transactions that begin_op() admits
  Calls             \* the calls of each process: [op, type, path, new, write]

ASSUME FsConstants ==
  /\ First \in Procs /\ IsFiniteSet(Procs) /\ {".", ".."} \cap Names = {}
  /\ NInodes \in Nat \ {0} /\ NINODE \in Nat /\ NFILE \in Nat /\ NOFILE \in Nat
  /\ MaxOps \in Nat \ {0}

ROOTINO == 1
Inums == 1 .. NInodes
Files == 1 .. NFILE
Fds == 1 .. NOFILE
Entries == Names \cup {".", ".."}
Free == "free"      \* an unlocked sleep lock; the type of a free inode

VARIABLES
  dinode,   \* the inodes on disk: type and nlink
  ents,     \* the entries of the directories
  inode,    \* the inode table: valid, and the copy of type and nlink
  ref,      \* ip->ref
  lock,     \* ip->lock: the process that has it
  file,     \* the file table: ref and ip
  ofile,    \* p->ofile[]
  cwd,      \* p->cwd, 0 for a process that does not exist
  t,        \* each process: position and locals of its system call
  panic     \* the message of the panic that stopped the kernel

disk == <<dinode, ents>>
table == <<inode, ref, lock>>
proc == <<file, ofile, cwd>>
vars == <<disk, table, proc, t, panic>>

NoInode == [valid |-> FALSE, type |-> Free, nlink |-> 0]
NoCall == [op |-> "none"]

(* A process outside the kernel.  at: the cursor of namex() and then dp;   *)
(* put: the inodes to iput() before position "then"; i: the one being put. *)
Idle == [pc |-> "user", call |-> NoCall, rest |-> <<>>, par |-> FALSE, at |-> 0,
         ip |-> 0, put |-> <<>>, then |-> "user"]

(* The file system as mkfs makes it, and the first process at its root. *)
Init ==
  /\ dinode = [i \in Inums |-> IF i = ROOTINO THEN [type |-> "dir", nlink |-> 1]
                                ELSE [type |-> Free, nlink |-> 0]]
  /\ ents = [i \in Inums |-> [n \in Entries |->
              IF i = ROOTINO /\ n \notin Names THEN ROOTINO ELSE 0]]
  /\ inode = [i \in Inums |-> NoInode]
  /\ ref = [i \in Inums |-> IF i = ROOTINO THEN 1 ELSE 0]
  /\ lock = [i \in Inums |-> Free]
  /\ file = [f \in Files |-> [ref |-> 0, ip |-> 0]]
  /\ ofile = [p \in Procs |-> [d \in Fds |-> 0]]
  /\ cwd = [p \in Procs |-> IF p = First THEN ROOTINO ELSE 0]
  /\ t = [p \in Procs |-> Idle] /\ panic = ""

-----------------------------------------------------------------------------
(* panic() stops the kernel where it stands. *)
Panic(why) == panic' = why /\ UNCHANGED <<disk, table, proc, t>>

(* The locals of p, its position among them, become l. *)
Go(p, l) == t' = [t EXCEPT ![p] = l]

(* iput() the inodes of s, one after the other, and go on at l. *)
PutThen(l, s, next) == [l EXCEPT !.pc = "put", !.put = s, !.then = next]

(* iput() those of s, end_op(), and return. *)
PutReturn(s) == PutThen(Idle, s, "user")

(* iget(): the entry of i is found or set up. *)
TableFull(i) == ref[i] = 0 /\ Cardinality({j \in Inums : ref[j] > 0}) = NINODE
iget(i) == ref' = [ref EXCEPT ![i] = @ + 1]

(* ilock(), once the sleep lock is free: the inode is read if need be. *)
Loaded(i) == IF inode[i].valid THEN inode[i]
             ELSE [valid |-> TRUE, type |-> dinode[i].type, nlink |-> dinode[i].nlink]
NoType(i) == ~inode[i].valid /\ dinode[i].type = Free
ilock(i) == inode' = [inode EXCEPT ![i] = Loaded(i)]

(* Mutant of SetNlink: iupdate() is forgotten. *)
Mut_SetNlink(i, n) ==
  /\ inode' = [inode EXCEPT ![i] = [Loaded(i) EXCEPT !.nlink = n]]
  /\ UNCHANGED dinode

(* dirlookup(): the inode that directory i names n; dirlink() of a name    *)
(* that is not there.                                                      *)
dirlookup(i, n) == ents[i][n]
dirlink(i, n, inum) == ents' = [ents EXCEPT ![i][n] = inum]

(* nlink of inode i becomes n, in the table and, with iupdate(), on disk. *)
SetNlink(i, n) ==
  /\ inode' = [inode EXCEPT ![i] = [Loaded(i) EXCEPT !.nlink = n]]
  /\ dinode' = [dinode EXCEPT ![i] = [type |-> Loaded(i).type, nlink |-> n]]

(* begin_op() has room for another transaction. *)
InOp(p) == t[p].pc \notin {"user", "closing", "exit"}
MayBegin == Cardinality({p \in Procs : InOp(p)}) < MaxOps

-----------------------------------------------------------------------------
(* Mutant of NotFound: a failed lookup keeps its inode. *)
Mut_NotFound(l, i) ==
  IF l.ip = 0 THEN Idle ELSE [Idle EXCEPT !.ip = l.ip, !.pc = "link_bad"]

(* namex() puts inode i and finds nothing. *)
NotFound(l, i) ==
  IF l.ip = 0 THEN PutReturn(<<i>>)
  ELSE PutThen([Idle EXCEPT !.ip = l.ip], <<i>>, "link_bad")

(* A system call starts: begin_op() and the start of namex(). *)
StartAt(p, path) == IF path.abs THEN ROOTINO ELSE cwd[p]

Creates(c) == c.op \in {"creat", "mkdir", "mknod"}

(* namex() from inode i along the elements s: nothing is left to look up   *)
(* when s is empty, and a path without elements has no parent.             *)
Namex(l, i, s) ==
  IF s # <<>> THEN [l EXCEPT !.pc = "walk", !.at = i, !.rest = s]
  ELSE IF l.par THEN NotFound(l, i)
  ELSE [l EXCEPT !.pc = l.call.op, !.at = i, !.rest = s]

Call(p, c) ==
  LET i == StartAt(p, c.path) IN
  /\ t[p].pc = "user" /\ cwd[p] # 0 /\ MayBegin
  /\ IF TableFull(i) THEN Panic("iget: no inodes")
     ELSE /\ iget(i)
          /\ Go(p, Namex([Idle EXCEPT !.call = c, !.par = Creates(c) \/ c.op = "unlink"],
                        i, c.path.elems))
          /\ UNCHANGED <<disk, inode, lock, proc, panic>>

(* namex(), one element: ilock(ip), look, iunlockput(ip). *)
Walk(p) ==
  LET l == t[p]
      i == l.at
      n == dirlookup(i, Head(l.rest))
      fail == NotFound(l, i)
  IN
  /\ l.pc = "walk" /\ l.rest # <<>> /\ lock[i] = Free
  /\ IF NoType(i) THEN Panic("ilock: no type")
     ELSE IF Loaded(i).type # "dir"
       THEN ilock(i) /\ Go(p, fail) /\ UNCHANGED <<disk, ref, lock, proc, panic>>
     ELSE IF l.par /\ Len(l.rest) = 1
       THEN /\ ilock(i) /\ Go(p, [l EXCEPT !.pc = IF l.ip # 0 THEN "link_new" ELSE l.call.op])
            /\ UNCHANGED <<disk, ref, lock, proc, panic>>
     ELSE IF n = 0
       THEN ilock(i) /\ Go(p, fail) /\ UNCHANGED <<disk, ref, lock, proc, panic>>
     ELSE IF TableFull(n) THEN Panic("iget: no inodes")
     ELSE /\ ilock(i) /\ iget(n)
          /\ Go(p, PutThen([l EXCEPT !.at = n, !.rest = Tail(@)], <<i>>, "walk"))
          /\ UNCHANGED <<disk, lock, proc, panic>>

(* Mutant of LastPut: the inode is freed although others refer to it. *)
Mut_LastPut(i) == inode[i].valid /\ inode[i].nlink = 0

(* iput(), under itable.lock: the last reference to an inode without links *)
(* is kept while it is freed, and its lock is taken; to wait for the lock  *)
(* with itable.lock held would be a panic in sched().                      *)
LastPut(i) == ref[i] = 1 /\ inode[i].valid /\ inode[i].nlink = 0

(* The reference goes; the entry is recycled with the last. *)
Unref(i) ==
  /\ ref' = [ref EXCEPT ![i] = @ - 1]
  /\ inode' = [inode EXCEPT ![i] = IF ref[i] = 1 THEN NoInode ELSE @]

(* The position after iput() of the first inode to put. *)
Continue(l) ==
  IF Len(l.put) > 1 THEN [l EXCEPT !.pc = "put", !.put = Tail(@)]
  ELSE IF l.then \in {"user", "exit"} THEN [Idle EXCEPT !.pc = l.then]
  ELSE LET m == [l EXCEPT !.pc = l.then, !.put = <<>>, !.then = "user"] IN
       IF l.then = "walk" THEN Namex(m, m.at, m.rest) ELSE m

Put(p) ==
  LET i == Head(t[p].put) IN
  /\ t[p].pc = "put" /\ ~LastPut(i)
  /\ Unref(i) /\ Go(p, Continue(t[p]))
  /\ UNCHANGED <<disk, lock, proc, panic>>

PutLast(p) ==
  LET i == Head(t[p].put) IN
  /\ t[p].pc = "put" /\ LastPut(i)
  /\ IF lock[i] # Free THEN Panic("sched locks")
     ELSE /\ lock' = [lock EXCEPT ![i] = p]
          /\ Go(p, [t[p] EXCEPT !.pc = "free"])
          /\ UNCHANGED <<disk, inode, ref, proc, panic>>

(* itrunc(), ip->type = 0, iupdate(): ialloc() may find the inode now. *)
FreeInode(p) ==
  LET i == Head(t[p].put) IN
  /\ t[p].pc = "free"
  /\ inode' = [inode EXCEPT ![i].type = Free]
  /\ dinode' = [dinode EXCEPT ![i] = [type |-> Free, nlink |-> inode[i].nlink]]
  /\ ents' = [ents EXCEPT ![i] = [n \in Entries |-> 0]]
  /\ Go(p, [t[p] EXCEPT !.pc = "invalidate"])
  /\ UNCHANGED <<ref, lock, proc, panic>>

(* ip->valid = 0, releasesleep() ... *)
Invalidate(p) ==
  LET i == Head(t[p].put) IN
  /\ t[p].pc = "invalidate"
  /\ inode' = [inode EXCEPT ![i] = NoInode]
  /\ lock' = [lock EXCEPT ![i] = Free]
  /\ Go(p, [t[p] EXCEPT !.pc = "drop"])
  /\ UNCHANGED <<disk, ref, proc, panic>>

(* ... and ip->ref-- under itable.lock again. *)
Drop(p) ==
  /\ t[p].pc = "drop"
  /\ Unref(Head(t[p].put)) /\ Go(p, Continue(t[p]))
  /\ UNCHANGED <<disk, lock, proc, panic>>

-----------------------------------------------------------------------------
(* The end of sys_open(), with ip locked and not a directory to be written *)
(* to: filealloc() and fdalloc() take the first free ones, if any.         *)
FreeFds(p) == {d \in Fds : ofile[p][d] = 0}
FreeFiles == {f \in Files : file[f].ref = 0}

Openable(p, i) == Loaded(i).type # "nodev" /\ FreeFiles # {} /\ FreeFds(p) # {}

Opened(p, i) ==
  IF Openable(p, i)
    THEN /\ file' = [file EXCEPT ![Min(FreeFiles)] = [ref |-> 1, ip |-> i]]
         /\ ofile' = [ofile EXCEPT ![p][Min(FreeFds(p))] = Min(FreeFiles)]
         /\ Go(p, Idle) /\ UNCHANGED cwd
    ELSE Go(p, PutReturn(<<i>>)) /\ UNCHANGED proc

(* sys_open() without O_CREATE, after namei(). *)
Open(p) ==
  LET i == t[p].at IN
  /\ t[p].pc = "open" /\ lock[i] = Free
  /\ IF NoType(i) THEN Panic("ilock: no type")
     ELSE /\ ilock(i)
          /\ IF Loaded(i).type = "dir" /\ t[p].call.write
               THEN Go(p, PutReturn(<<i>>)) /\ UNCHANGED proc
               ELSE Opened(p, i)
          /\ UNCHANGED <<disk, ref, lock, panic>>

(* exec() reads the program under ip->lock and puts the inode; it takes no *)
(* other inode meanwhile.                                                  *)
Exec(p) ==
  LET i == t[p].at IN
  /\ t[p].pc = "exec" /\ lock[i] = Free
  /\ IF NoType(i) THEN Panic("ilock: no type")
     ELSE /\ ilock(i)
          /\ Go(p, PutReturn(<<i>>))
          /\ UNCHANGED <<disk, ref, lock, proc, panic>>

(* sys_chdir() after namei(): the old directory is put, then replaced. *)
Chdir(p) ==
  LET i == t[p].at IN
  /\ t[p].pc = "chdir" /\ lock[i] = Free
  /\ IF NoType(i) THEN Panic("ilock: no type")
     ELSE /\ ilock(i)
          /\ IF Loaded(i).type = "dir"
               THEN Go(p, PutThen([Idle EXCEPT !.at = i], <<cwd[p]>>, "chdir_end")) /\ cwd' = [cwd EXCEPT ![p] = 0]
               ELSE Go(p, PutReturn(<<i>>)) /\ UNCHANGED cwd
          /\ UNCHANGED <<disk, ref, lock, file, ofile, panic>>

ChdirEnd(p) ==
  /\ t[p].pc = "chdir_end"
  /\ cwd' = [cwd EXCEPT ![p] = t[p].at]
  /\ Go(p, Idle)
  /\ UNCHANGED <<disk, table, file, ofile, panic>>

-----------------------------------------------------------------------------
(* create() after nameiparent(): ilock(dp) and look for the name. *)
LastName(l) == Head(l.rest)

FreeInums == {i \in Inums : dinode[i].type = Free}

Create(p) ==
  LET l == t[p]
      dp == l.at
      n == dirlookup(dp, LastName(l))
      i == IF n # 0 THEN n ELSE Min(FreeInums)
  IN
  /\ Creates(l.call) /\ l.pc = l.call.op /\ lock[dp] = Free
  /\ IF NoType(dp) THEN Panic("ilock: no type")
     ELSE IF Loaded(dp).type # "dir" THEN Panic("dirlookup not DIR")
     ELSE IF n = 0 /\ FreeInums = {} THEN Panic("ialloc: no inodes")
     ELSE IF TableFull(i) THEN Panic("iget: no inodes")
     ELSE /\ ilock(dp) /\ iget(i)
          /\ IF n # 0
               THEN /\ Go(p, PutThen([l EXCEPT !.at = 0, !.ip = i, !.rest = <<>>], <<dp>>, "create_old"))
                    /\ UNCHANGED <<dinode, lock>>
               ELSE /\ dinode' = [dinode EXCEPT ![i] = [type |-> l.call.type, nlink |-> 0]]
                    /\ lock' = [lock EXCEPT ![dp] = p]
                    /\ Go(p, [l EXCEPT !.pc = "create_new", !.ip = i])
          /\ UNCHANGED <<ents, proc, panic>>

(* The name exists: open(O_CREATE) takes a file or a device that is there. *)
CreateOld(p) ==
  LET i == t[p].ip IN
  /\ t[p].pc = "create_old" /\ lock[i] = Free
  /\ IF NoType(i) THEN Panic("ilock: no type")
     ELSE /\ ilock(i)
          /\ IF t[p].call.op = "creat" /\ Loaded(i).type # "dir"
               THEN Opened(p, i)
               ELSE Go(p, PutReturn(<<i>>)) /\ UNCHANGED proc
          /\ UNCHANGED <<disk, ref, lock, panic>>

(* The new inode, locked while dp is: nlink, the dots, and the entry. *)
CreateNew(p) ==
  LET l == t[p]
      i == l.ip
      dp == l.at
      dir == l.call.type = "dir"
      up == IF dir THEN inode[dp].nlink + 1 ELSE inode[dp].nlink
      dots == IF dir THEN [n \in Entries |-> CASE n = "." -> i [] n = ".." -> dp [] OTHER -> ents[i][n]]
              ELSE ents[i]
  IN
  /\ l.pc = "create_new" /\ lock[i] = Free
  /\ IF NoType(i) THEN Panic("ilock: no type")
     ELSE IF dir /\ (ents[i]["."] # 0 \/ ents[i][".."] # 0) THEN Panic("create dots")
     ELSE IF ents[dp][LastName(l)] # 0 THEN Panic("create: dirlink")
     ELSE /\ inode' = [inode EXCEPT ![i] = [Loaded(i) EXCEPT !.nlink = 1], ![dp].nlink = up]
          /\ dinode' = [dinode EXCEPT ![i] = [type |-> Loaded(i).type, nlink |-> 1],
                                      ![dp].nlink = up]
          /\ ents' = [ents EXCEPT ![i] = dots, ![dp][LastName(l)] = i]
          /\ lock' = [lock EXCEPT ![i] = p, ![dp] = Free]
          /\ Go(p, PutThen([l EXCEPT !.at = 0, !.rest = <<>>], <<dp>>, "created"))
          /\ UNCHANGED <<ref, proc, panic>>

(* create() returns ip locked: sys_open() goes on, the others let it go. *)
Created(p) ==
  LET i == t[p].ip IN
  /\ t[p].pc = "created"
  /\ lock' = [lock EXCEPT ![i] = Free]
  /\ IF t[p].call.op = "creat" THEN Opened(p, i)
     ELSE Go(p, PutReturn(<<i>>)) /\ UNCHANGED proc
  /\ UNCHANGED <<disk, inode, ref, panic>>

-----------------------------------------------------------------------------
(* sys_link() after namei(old): the link is counted before it is made. *)
Link(p) ==
  LET l == t[p]
      i == l.at
  IN
  /\ l.pc = "link" /\ lock[i] = Free
  /\ IF NoType(i) THEN Panic("ilock: no type")
     ELSE IF Loaded(i).type = "dir"
       THEN /\ ilock(i) /\ Go(p, PutReturn(<<i>>))
            /\ UNCHANGED <<disk, ref, lock, proc, panic>>
       ELSE /\ SetNlink(i, Loaded(i).nlink + 1)
            /\ Go(p, [l EXCEPT !.pc = "link_name", !.at = 0, !.ip = i])
            /\ UNCHANGED <<ents, ref, lock, proc, panic>>

(* nameiparent(new) starts. *)
LinkName(p) ==
  LET s == StartAt(p, t[p].call.new) IN
  /\ t[p].pc = "link_name"
  /\ IF TableFull(s) THEN Panic("iget: no inodes")
     ELSE /\ iget(s)
          /\ Go(p, Namex([t[p] EXCEPT !.par = TRUE], s, t[p].call.new.elems))
          /\ UNCHANGED <<disk, inode, lock, proc, panic>>

(* ilock(dp) and dirlink(): the name must be new. *)
LinkNew(p) ==
  LET l == t[p]
      dp == l.at
      n == dirlookup(dp, LastName(l))
  IN
  /\ l.pc = "link_new" /\ lock[dp] = Free
  /\ IF NoType(dp) THEN Panic("ilock: no type")
     ELSE IF Loaded(dp).type # "dir" THEN Panic("dirlookup not DIR")
     ELSE IF n = 0
       THEN /\ ilock(dp) /\ dirlink(dp, LastName(l), l.ip)
            /\ Go(p, PutReturn(<<dp, l.ip>>))
            /\ UNCHANGED <<dinode, ref, lock, proc, panic>>
     ELSE IF TableFull(n) THEN Panic("iget: no inodes")
     ELSE /\ ilock(dp) /\ iget(n) /\ lock' = [lock EXCEPT ![dp] = p]
          /\ Go(p, PutThen([Idle EXCEPT !.at = dp, !.ip = l.ip], <<n>>, "link_exists"))
          /\ UNCHANGED <<disk, proc, panic>>

LinkExists(p) ==
  LET dp == t[p].at IN
  /\ t[p].pc = "link_exists"
  /\ lock' = [lock EXCEPT ![dp] = Free]
  /\ Go(p, NotFound(t[p], dp))
  /\ UNCHANGED <<disk, inode, ref, proc, panic>>

(* bad: the count is taken back. *)
LinkBad(p) ==
  LET i == t[p].ip IN
  /\ t[p].pc = "link_bad" /\ lock[i] = Free
  /\ IF NoType(i) THEN Panic("ilock: no type")
     ELSE /\ SetNlink(i, Loaded(i).nlink - 1)
          /\ Go(p, PutReturn(<<i>>))
          /\ UNCHANGED <<ents, ref, lock, proc, panic>>

-----------------------------------------------------------------------------
(* Mutant of MayUnlink: "." and ".." may be removed, "." being dp itself. *)
Mut_MayUnlink(name) == TRUE

(* "Cannot unlink "." or ".."." *)
MayUnlink(name) == name \in Names

(* sys_unlink() after nameiparent(): ilock(dp), find the entry ... *)
Unlink(p) ==
  LET l == t[p]
      dp == l.at
      n == dirlookup(dp, LastName(l))
  IN
  /\ l.pc = "unlink" /\ lock[dp] = Free
  /\ IF NoType(dp) THEN Panic("ilock: no type")
     ELSE IF MayUnlink(LastName(l)) /\ Loaded(dp).type # "dir" THEN Panic("dirlookup not DIR")
     ELSE IF ~MayUnlink(LastName(l)) \/ n = 0
       THEN /\ ilock(dp) /\ Go(p, PutReturn(<<dp>>))
            /\ UNCHANGED <<disk, ref, lock, proc, panic>>
     ELSE IF TableFull(n) THEN Panic("iget: no inodes")
     ELSE /\ ilock(dp) /\ iget(n) /\ lock' = [lock EXCEPT ![dp] = p]
          /\ Go(p, [l EXCEPT !.pc = "unlink_entry", !.ip = n])
          /\ UNCHANGED <<disk, proc, panic>>

isdirempty(i) == \A n \in Names : ents[i][n] = 0

(* ... ilock(ip) with dp locked, and clear the entry; ip stays locked ... *)
UnlinkEntry(p) ==
  LET l == t[p]
      dp == l.at
      i == l.ip
      dir == Loaded(i).type = "dir"
      up == IF dir THEN inode[dp].nlink - 1 ELSE inode[dp].nlink
  IN
  /\ l.pc = "unlink_entry" /\ lock[i] = Free
  /\ IF NoType(i) THEN Panic("ilock: no type")
     ELSE IF Loaded(i).nlink < 1 THEN Panic("unlink: nlink < 1")
     ELSE IF dir /\ ~isdirempty(i)
       THEN /\ ilock(i) /\ Go(p, PutThen([Idle EXCEPT !.at = dp], <<i>>, "unlink_bad"))
            /\ UNCHANGED <<disk, ref, lock, proc, panic>>
     ELSE /\ inode' = [inode EXCEPT ![i] = Loaded(i), ![dp].nlink = up]
          /\ dinode' = [dinode EXCEPT ![dp].nlink = up]
          /\ dirlink(dp, LastName(l), 0)
          /\ lock' = [lock EXCEPT ![i] = p, ![dp] = Free]
          /\ Go(p, PutThen([Idle EXCEPT !.ip = i], <<dp>>, "unlink_count"))
          /\ UNCHANGED <<ref, proc, panic>>

(* ... until its links are counted. *)
UnlinkCount(p) ==
  LET i == t[p].ip IN
  /\ t[p].pc = "unlink_count"
  /\ SetNlink(i, inode[i].nlink - 1)
  /\ lock' = [lock EXCEPT ![i] = Free]
  /\ Go(p, PutReturn(<<i>>))
  /\ UNCHANGED <<ents, ref, proc, panic>>

(* The directory was not empty: iunlockput(dp). *)
UnlinkBad(p) ==
  LET dp == t[p].at IN
  /\ t[p].pc = "unlink_bad"
  /\ lock' = [lock EXCEPT ![dp] = Free]
  /\ Go(p, PutReturn(<<dp>>))
  /\ UNCHANGED <<disk, inode, ref, proc, panic>>

-----------------------------------------------------------------------------
(* filestat(), and fileread() and filewrite() as far as the inode goes. *)
Use(p, d) ==
  LET i == file[ofile[p][d]].ip IN
  /\ t[p].pc = "user" /\ ofile[p][d] # 0 /\ lock[i] = Free
  /\ IF NoType(i) THEN Panic("ilock: no type")
     ELSE ilock(i) /\ UNCHANGED <<disk, ref, lock, proc, t, panic>>

(* fileclose(): the last close lets the inode go, in a transaction. *)
Close(p, d, then) ==
  LET f == ofile[p][d] IN
  /\ f # 0
  /\ ofile' = [ofile EXCEPT ![p][d] = 0]
  /\ IF file[f].ref < 1 THEN panic' = "fileclose" /\ UNCHANGED <<file, t>>
     ELSE IF file[f].ref > 1
       THEN /\ file' = [file EXCEPT ![f].ref = @ - 1]
            /\ UNCHANGED <<t, panic>>
       ELSE /\ file' = [file EXCEPT ![f] = [ref |-> 0, ip |-> 0]]
            /\ Go(p, [PutThen(Idle, <<file[f].ip>>, then) EXCEPT !.pc = "closing"])
            /\ UNCHANGED panic
  /\ UNCHANGED <<disk, table, cwd>>

sys_close(p, d) == t[p].pc = "user" /\ Close(p, d, "user")

Closing(p) ==
  /\ t[p].pc = "closing" /\ MayBegin
  /\ Go(p, [t[p] EXCEPT !.pc = "put"])
  /\ UNCHANGED <<disk, table, proc, panic>>

(* filedup() of each open file of p, and idup() of an inode. *)
filedup(p) ==
  file' = [f \in Files |-> [file[f] EXCEPT !.ref =
             @ + Cardinality({d \in Fds : ofile[p][d] = f})]]
idup(i) == ref' = [ref EXCEPT ![i] = @ + 1]

(* fork(): the child shares the open files and the directory. *)
Fork(p, q) ==
  /\ t[p].pc = "user" /\ cwd[p] # 0 /\ t[q].pc = "user" /\ cwd[q] = 0
  /\ ofile' = [ofile EXCEPT ![q] = ofile[p]]
  /\ filedup(p)
  /\ cwd' = [cwd EXCEPT ![q] = cwd[p]] /\ idup(cwd[p])
  /\ UNCHANGED <<disk, inode, lock, t, panic>>

(* exit(): close the files, in order, then leave the directory. *)
Exit(p) ==
  /\ t[p].pc = "user" /\ cwd[p] # 0 /\ p # First
  /\ Go(p, [Idle EXCEPT !.pc = "exit"])
  /\ UNCHANGED <<disk, table, proc, panic>>

ExitFile(p) ==
  /\ t[p].pc = "exit"
  /\ LET open == Fds \ FreeFds(p) IN open # {} /\ Close(p, Min(open), "exit")

ExitCwd(p) ==
  /\ t[p].pc = "exit" /\ FreeFds(p) = Fds /\ MayBegin
  /\ Go(p, PutReturn(<<cwd[p]>>))
  /\ cwd' = [cwd EXCEPT ![p] = 0]
  /\ UNCHANGED <<disk, table, file, ofile, panic>>

-----------------------------------------------------------------------------
Step(p) ==
  \/ \E c \in Calls[p] : Call(p, c)
  \/ Walk(p) \/ Put(p) \/ PutLast(p) \/ FreeInode(p) \/ Invalidate(p) \/ Drop(p)
  \/ Open(p) \/ Exec(p) \/ Chdir(p) \/ ChdirEnd(p)
  \/ Create(p) \/ CreateOld(p) \/ CreateNew(p) \/ Created(p)
  \/ Link(p) \/ LinkName(p) \/ LinkNew(p) \/ LinkExists(p) \/ LinkBad(p)
  \/ Unlink(p) \/ UnlinkEntry(p) \/ UnlinkCount(p) \/ UnlinkBad(p)
  \/ \E d \in Fds : Use(p, d) \/ sys_close(p, d)
  \/ Closing(p) \/ (\E q \in Procs : Fork(p, q)) \/ Exit(p) \/ ExitFile(p) \/ ExitCwd(p)

(* The kernel runs out of inodes: it panics, and stays so. *)
Resource == {"ialloc: no inodes", "iget: no inodes"}

Halted == panic \in Resource /\ UNCHANGED vars

Next == Halted \/ (panic = "" /\ \E p \in Procs : Step(p))

Spec == Init /\ [][Next]_vars

-----------------------------------------------------------------------------
(* The links to inode i in directories that exist: the entries that name   *)
(* it and, for a directory, the ".." of those it has entries for; nothing  *)
(* names the root.                                                         *)
IsDir(i) == dinode[i].type = "dir"
Links(i) ==
  Cardinality({x \in Inums \X Names : IsDir(x[1]) /\ ents[x[1]][x[2]] = i})
    + (IF IsDir(i) THEN Cardinality({n \in Names : ents[i][n] # 0 /\ IsDir(ents[i][n])}) ELSE 0)
    + (IF i = ROOTINO THEN 1 ELSE 0)

(* An inode with a link is allocated and knows of the link, on the disk    *)
(* and in the table, at every moment of every call: no entry outlives the  *)
(* inode that it names, whatever races with link(), unlink() and create(), *)
(* or takes the inode while iput() is still freeing it.                    *)
LinksCounted ==
  \A i \in Inums :
    /\ Links(i) > 0 => dinode[i].type # Free
    /\ dinode[i].nlink >= Links(i)
    /\ inode[i].valid /\ lock[i] = Free =>
         inode[i].type = dinode[i].type /\ inode[i].nlink = dinode[i].nlink

(* The inode whose sleep lock process p is about to take, 0 if none, and   *)
(* the processes that p waits for, directly or through others.             *)
Wants(p) ==
  CASE t[p].pc \in {"create_old", "create_new", "unlink_entry", "link_bad"} -> t[p].ip
    [] t[p].pc \in {"walk", "open", "exec", "chdir", "creat", "mkdir", "mknod", "unlink",
                    "link", "link_new"} -> t[p].at
    [] OTHER -> 0
Blockers(S) == {lock[Wants(p)] : p \in {q \in S : Wants(q) # 0}} \ {Free}
WaitsFor(p) ==
  LET W[k \in Nat] == IF k = 0 THEN Blockers({p}) ELSE W[k - 1] \cup Blockers(W[k - 1])
  IN W[Cardinality(Procs)]

(* unlink() and create() lock a second inode with the directory locked:    *)
(* no process ever waits for itself, directly or through others.           *)
WaitsAcyclic ==
  \A p \in Procs : Wants(p) # 0 /\ lock[Wants(p)] # Free => p \notin WaitsFor(p)

(* The pointers to inode i that the calls in progress hold. *)
LocalRefs(i) ==
  Cardinality({p \in Procs : t[p].at = i}) + Cardinality({p \in Procs : t[p].ip = i})
    + Cardinality({x \in Procs \X (1 .. 3) : x[2] <= Len(t[x[1]].put) /\ t[x[1]].put[x[2]] = i})

(* ip->ref counts the open files, the current directories and the pointers *)
(* that calls in progress hold, no more and no less (fs.c:131 "Otherwise   *)
(* ip->ref tracks the number of in-memory pointers to the entry"), and a   *)
(* struct file the descriptors.                                            *)
RefsExact ==
  /\ \A i \in Inums :
       ref[i] = Cardinality({f \in Files : file[f].ip = i})
                + Cardinality({p \in Procs : cwd[p] = i})
                + LocalRefs(i)
  /\ \A f \in Files :
       file[f].ref = Cardinality({x \in Procs \X Fds : ofile[x[1]][x[2]] = f})

(* None of the assertions of the inode, directory and file code fails.     *)
NoPanic == panic \in {""} \cup Resource
=============================================================================
