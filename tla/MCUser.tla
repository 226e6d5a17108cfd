------------------------------- MODULE MCUser -------------------------------
(***************************************************************************)
(* Instances for TLC of what user programs see and are made of: their      *)
(* memory, init and the shell with its parser, malloc(), grep and the      *)
(* library functions, and the file system that mkfs gives them.  A         *)
(* behaviour runs one of the models, the one that the variable part names. *)
(***************************************************************************)
EXTENDS Integers, Sequences

CONSTANTS
  Procs, First, LEVELS, FAN, PGSIZE, MinPages, MaxPages, MaxCalls,       \* Memory
  MAXARGS, MaxLine,                                                      \* ShellParser
  NPROC, NOFILE, NPIPE, PIPESIZE, MaxEvents,                             \* Shell
  HEAP, CHUNK, Requests,                                                 \* Umalloc
  BUFSIZE, MaxText, MaxRe,                                               \* Grep
  DIRSIZ, MaxLen, UINT,                                                  \* Library
  BSIZE, NDIRECT, NINDIRECT, NMETA, FSSIZE, MaxFiles                     \* Mkfs

VARIABLES
  part,
  m, pagetable, sz, trapframe, image, calls,
  line,
  proc, pipe, lines, fails, panicked,
  h, used, other, refused,
  re, text, pos, buf, out, done,
  mem,
  dinode, sect, freeblock, bitmap, given, state

memoryVars == <<m, pagetable, sz, trapframe, image, calls>>
shellVars == <<proc, pipe, lines, fails, panicked>>
mallocVars == <<h, used, other, refused>>
grepVars == <<re, text, pos, buf, out, done>>
mkfsVars == <<dinode, sect, freeblock, bitmap, given, state>>

-----------------------------------------------------------------------------
Seg(va, filesz, memsz, tag) ==
  [va |-> va, filesz |-> filesz, memsz |-> memsz, tag |-> tag, read |-> TRUE]

Good == [elf |-> TRUE, name |-> "sh", args |-> 1, fetch |-> TRUE, fit |-> TRUE,
         segs |-> <<Seg(0, 1, 1, "text"), Seg(2, 1, 2, "data")>>]

(* A program, and what can be wrong with it or with its arguments. *)
Programs ==
  { Good,
    [Good EXCEPT !.elf = FALSE],
    [Good EXCEPT !.args = 2, !.fetch = FALSE],
    [Good EXCEPT !.fit = FALSE],
    [Good EXCEPT !.segs[2].read = FALSE],
    [Good EXCEPT !.segs[2].va = 3],
    [Good EXCEPT !.segs[2].filesz = 3],
    [Good EXCEPT !.segs = <<Seg(0, 3, 3, "text")>>, !.name = "ls"] }

Amounts == {-5, -1, 1, 3}
Copies == [a : {0, 3}, len : {1, 3}, x : {"x"}]

X(name) == [type |-> "EXEC", argv |-> name]
P(l, r) == [type |-> "PIPE", left |-> l, right |-> r]
L(l, r) == [type |-> "LIST", left |-> l, right |-> r]
B(c) == [type |-> "BACK", cmd |-> c]
R(c, f) == [type |-> "REDIR", cmd |-> c, fd |-> f]

(* Two pipelines of three, one of them with a command that does not exist; *)
(* and lists with a command in the background, before redirections and     *)
(* before a pipeline.                                                      *)
Commands ==
  { P(P(X("echo"), X("cat")), X("none")),
    P(X("echo"), P(X("cat"), X("wc"))),
    L(B(X("wc")), R(R(X("cat"), 1), 0)),
    L(B(X("echo")), P(X("echo"), X("wc"))) }

-----------------------------------------------------------------------------
Mem == INSTANCE Memory
Par == INSTANCE ShellParser
Sh == INSTANCE Shell
Mal == INSTANCE Umalloc
Gr == INSTANCE Grep
Lib == INSTANCE Library
Img == INSTANCE Mkfs WITH text <- given

Off == "off"

MemoryOff ==
  /\ m = Off /\ pagetable = Off /\ sz = Off /\ trapframe = Off /\ image = Off /\ calls = Off
ParserOff == line = Off
ShellOff == proc = Off /\ pipe = Off /\ lines = Off /\ fails = Off /\ panicked = Off
MallocOff == h = Off /\ used = Off /\ other = Off /\ refused = Off
GrepOff == re = Off /\ text = Off /\ pos = Off /\ buf = Off /\ out = Off /\ done = Off
LibraryOff == mem = Off
MkfsOff ==
  /\ dinode = Off /\ sect = Off /\ freeblock = Off /\ bitmap = Off /\ given = Off /\ state = Off

UserInit ==
  /\ part \in {"memory", "parser", "shell", "malloc", "grep", "library", "mkfs"}
  /\ IF part = "memory" THEN Mem!Init ELSE MemoryOff
  /\ IF part = "parser" THEN Par!Init ELSE ParserOff
  /\ IF part = "shell" THEN Sh!Init ELSE ShellOff
  /\ IF part = "malloc" THEN Mal!Init ELSE MallocOff
  /\ IF part = "grep" THEN Gr!Init ELSE GrepOff
  /\ IF part = "library" THEN Lib!Init ELSE LibraryOff
  /\ IF part = "mkfs" THEN Img!Init ELSE MkfsOff

(* The bounds on system calls and on lines typed are reached. *)
Finished ==
  \/ part = "memory" /\ calls = MaxCalls
  \/ /\ part = "shell"
     /\ \/ panicked
        \/ /\ lines + fails >= MaxEvents
           /\ \A p \in Sh!Live \ {Sh!init} : proc[p].at = "prompt"

UserNext ==
  /\ UNCHANGED part
  /\ \/ /\ part = "memory" /\ Mem!Next
        /\ UNCHANGED <<line, shellVars, mallocVars, grepVars, mem, mkfsVars>>
     \/ /\ part = "parser" /\ Par!Next
        /\ UNCHANGED <<memoryVars, shellVars, mallocVars, grepVars, mem, mkfsVars>>
     \/ /\ part = "shell" /\ Sh!Next
        /\ UNCHANGED <<memoryVars, line, mallocVars, grepVars, mem, mkfsVars>>
     \/ /\ part = "malloc" /\ Mal!Next
        /\ UNCHANGED <<memoryVars, line, shellVars, grepVars, mem, mkfsVars>>
     \/ /\ part = "grep" /\ Gr!Next
        /\ UNCHANGED <<memoryVars, line, shellVars, mallocVars, mem, mkfsVars>>
     \/ /\ part = "library" /\ Lib!Next
        /\ UNCHANGED <<memoryVars, line, shellVars, mallocVars, grepVars, mkfsVars>>
     \/ /\ part = "mkfs" /\ Img!Next
        /\ UNCHANGED <<memoryVars, line, shellVars, mallocVars, grepVars, mem>>
     \/ /\ Finished
        /\ UNCHANGED <<memoryVars, line, shellVars, mallocVars, grepVars, mem, mkfsVars>>

UserSpec ==
  UserInit /\ [][UserNext]_<<part, memoryVars, line, shellVars, mallocVars, grepVars, mem, mkfsVars>>

-----------------------------------------------------------------------------
(* Every physical page is free or in one place of one process, also after  *)
(* a call that failed half way.                                            *)
PagesAccounted == part = "memory" => Mem!PagesAccounted

(* A process finds in its memory what fork(), exec(), sbrk() and the       *)
(* copies of the kernel should have put there, and nothing of others.      *)
MemoryRight == part = "memory" => Mem!MemoryRight

(* The parser of the shell accepts the lines of its grammar and builds the *)
(* tree that the grammar gives them.                                       *)
ParseRight == part = "parser" => Par!ParseRight

(* Every process of a command has the descriptors that the command says,   *)
(* and the shell and init wait for the right children.                     *)
ShellRight == part = "shell" => Sh!ShellRight

(* The blocks that malloc() has given out and its free list share nothing, *)
(* and together are the heap.                                              *)
HeapRight == part = "malloc" => Mal!HeapRight


(* The image that mkfs writes is a consistent file system. *)
ImageRight == part = "mkfs" => Img!ImageRight
=============================================================================
