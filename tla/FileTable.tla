----------------------------- MODULE FileTable ------------------------------
(***************************************************************************)
(* Descriptors and the table of open files: kernel/file.c, pipealloc() of  *)
(* kernel/pipe.c, and the system calls of kernel/sysfile.c and proc.c that *)
(* make, share and drop descriptors.                                       *)
(*                                                                         *)
(* A step is one use of ftable.lock, pi->lock or the page allocator with   *)
(* the private work around it: p->ofile[] belongs to the process, and so   *)
(* does a struct file that no descriptor names yet.  There is one inode,   *)
(* of which only ip->ref is kept; module Fs has the rest of it, and module *)
(* Pipe what goes through a pipe.                                          *)
(***************************************************************************)
EXTENDS Integers, Sequences, FiniteSets, FiniteSetsExt

CONSTANTS
  Procs, First,   \* slots of processes, and the one that starts
  NFILE, NOFILE,  \* the sizes of ftable and of p->ofile[]
  Pages           \* the pages that kalloc() may have for pipes

VARIABLES
  file,    \* ftable.file[]: ref, type, and the pipe and writable of a pipe
  ofile,   \* p->ofile[], 0 where a descriptor is free
  pipe,    \* the pipes by page: which ends are open; neither in a free page
  iref,    \* ip->ref
  t,       \* where a process is, and the locals of its call
  panicked

vars == <<file, ofile, pipe, iref, t, panicked>>

Files == 1 .. NFILE
Fds == 0 .. NOFILE - 1
Ends == {"r", "w"}

(* The locals: the files that the call has in hand, the copy ff that       *)
(* fileclose() makes, and what follows the last fileclose().               *)
At(l) == [pc |-> l, todo |-> <<>>, ff |-> <<>>, then |-> "user"]

(* An entry of ftable that is not in use.  What the code leaves in f->pipe *)
(* and the like when it sets f->type = FD_NONE is erased here.             *)
None == [ref |-> 0, type |-> "NONE", pi |-> 0, end |-> "r"]

Init ==
  /\ file = [f \in Files |-> None]
  /\ ofile = [p \in Procs |-> [d \in Fds |-> 0]]
  /\ pipe = [k \in Pages |-> {}]
  /\ iref = 0
  /\ t = [p \in Procs |-> At(IF p = First THEN "user" ELSE "unused")]
  /\ panicked = FALSE

-----------------------------------------------------------------------------
Local(p, l) == t' = [t EXCEPT ![p] = l]
Goto(p, l) == Local(p, [t[p] EXCEPT !.pc = l])

(* filealloc() and fdalloc() take the first free entry. *)
Unused == {f \in Files : file[f].ref = 0}
filealloc == [file EXCEPT ![Min(Unused)].ref = 1]
FreeFds(p) == {d \in Fds : ofile[p][d] = 0}
fdalloc(p, f) == [ofile EXCEPT ![p][Min(FreeFds(p))] = f]

(* Go on to fileclose() the files s, and then to l. *)
CloseAll(p, s, l) == Local(p, [At("close") EXCEPT !.todo = s, !.then = l])

(* The locals l after one fileclose(). *)
Closed(l) == IF l.todo = <<>> THEN At(l.then) ELSE [l EXCEPT !.pc = "close"]

(* The file is released with its type. *)
Mut_Release(f) == [file EXCEPT ![f].ref = 0]

(* The last fileclose(): f->ref = 0 and f->type = FD_NONE. *)
Release(f) == [file EXCEPT ![f] = None]

(* fileclose(): the count, under ftable.lock. *)
Fileclose(p) ==
  LET f == Head(t[p].todo)
      ff == file[f]
      rest == [t[p] EXCEPT !.todo = Tail(@)]
  IN
  /\ t[p].pc = "close"
  /\ IF ff.ref < 1 THEN panicked' = TRUE /\ UNCHANGED <<file, t>>
     ELSE /\ file' = IF ff.ref > 1 THEN [file EXCEPT ![f].ref = @ - 1] ELSE Release(f)
          /\ Local(p, CASE ff.ref = 1 /\ ff.type = "PIPE" -> [rest EXCEPT !.pc = "pipeclose",
                                                                          !.ff = <<ff.pi, ff.end>>]
                        [] ff.ref = 1 /\ ff.type = "INODE" -> [rest EXCEPT !.pc = "iput"]
                        [] OTHER -> Closed(rest))
          /\ UNCHANGED panicked
  /\ UNCHANGED <<ofile, pipe, iref>>

(* fileclose(): what the file was, without ftable.lock.  The second end of *)
(* a pipe to close frees its page.                                         *)
Pipeclose(p) ==
  /\ t[p].pc = "pipeclose"
  /\ pipe' = [pipe EXCEPT ![t[p].ff[1]] = @ \ {t[p].ff[2]}]
  /\ Local(p, Closed([t[p] EXCEPT !.ff = <<>>]))
  /\ UNCHANGED <<file, ofile, iref, panicked>>

Iput(p) ==
  /\ t[p].pc = "iput" /\ iref' = iref - 1
  /\ Local(p, Closed(t[p]))
  /\ UNCHANGED <<file, ofile, pipe, panicked>>

-----------------------------------------------------------------------------
(* sys_close(). *)
Close(p, d) ==
  /\ t[p].pc = "user" /\ ofile[p][d] # 0
  /\ ofile' = [ofile EXCEPT ![p][d] = 0]
  /\ CloseAll(p, <<ofile[p][d]>>, "user")
  /\ UNCHANGED <<file, pipe, iref, panicked>>

(* filedup() of the files of a set of descriptors. *)
filedup(p, D) ==
  IF \E d \in D : file[ofile[p][d]].ref < 1 THEN panicked' = TRUE /\ UNCHANGED file
  ELSE /\ file' = [f \in Files |-> [file[f] EXCEPT !.ref = @ + Cardinality({d \in D : ofile[p][d] = f})]]
       /\ UNCHANGED panicked

(* sys_dup(). *)
Dup(p, d) ==
  /\ t[p].pc = "user" /\ ofile[p][d] # 0 /\ FreeFds(p) # {}
  /\ ofile' = fdalloc(p, ofile[p][d])
  /\ filedup(p, {d})
  /\ UNCHANGED <<pipe, iref, t>>

-----------------------------------------------------------------------------
(* sys_pipe() and pipealloc(): two files ... *)
Pipe(p) ==
  /\ t[p].pc = "user" /\ Unused # {}
  /\ file' = filealloc /\ Local(p, [At("pipe_wf") EXCEPT !.todo = <<Min(Unused)>>])
  /\ UNCHANGED <<ofile, pipe, iref, panicked>>

PipeWf(p) ==
  /\ t[p].pc = "pipe_wf"
  /\ IF Unused = {} THEN CloseAll(p, t[p].todo, "user") /\ UNCHANGED file
     ELSE /\ file' = filealloc
          /\ Local(p, [t[p] EXCEPT !.pc = "pipe_page", !.todo = Append(@, Min(Unused))])
  /\ UNCHANGED <<ofile, pipe, iref, panicked>>

(* ... and a page, for which kalloc() may find none ... *)
PipePage(p) ==
  LET rf == t[p].todo[1] wf == t[p].todo[2] IN
  /\ t[p].pc = "pipe_page"
  /\ \/ CloseAll(p, t[p].todo, "user") /\ UNCHANGED <<file, pipe>>
     \/ \E k \in Pages :
          /\ pipe[k] = {} /\ pipe' = [pipe EXCEPT ![k] = Ends]
          /\ file' = [file EXCEPT ![rf] = [@ EXCEPT !.type = "PIPE", !.pi = k, !.end = "r"],
                                 ![wf] = [@ EXCEPT !.type = "PIPE", !.pi = k, !.end = "w"]]
          /\ Goto(p, "pipe_fds")
  /\ UNCHANGED <<ofile, iref, panicked>>

(* ... two descriptors, and the copy of their numbers to the caller, which *)
(* may fail.                                                               *)
PipeFds(p) ==
  /\ t[p].pc = "pipe_fds"
  /\ \/ /\ Cardinality(FreeFds(p)) > 1
        /\ LET d0 == Min(FreeFds(p)) d1 == Min(FreeFds(p) \ {d0}) IN
             ofile' = [ofile EXCEPT ![p][d0] = t[p].todo[1], ![p][d1] = t[p].todo[2]]
        /\ Local(p, At("user"))
     \/ CloseAll(p, t[p].todo, "user") /\ UNCHANGED ofile
  /\ UNCHANGED <<file, pipe, iref, panicked>>

-----------------------------------------------------------------------------
(* sys_open(): the inode of namei(), a file and a descriptor, or the inode *)
(* is put again.                                                           *)
Open(p) ==
  LET f == Min(Unused) IN
  /\ t[p].pc = "user" /\ iref' = iref + 1
  /\ CASE Unused = {} -> Goto(p, "open_put") /\ UNCHANGED <<file, ofile>>
       [] Unused # {} /\ FreeFds(p) = {} ->
            file' = filealloc /\ CloseAll(p, <<f>>, "open_put") /\ UNCHANGED ofile
       [] OTHER ->
            /\ file' = [filealloc EXCEPT ![f].type = "INODE"]
            /\ ofile' = fdalloc(p, f)
            /\ UNCHANGED t
  /\ UNCHANGED <<pipe, panicked>>

OpenPut(p) ==
  /\ t[p].pc = "open_put" /\ iref' = iref - 1 /\ Local(p, At("user"))
  /\ UNCHANGED <<file, ofile, pipe, panicked>>

-----------------------------------------------------------------------------
(* fork(): the child shares the files. *)
Fork(p, q) ==
  /\ t[p].pc = "user" /\ t[q].pc = "unused"
  /\ ofile' = [ofile EXCEPT ![q] = ofile[p]]
  /\ filedup(p, Fds \ FreeFds(p))
  /\ Local(q, At("user"))
  /\ UNCHANGED <<pipe, iref>>

(* exit(): fileclose() of each descriptor, which only p itself looks at. *)
Exit(p) ==
  /\ t[p].pc = "user" /\ p # First /\ Goto(p, "exit")
  /\ UNCHANGED <<file, ofile, pipe, iref, panicked>>

ExitFile(p) ==
  LET d == Min(Fds \ FreeFds(p)) IN
  /\ t[p].pc = "exit"
  /\ IF FreeFds(p) = Fds THEN Local(p, At("unused")) /\ UNCHANGED ofile
     ELSE /\ CloseAll(p, <<ofile[p][d]>>, "exit")
          /\ ofile' = [ofile EXCEPT ![p][d] = 0]
  /\ UNCHANGED <<file, pipe, iref, panicked>>

-----------------------------------------------------------------------------
Step(p) ==
  \/ Fileclose(p) \/ Pipeclose(p) \/ Iput(p)
  \/ Pipe(p) \/ PipeWf(p) \/ PipePage(p) \/ PipeFds(p) \/ Open(p) \/ OpenPut(p)
  \/ Exit(p) \/ ExitFile(p)
  \/ \E d \in Fds : Close(p, d) \/ Dup(p, d)
  \/ \E q \in Procs : Fork(p, q)

Next == \E p \in Procs : Step(p)

Spec == Init /\ [][Next]_vars

-----------------------------------------------------------------------------
(* The references to a file: descriptors, and the locals of calls.         *)
Refs(f) ==
  Cardinality({x \in Procs \X Fds : ofile[x[1]][x[2]] = f})
  + Cardinality({x \in Procs \X (1 .. 2) :
                   x[2] <= Len(t[x[1]].todo) /\ t[x[1]].todo[x[2]] = f})

Named(type) == {f \in Files : file[f].ref > 0 /\ file[f].type = type}

(* A file has as many references as it counts, and an end of a pipe or the *)
(* inode as many as there are files for it or calls about to drop it: also *)
(* when pipe() or open() gives up half way, in an entry of the table that  *)
(* was used for something else before.                                     *)
DescriptorsRight ==
  /\ ~panicked
  /\ \A f \in Files : file[f].ref = Refs(f)
  /\ \A k \in Pages, e \in Ends :
       Cardinality({f \in Named("PIPE") : file[f].pi = k /\ file[f].end = e})
       + Cardinality({p \in Procs : t[p].pc = "pipeclose" /\ t[p].ff = <<k, e>>})
         = IF e \in pipe[k] THEN 1 ELSE 0
  /\ iref = Cardinality(Named("INODE"))
            + Cardinality({p \in Procs : t[p].pc = "iput"})
            + Cardinality({p \in Procs : "open_put" \in {t[p].pc, t[p].then}})
=============================================================================
