------------------------------- MODULE Shell --------------------------------
(***************************************************************************)
(* The programs that run commands: init (user/init.c), the shell's main()  *)
(* and runcmd() (user/sh.c), and the commands cat, echo and wc that a line *)
(* connects.  Each process has a descriptor table, a parent and a place in *)
(* its program; a step is a system call, or a run of close() and dup(),    *)
(* which never wait.  Lines are trees, as ShellParser makes them.  The     *)
(* kernel's side (fork, wait, exit, pipes, descriptors) is what modules    *)
(* Proc, Pipe and Fs promise; a call of it may fail for want of memory.    *)
(***************************************************************************)
EXTENDS Integers, FiniteSets, FiniteSetsExt

CONSTANTS
  NPROC, NOFILE, NPIPE,   \* processes, descriptors, pipes that memory allows
  PIPESIZE,               \* writes that a pipe holds
  Commands,               \* the trees that a user may type
  MaxEvents               \* bound: lines typed and calls that fail without need

VARIABLES
  proc,       \* the processes
  pipe,       \* writes in each pipe
  lines, fails, panicked

vars == <<proc, pipe, lines, fails, panicked>>

Pids == 1 .. NPROC
Fds == 0 .. NOFILE - 1
init == 1

None == [kind |-> "none", n |-> 0]
Console == [kind |-> "console", n |-> 0]
Disk == [kind |-> "disk", n |-> 0]
ReadEnd(i) == [kind |-> "r", n |-> i]
WriteEnd(i) == [kind |-> "w", n |-> i]

NoCmd == [type |-> "NONE"]
Closed == [f \in Fds |-> None]
Standard == [f \in Fds |-> IF f < 3 THEN Console ELSE None]

(* p: the descriptors of pipe(); k: writes to do; bg: below a BACK. *)
Process(parent, at, cmd, fd, bg) ==
  [parent |-> parent, at |-> at, cmd |-> cmd, fd |-> fd, p |-> <<0, 0>>, k |-> 0, bg |-> bg]
Unused == Process(0, "unused", NoCmd, Closed, FALSE)

(* init has opened the console and duplicated it twice. *)
Init ==
  /\ proc = [p \in Pids |-> IF p = init THEN Process(0, "init", NoCmd, Standard, FALSE) ELSE Unused]
  /\ pipe = [i \in 1 .. NPIPE |-> 0]
  /\ lines = 0 /\ fails = 0 /\ panicked = FALSE

-----------------------------------------------------------------------------
(* The kernel. *)
Free == { p \in Pids : proc[p].at = "unused" }
Live == { p \in Pids : proc[p].at \notin {"unused", "zombie"} }
Children(p) == { q \in Pids \ Free : proc[q].parent = p }
Zombies(p) == { q \in Children(p) : proc[q].at = "zombie" }

OpenFds(fd) == { f \in Fds : fd[f] # None }
Holds(end) == \E p \in Live : \E f \in Fds : proc[p].fd[f] = end
FreePipes == { i \in 1 .. NPIPE : ~Holds(ReadEnd(i)) /\ ~Holds(WriteEnd(i)) }

(* fdalloc(): the lowest free descriptor; NOFILE is enough here. *)
fdalloc(fd, file) == [fd EXCEPT ![Min(Fds \ OpenFds(fd))] = file]
close(fd, f) == [fd EXCEPT ![f] = None]
dup(fd, f) == fdalloc(fd, fd[f])

Quiet == UNCHANGED <<pipe, lines, fails, panicked>>

(* A call fails: because it must, or while events are left. *)
FailsIf(none) == (none \/ lines + fails < MaxEvents) /\ fails' = fails + 1
Fail == FailsIf(FALSE)

Go(p, at) == proc' = [proc EXCEPT ![p].at = at]

(* exit(): the descriptors close, the children go to init. *)
Exited(p) == [q \in Pids |->
  IF q = p THEN Process(proc[p].parent, "zombie", NoCmd, Closed, FALSE)
  ELSE IF q \in Children(p) THEN [proc[q] EXCEPT !.parent = init] ELSE proc[q]]
Exit(p) == proc' = Exited(p)

(* fork(): a copy of p goes on at child, p itself at parent; the child has *)
(* cmd to run.                                                             *)
Fork(p, child, cmd, bg, parent) ==
  /\ Free # {}
  /\ proc' = [proc EXCEPT ![Min(Free)] = [proc[p] EXCEPT !.parent = p, !.at = child, !.cmd = cmd, !.bg = @ \/ bg],
                          ![p].at = parent]
  /\ Quiet
ForkFails == FailsIf(Free = {})

(* wait(0): reap a child and go on as next.  In these programs a process   *)
(* that waits has a child.                                                 *)
Wait(p, next) ==
  /\ Zombies(p) # {}
  /\ proc' = [proc EXCEPT ![p] = next, ![Min(Zombies(p))] = Unused]
  /\ Quiet

-----------------------------------------------------------------------------
(* init: starts the shell, waits for it, and reaps parentless processes.   *)
(* k is the shell.                                                         *)
InitStart ==
  /\ proc[init].at = "init"
  /\ \/ /\ Free # {}
        /\ proc' = [proc EXCEPT ![Min(Free)] = Process(init, "sh", NoCmd, proc[init].fd, FALSE),
                                ![init].at = "init_wait", ![init].k = Min(Free)]
        /\ Quiet
     \/ ForkFails /\ panicked' = TRUE /\ UNCHANGED <<proc, pipe, lines>>

InitWait ==
  /\ proc[init].at = "init_wait"
  /\ Wait(init, IF Min(Zombies(init)) = proc[init].k THEN [proc[init] EXCEPT !.at = "init"] ELSE proc[init])

(* exec() of the shell fails. *)
InitExecFails(p) ==
  /\ proc[p].at = "sh" /\ Fail /\ Exit(p) /\ UNCHANGED <<pipe, lines, panicked>>

(* "Ensure that three file descriptors are open." *)
ShOpen(p) ==
  LET f == Min(Fds \ OpenFds(proc[p].fd)) IN
  /\ proc[p].at = "sh"
  /\ IF f >= 3 THEN Go(p, "prompt") ELSE proc' = [proc EXCEPT ![p].fd[f] = Console]
  /\ Quiet

getcmd(p) ==
  /\ proc[p].at = "prompt" /\ lines + fails < MaxEvents /\ lines' = lines + 1
  /\ \/ \E c \in Commands : proc' = [proc EXCEPT ![p].at = "sh_fork", ![p].cmd = c]
     \/ UNCHANGED proc                                     \* cd, done by the shell itself
     \/ Exit(p)                                            \* end of file
  /\ UNCHANGED <<pipe, fails, panicked>>

(* fork1(): panic("fork") ends the caller. *)
fork1(p, at, child, cmd, bg, parent) ==
  /\ proc[p].at = at
  /\ \/ Fork(p, child, cmd, bg, parent)
     \/ ForkFails /\ Exit(p) /\ UNCHANGED <<pipe, lines, panicked>>

ShFork(p) == fork1(p, "sh_fork", "runcmd", proc[p].cmd, FALSE, "sh_wait")
ShWait(p) == proc[p].at = "sh_wait" /\ Wait(p, [proc[p] EXCEPT !.at = "prompt"])

-----------------------------------------------------------------------------
(* runcmd() *)
Running(p, type) == proc[p].at = "runcmd" /\ proc[p].cmd.type = type

(* exec(); the command line of echo is its number of write() calls.  A     *)
(* line that does not parse, an empty one and an unknown program end.      *)
RunExec(p) ==
  LET name == proc[p].cmd.argv IN
  /\ Running(p, "EXEC")
  /\ IF name \in {"cat", "wc", "echo"}
       THEN proc' = [proc EXCEPT ![p].at = name, ![p].k = IF name = "echo" THEN 2 ELSE 0]
       ELSE Exit(p)
  /\ Quiet

RunRedir(p) ==
  LET c == proc[p].cmd IN
  /\ Running(p, "REDIR")
  /\ \/ /\ proc' = [proc EXCEPT ![p].fd = fdalloc(close(@, c.fd), Disk), ![p].cmd = c.cmd]
        /\ Quiet
     \/ Fail /\ Exit(p) /\ UNCHANGED <<pipe, lines, panicked>>

RunList(p) ==
  \/ Running(p, "LIST") /\ fork1(p, "runcmd", "runcmd", proc[p].cmd.left, FALSE, "list_wait")
  \/ proc[p].at = "list_wait" /\ Wait(p, [proc[p] EXCEPT !.at = "runcmd", !.cmd = @.right])

RunBack(p) ==
  /\ Running(p, "BACK")
  /\ fork1(p, "runcmd", "runcmd", proc[p].cmd.cmd, TRUE, "exit")

(* pipe(p) *)
RunPipe(p) ==
  LET fd == proc[p].fd
      p0 == Min(Fds \ OpenFds(fd))
      p1 == Min(Fds \ (OpenFds(fd) \cup {p0}))
      i == Min(FreePipes)
  IN /\ Running(p, "PIPE")
     /\ \/ /\ FreePipes # {}
           /\ proc' = [proc EXCEPT ![p].fd = [fd EXCEPT ![p0] = ReadEnd(i), ![p1] = WriteEnd(i)],
                                   ![p].p = <<p0, p1>>, ![p].at = "pipe_left"]
           /\ pipe' = [pipe EXCEPT ![i] = 0]
           /\ UNCHANGED <<lines, fails, panicked>>
        \/ FailsIf(FreePipes = {}) /\ Exit(p) /\ UNCHANGED <<pipe, lines, panicked>>

PipeForks(p) ==
  \/ fork1(p, "pipe_left", "left", proc[p].cmd, FALSE, "pipe_right")
  \/ fork1(p, "pipe_right", "right", proc[p].cmd, FALSE, "pipe_close")

CloseBoth(p, fd) == close(close(fd, proc[p].p[1]), proc[p].p[2])

(* The child: its standard output, or input, is the pipe. *)
PipeChild(p) ==
  /\ proc[p].at \in {"left", "right"}
  /\ LET f == IF proc[p].at = "left" THEN 1 ELSE 0
         end == IF proc[p].at = "left" THEN proc[p].p[2] ELSE proc[p].p[1]
     IN proc' = [proc EXCEPT ![p] = [@ EXCEPT
          !.fd = CloseBoth(p, dup(close(@, f), end)),
          !.cmd = IF proc[p].at = "left" THEN @.left ELSE @.right,
          !.at = "runcmd"]]
  /\ Quiet

(* Mutant of PipeParent: the parent keeps the write end. *)
Mut_PipeParent(p) == close(proc[p].fd, proc[p].p[1])

(* The parent closes both ends. *)
PipeParent(p) == CloseBoth(p, proc[p].fd)

PipeWaits(p) ==
  \/ proc[p].at = "pipe_close" /\ proc' = [proc EXCEPT ![p].fd = PipeParent(p), ![p].at = "wait"] /\ Quiet
  \/ proc[p].at = "wait" /\ Wait(p, [proc[p] EXCEPT !.at = "wait2"])
  \/ proc[p].at = "wait2" /\ Wait(p, [proc[p] EXCEPT !.at = "exit"])

RunExit(p) == proc[p].at = "exit" /\ Exit(p) /\ Quiet

-----------------------------------------------------------------------------
(* read() and write(): the console and a file are at their end, and take   *)
(* all output; a pipe waits as in module Pipe.                             *)
Std(p, f) == proc[p].fd[f]
Eof(p) == Std(p, 0).kind = "r" => pipe[Std(p, 0).n] = 0 /\ ~Holds(WriteEnd(Std(p, 0).n))
Readable(p) == Std(p, 0).kind = "r" /\ pipe[Std(p, 0).n] > 0
Broken(p) == Std(p, 1).kind = "w" /\ ~Holds(ReadEnd(Std(p, 1).n))
Writable(p) == ~Broken(p) /\ (Std(p, 1).kind = "w" => pipe[Std(p, 1).n] < PIPESIZE)
Deliver(p) == pipe' = IF Std(p, 1).kind = "w" THEN [pipe EXCEPT ![Std(p, 1).n] = @ + 1] ELSE pipe

Rest == UNCHANGED <<lines, fails, panicked>>

(* echo, which ignores what write() returns, and the last line of wc. *)
Echo(p) ==
  /\ proc[p].at = "echo"
  /\ \/ proc[p].k = 0 /\ Exit(p) /\ UNCHANGED pipe
     \/ /\ proc[p].k > 0 /\ (Writable(p) \/ Broken(p))
        /\ proc' = [proc EXCEPT ![p].k = @ - 1]
        /\ IF Broken(p) THEN UNCHANGED pipe ELSE Deliver(p)
  /\ Rest

Take(p, k) ==
  /\ Readable(p)
  /\ pipe' = [pipe EXCEPT ![Std(p, 0).n] = @ - 1] /\ proc' = [proc EXCEPT ![p].k = k]

Cat(p) ==
  /\ proc[p].at = "cat"
  /\ \/ proc[p].k = 0 /\ Take(p, 1)
     \/ proc[p].k = 0 /\ Eof(p) /\ Exit(p) /\ UNCHANGED pipe
     \/ proc[p].k = 1 /\ Writable(p) /\ proc' = [proc EXCEPT ![p].k = 0] /\ Deliver(p)
     \/ proc[p].k = 1 /\ Broken(p) /\ Exit(p) /\ UNCHANGED pipe
  /\ Rest

Wc(p) ==
  /\ proc[p].at = "wc"
  /\ \/ Take(p, 0)
     \/ Eof(p) /\ proc' = [proc EXCEPT ![p].at = "echo", ![p].k = 1] /\ UNCHANGED pipe
  /\ Rest

RunStep(p) ==
  \/ RunExec(p) \/ RunRedir(p) \/ RunList(p) \/ RunBack(p) \/ RunPipe(p) \/ PipeForks(p)
  \/ PipeChild(p) \/ PipeWaits(p) \/ RunExit(p) \/ Echo(p) \/ Cat(p) \/ Wc(p)
ShStep(p) == InitExecFails(p) \/ ShOpen(p) \/ getcmd(p) \/ ShFork(p) \/ ShWait(p)

Next ==
  /\ ~panicked
  /\ InitStart \/ InitWait \/ \E p \in Pids : ShStep(p) \/ RunStep(p)

Spec == Init /\ [][Next]_vars

-----------------------------------------------------------------------------
(* p waits for another process. *)
Blocked(p) ==
  CASE proc[p].at \in {"init_wait", "sh_wait", "list_wait", "wait", "wait2"} ->
         Zombies(p) = {}
    [] proc[p].at = "wc" \/ (proc[p].at = "cat" /\ proc[p].k = 0) -> ~Readable(p) /\ ~Eof(p)
    [] proc[p].at = "cat" \/ (proc[p].at = "echo" /\ proc[p].k > 0) -> ~Writable(p) /\ ~Broken(p)
    [] OTHER -> FALSE

(* No command line can hang, in the foreground or in the background: while *)
(* there is a process besides init and a shell at its prompt, one of them  *)
(* can go on.  A reader in a pipeline gets its end of file and a writer    *)
(* its error, because no process keeps an end of a pipe that it does not   *)
(* use as standard input or output; so every program starts with its three *)
(* descriptors only.  And without failures the shell prompts only when all *)
(* processes of the line are gone, but those of "&".                       *)
ShellRight ==
  /\ \A p \in Live : proc[p].at \in {"runcmd", "cat", "echo", "wc", "wait", "prompt"} =>
       /\ OpenFds(proc[p].fd) = 0 .. 2
       /\ Std(p, 0).kind # "w" /\ Std(p, 1).kind # "r" /\ Std(p, 2) = Console
  /\ \A p \in Live : proc[p].at = "prompt" /\ fails = 0 =>
       \A q \in Live \ {init, p} : proc[q].bg
  /\ LET busy == { p \in Live \ {init} : proc[p].at # "prompt" }
     IN busy = {} \/ panicked \/ \E p \in busy \cup {init} : ~Blocked(p)
=============================================================================
