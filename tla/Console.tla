------------------------------ MODULE Console -------------------------------
(***************************************************************************)
(* The console's input: the line editor consoleintr() and the readers of   *)
(* consoleread() in kernel/console.c, which share a circular buffer under  *)
(* cons.lock.  A step runs from one release of the lock, or test of        *)
(* p->killed, to the next; the lock is held across the test, so the reader *)
(* that tests excludes all but kill().  The echo goes to module Uart.      *)
(***************************************************************************)
EXTENDS Integers, Sequences

CONSTANTS
  Procs,        \* processes that read the console
  INPUT_BUF,    \* size of the buffer
  UINT,         \* number of values of the indices, a multiple of INPUT_BUF
  MaxRead       \* largest n of a read

NL == "nl"
CtrlD == "^D"
Plain == {"a"}
Typed == Plain \cup {NL, "\r", CtrlD, "^U", "^H", "^P"}

VARIABLES
  buf, r, w, e,         \* struct cons
  lock,                 \* the reader that has cons.lock, or ""
  pc, n, target, killed, \* the readers
  line, input           \* history: the line being edited; the text released to readers

vars == <<buf, r, w, e, lock, pc, n, target, killed, line, input>>
locals == <<n, target>>

Init ==
  /\ buf = [k \in 0 .. INPUT_BUF - 1 |-> ""] /\ r = 0 /\ w = 0 /\ e = 0 /\ lock = ""
  /\ pc = [p \in Procs |-> "user"] /\ killed = [p \in Procs |-> FALSE]
  /\ n = [p \in Procs |-> 0] /\ target = n
  /\ line = <<>> /\ input = <<>>

At(i) == buf[i % INPUT_BUF]
Plus(i, k) == (i + k) % UINT

(* ^U: the editing index after the loop. *)
KillTo ==
  LET Stops == { k \in 0 .. INPUT_BUF : Plus(e, -k) = w \/ At(Plus(e, -k - 1)) = NL }
  IN Plus(e, -(CHOOSE k \in Stops : \A j \in Stops : k <= j))

(* No room for another character. *)
Full == Plus(e, -r) >= INPUT_BUF

(* "wake up consoleread() if a whole line (or end-of-file) has arrived", or *)
(* the buffer is full.                                                     *)
Wakes(c) == c \in {NL, CtrlD} \/ Plus(e, 1) = Plus(r, INPUT_BUF)

(* consoleintr(c): store a character, and release the line to the readers. *)
Store(c) ==
  /\ buf' = [buf EXCEPT ![e % INPUT_BUF] = c]
  /\ e' = Plus(e, 1)
  /\ w' = IF Wakes(c) THEN Plus(e, 1) ELSE w
  /\ pc' = IF Wakes(c) THEN [p \in Procs |-> IF pc[p] = "asleep" THEN "woken" ELSE pc[p]] ELSE pc
  /\ line' = IF Wakes(c) THEN <<>> ELSE Append(line, c)
  /\ input' = IF Wakes(c) THEN input \o Append(line, c) ELSE input
  /\ UNCHANGED r

consoleintr(c) ==
  /\ lock = ""
  /\ CASE c = "^P" -> UNCHANGED <<buf, r, w, e, pc, line, input>>
       [] c = "^U" -> e' = KillTo /\ line' = <<>> /\ UNCHANGED <<buf, r, w, pc, input>>
       [] c = "^H" /\ e # w ->
            /\ e' = Plus(e, -1)
            /\ line' = SubSeq(line, 1, Len(line) - 1)
            /\ UNCHANGED <<buf, r, w, pc, input>>
       [] c \notin {"^P", "^U", "^H"} /\ ~Full -> Store(IF c = "\r" THEN NL ELSE c)
       [] OTHER -> UNCHANGED <<buf, r, w, e, pc, line, input>>
  /\ UNCHANGED <<lock, locals, killed>>

(* consoleread() starts, or wakes up: while cons.r = cons.w it sleeps, and *)
(* looks for kill() before.                                                *)
Read(p, k) ==
  /\ pc[p] = "user" /\ ~killed[p] /\ lock = ""
  /\ n' = [n EXCEPT ![p] = k] /\ target' = [target EXCEPT ![p] = k]
  /\ pc' = [pc EXCEPT ![p] = "loop"] /\ lock' = p
  /\ UNCHANGED <<buf, r, w, e, killed, line, input>>

(* The read returns; its locals are dead. *)
Return(p) ==
  /\ pc' = [pc EXCEPT ![p] = "user"] /\ lock' = ""
  /\ n' = [n EXCEPT ![p] = 0] /\ target' = [target EXCEPT ![p] = 0]

Wait(p) ==
  /\ pc[p] = "loop" /\ n[p] > 0 /\ r = w
  /\ IF killed[p] THEN Return(p)
     ELSE pc' = [pc EXCEPT ![p] = "sleeping"] /\ UNCHANGED <<lock, locals>>
  /\ UNCHANGED <<buf, r, w, e, killed, line, input>>

(* sleep() releases cons.lock, and takes it again once it is woken. *)
Sleep(p) ==
  /\ pc[p] = "sleeping" /\ pc' = [pc EXCEPT ![p] = "asleep"] /\ lock' = ""
  /\ UNCHANGED <<buf, r, w, e, locals, killed, line, input>>
Wake(p) ==
  /\ pc[p] = "woken" /\ lock = "" /\ pc' = [pc EXCEPT ![p] = "loop"] /\ lock' = p
  /\ UNCHANGED <<buf, r, w, e, locals, killed, line, input>>

(* Mutant of KeepsEof: ^D is put back even if nothing was read. *)
Mut_KeepsEof(p) == TRUE

(* "Save ^D for next time, to make sure caller gets a 0-byte result." *)
KeepsEof(p) == n[p] < target[p]

(* One character; ok: it can be copied to the user. *)
Take(p, ok) ==
  LET c == At(r) IN
  /\ pc[p] = "loop" /\ n[p] > 0 /\ r # w
  /\ IF c = CtrlD
       THEN /\ r' = IF KeepsEof(p) THEN r ELSE Plus(r, 1)
            /\ input' = IF n[p] = target[p] THEN Tail(input) ELSE input
            /\ Return(p)
       ELSE /\ r' = Plus(r, 1) /\ input' = Tail(input)
            /\ IF ~ok \/ c = NL THEN Return(p)
               ELSE /\ n' = [n EXCEPT ![p] = @ - 1]
                    /\ UNCHANGED <<pc, lock, target>>
  /\ UNCHANGED <<buf, w, e, killed, line>>

(* The count is reached. *)
Done(p) ==
  /\ pc[p] = "loop" /\ n[p] = 0 /\ Return(p)
  /\ UNCHANGED <<buf, r, w, e, killed, line, input>>

(* kill(): a sleeping process is woken. *)
Kill(p) ==
  /\ ~killed[p] /\ killed' = [killed EXCEPT ![p] = TRUE]
  /\ pc' = [pc EXCEPT ![p] = IF @ = "asleep" THEN "woken" ELSE @]
  /\ UNCHANGED <<buf, r, w, e, lock, locals, line, input>>

Next ==
  \/ \E c \in Typed : consoleintr(c)
  \/ \E p \in Procs :
       \/ \E k \in 1 .. MaxRead : Read(p, k)
       \/ Wait(p) \/ Sleep(p) \/ Wake(p) \/ Done(p) \/ Kill(p)
       \/ \E ok \in BOOLEAN : Take(p, ok)

Spec == Init /\ [][Next]_vars

-----------------------------------------------------------------------------
(* The buffer holds the text that readers may take, then the line that is  *)
(* being edited, in order and up to its size: a reader never sees a        *)
(* character that is erased later, none is lost or read twice wherever the *)
(* indices wrap, and an end of file ends exactly one read that has nothing.*)
BufferRight ==
  LET Text(i, s) == \A k \in DOMAIN s : At(Plus(i, k - 1)) = s[k] IN
  /\ Plus(w, -r) = Len(input) /\ Plus(e, -w) = Len(line)
  /\ Len(input) + Len(line) <= INPUT_BUF
  /\ Text(r, input) /\ Text(w, line)

(* A reader sleeps only while there is nothing to read: no text waits for  *)
(* the next line to be noticed.                                            *)
ReadersServed == \A p \in Procs : pc[p] = "asleep" => r = w
=============================================================================
