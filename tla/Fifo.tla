-------------------------------- MODULE Fifo --------------------------------
(***************************************************************************)
(* What a pipe promises: a bounded first-in first-out queue of bytes with  *)
(* two ends.  Nothing is added once either end is closed for good, and a   *)
(* closed end does not open again.                                         *)
(***************************************************************************)
EXTENDS Integers, Sequences

CONSTANTS Bytes, Capacity

VARIABLES queue, readable, writable

vars == <<queue, readable, writable>>

Init == queue = <<>> /\ readable = TRUE /\ writable = TRUE

Put(b) ==
  /\ readable /\ writable /\ Len(queue) < Capacity
  /\ queue' = Append(queue, b)
  /\ UNCHANGED <<readable, writable>>

Get ==
  /\ readable /\ queue # <<>>
  /\ queue' = Tail(queue)
  /\ UNCHANGED <<readable, writable>>

CloseRead == readable /\ readable' = FALSE /\ UNCHANGED <<queue, writable>>

CloseWrite == writable /\ writable' = FALSE /\ UNCHANGED <<queue, readable>>

Next == (\E b \in Bytes : Put(b)) \/ Get \/ CloseRead \/ CloseWrite

Spec == Init /\ [][Next]_vars
=============================================================================
