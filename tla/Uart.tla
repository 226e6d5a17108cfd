-------------------------------- MODULE Uart --------------------------------
(***************************************************************************)
(* The console's output: kernel/uart.c.  Processes in write() put bytes    *)
(* into the ring uart_tx_buf[] and call uartstart(); so does the interrupt *)
(* handler.  Echo and printf() write to the transmit register directly,    *)
(* with uartputc_sync() and without uart_tx_lock.  Each test of the line   *)
(* status and each write of the register is a step of its own.             *)
(*                                                                         *)
(* The UART, external, sends from a queue (its FIFOs are enabled), shows   *)
(* LSR_TX_IDLE when the queue is empty, and raises its interrupt when it   *)
(* becomes so.                                                             *)
(***************************************************************************)
EXTENDS Integers, Sequences

CONSTANTS
  Writers,            \* processes that write() to the console
  Printers,           \* CPUs in uartputc_sync()
  UART_TX_BUF_SIZE,
  UINT,               \* number of values of the indices, a multiple of the size
  FIFO,               \* bytes that the queue of the UART holds
  Bytes               \* values of bytes

VARIABLES
  buf, r, w,          \* uart_tx_buf[], uart_tx_r, uart_tx_w
  lock,               \* who has uart_tx_lock: a writer, "intr" or ""
  pc,                 \* the writers, the printers and the interrupt handler
  fifo, irq,          \* the UART: its queue, and its interrupt pending
  lost,               \* a byte was written to a full queue
  accepted            \* history: the bytes write() has accepted and the UART not sent

vars == <<buf, r, w, lock, pc, fifo, irq, lost, accepted>>

Actors == Writers \cup Printers \cup {"intr"}
Echo == "echo"

Init ==
  /\ buf = [k \in 0 .. UART_TX_BUF_SIZE - 1 |-> ""] /\ r = 0 /\ w = 0 /\ lock = ""
  /\ pc = [a \in Actors |-> "idle"]
  /\ fifo = <<>> /\ irq = FALSE /\ lost = FALSE /\ accepted = <<>>

Plus(i, k) == (i + k) % UINT
Go(a, to) == pc' = [pc EXCEPT ![a] = to]

(* WriteReg(THR, c) *)
WriteTHR(c) ==
  /\ fifo' = IF Len(fifo) < FIFO THEN Append(fifo, c) ELSE fifo
  /\ lost' = (lost \/ Len(fifo) = FIFO)

(* Mutant of IsFull: one byte too many. *)
Mut_IsFull == w = Plus(r, UART_TX_BUF_SIZE + 1)

IsFull == w = Plus(r, UART_TX_BUF_SIZE)

(* uartputc(): sleeps while the buffer is full. *)
Put(p, c) ==
  /\ pc[p] \in {"idle", "woken"} /\ lock = ""
  /\ IF IsFull THEN Go(p, "asleep") /\ UNCHANGED <<buf, w, lock, accepted>>
     ELSE /\ buf' = [buf EXCEPT ![w % UART_TX_BUF_SIZE] = c] /\ w' = Plus(w, 1)
          /\ accepted' = Append(accepted, c)
          /\ lock' = p /\ Go(p, "start")
  /\ UNCHANGED <<r, fifo, irq, lost>>

(* uartstart(): the test, and then the byte; the caller ends when there is *)
(* none, or the UART is busy.                                              *)
StartTest(a) ==
  /\ pc[a] = "start"
  /\ IF w = r \/ fifo # <<>> THEN Go(a, "idle") /\ lock' = "" ELSE Go(a, "send") /\ UNCHANGED lock
  /\ UNCHANGED <<buf, r, w, fifo, irq, lost, accepted>>

StartSend(a) ==
  /\ pc[a] = "send"
  /\ r' = Plus(r, 1)
  /\ WriteTHR(buf[r % UART_TX_BUF_SIZE])
  /\ pc' = [b \in Actors |-> IF b = a THEN "start" ELSE IF pc[b] = "asleep" THEN "woken" ELSE pc[b]]
  /\ UNCHANGED <<buf, w, lock, irq, accepted>>

(* uartputc_sync() *)
SyncTest(a) ==
  /\ a \in Printers /\ pc[a] = "idle" /\ fifo = <<>> /\ Go(a, "sync")
  /\ UNCHANGED <<buf, r, w, lock, fifo, irq, lost, accepted>>
SyncSend(a) ==
  /\ pc[a] = "sync" /\ Go(a, "idle") /\ WriteTHR(Echo)
  /\ UNCHANGED <<buf, r, w, lock, irq, accepted>>

(* uartintr(), its output part. *)
Claim ==
  /\ pc["intr"] = "idle" /\ irq /\ irq' = FALSE /\ Go("intr", "lock")
  /\ UNCHANGED <<buf, r, w, lock, fifo, lost, accepted>>

uartintr ==
  /\ pc["intr"] = "lock" /\ lock = "" /\ lock' = "intr" /\ Go("intr", "start")
  /\ UNCHANGED <<buf, r, w, fifo, irq, lost, accepted>>

(* The UART sends a byte. *)
Send ==
  /\ fifo # <<>> /\ fifo' = Tail(fifo)
  /\ irq' = (irq \/ Len(fifo) = 1)
  /\ accepted' = IF Head(fifo) = Echo THEN accepted ELSE Tail(accepted)
  /\ UNCHANGED <<buf, r, w, lock, pc, lost>>

Next ==
  \/ \E p \in Writers, c \in Bytes : Put(p, c)
  \/ \E a \in Actors : StartTest(a) \/ StartSend(a)
  \/ \E a \in Printers : SyncTest(a) \/ SyncSend(a)
  \/ Claim \/ uartintr \/ Send

Spec == Init /\ [][Next]_vars

-----------------------------------------------------------------------------
(* The bytes of write() that the UART has not sent are those in its queue  *)
(* and then those in the ring, in order: whatever echo and printf() write  *)
(* in between, none is lost, sent twice or overtaken.                      *)
InOrder ==
  LET count == Plus(w, -r)
      ring == [k \in 1 .. count |-> buf[Plus(r, k - 1) % UART_TX_BUF_SIZE]]
  IN /\ count <= UART_TX_BUF_SIZE
     /\ accepted = SelectSeq(fifo, LAMBDA c : c # Echo) \o ring
     /\ ~lost

(* Output never gets stuck: while the ring has bytes, the UART is sending, *)
(* so that it will interrupt, or it has, or uartstart() is running; and a  *)
(* writer sleeps only while the ring is full.                              *)
OutputMoves ==
  /\ w # r => fifo # <<>> \/ irq \/ pc["intr"] # "idle" \/ lock # ""
              \/ \E a \in Printers : pc[a] = "sync"
  /\ \A p \in Writers : pc[p] = "asleep" => IsFull
=============================================================================
