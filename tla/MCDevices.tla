----------------------------- MODULE MCDevices ------------------------------
(***************************************************************************)
(* Instances for TLC of the disk driver, of the console's input and output *)
(* (the line buffer and the UART) and of the clock.  A behaviour runs one  *)
(* of the four models, the one that the variable part names.               *)
(***************************************************************************)
EXTENDS VirtioDisk, TLC

CONSTANTS Users, INPUT_BUF, MaxRead, Printers, UART_TX_BUF_SIZE, UINT, FIFO, Bytes,
          MaxAwake

(* Arguments of sleep(), an int that is compared with a uint. *)
Amounts == {-2, 0, 1, 3}

VARIABLES
  part,
  c_buf, c_r, c_w, e, c_lock, c_pc, n, target, killed, line, input,
  u_buf, u_r, u_w, u_lock, u_pc, fifo, irq, lost, accepted,
  ticks, k_lock, k_pc, k_n, ticks0, k_killed, passed

consoleVars == <<c_buf, c_r, c_w, e, c_lock, c_pc, n, target, killed, line, input>>
uartVars == <<u_buf, u_r, u_w, u_lock, u_pc, fifo, irq, lost, accepted>>
clockVars == <<ticks, k_lock, k_pc, k_n, ticks0, k_killed, passed>>

C == INSTANCE Console WITH
       Procs <- Users, buf <- c_buf, r <- c_r, w <- c_w, lock <- c_lock, pc <- c_pc
U == INSTANCE Uart WITH
       Writers <- Users, buf <- u_buf, r <- u_r, w <- u_w, lock <- u_lock, pc <- u_pc
K == INSTANCE Clock WITH
       Procs <- Users, lock <- k_lock, pc <- k_pc, n <- k_n, killed <- k_killed

Off == "off"

DiskOff == Init /\ platter = [p \in Procs |-> 0]
ConsoleOff ==
  /\ c_buf = Off /\ c_r = Off /\ c_w = Off /\ e = Off /\ c_lock = Off /\ c_pc = Off
  /\ n = Off /\ target = Off /\ killed = Off /\ line = Off /\ input = Off
UartOff ==
  /\ u_buf = Off /\ u_r = Off /\ u_w = Off /\ u_lock = Off /\ u_pc = Off
  /\ fifo = Off /\ irq = Off /\ lost = Off /\ accepted = Off
ClockOff ==
  /\ ticks = Off /\ k_lock = Off /\ k_pc = Off /\ k_n = Off /\ ticks0 = Off
  /\ k_killed = Off /\ passed = Off

DevicesInit ==
  \/ part = "disk" /\ Init /\ ConsoleOff /\ UartOff /\ ClockOff
  \/ part = "console" /\ DiskOff /\ C!Init /\ UartOff /\ ClockOff
  \/ part = "uart" /\ DiskOff /\ ConsoleOff /\ U!Init /\ ClockOff
  \/ part = "clock" /\ DiskOff /\ ConsoleOff /\ UartOff /\ K!Init

DevicesNext ==
  \/ part = "disk" /\ Next /\ UNCHANGED <<part, consoleVars, uartVars, clockVars>>
  \/ part = "console" /\ C!Next /\ UNCHANGED <<part, vars, uartVars, clockVars>>
  \/ part = "uart" /\ U!Next /\ UNCHANGED <<part, vars, consoleVars, clockVars>>
  \/ part = "clock" /\ K!Next /\ UNCHANGED <<part, vars, consoleVars, uartVars>>

DevicesSpec ==
  DevicesInit /\ [][DevicesNext]_<<part, vars, consoleVars, uartVars, clockVars>>

(* The processes that use the disk are interchangeable. *)
Symmetry == Permutations(Procs)

-----------------------------------------------------------------------------
(* The console's buffer holds the released text and the edited line, and   *)
(* no reader sleeps while there is text.                                   *)
ConsoleRight == part = "console" => C!BufferRight /\ C!ReadersServed

(* What write() puts in the UART's ring is sent once, in order, and does   *)
(* not get stuck.                                                          *)
UartRight == part = "uart" => U!InOrder /\ U!OutputMoves

(* sleep() waits for the ticks it was asked for, also when ticks wraps, and *)
(* nobody stays asleep once they have passed.                              *)
SleepsRight == part = "clock" => K!SleepsRight
=============================================================================
