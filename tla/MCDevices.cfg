CONSTANTS
  Procs = {p1, p2, p3}
  Data = {0, 1}
  NUM = 7
  MODULUS = 14
  Users = {u1, u2}
  INPUT_BUF = 3
  MaxRead = 2
  Printers = {c1, c2}
  UART_TX_BUF_SIZE = 2
  UINT = 6
  FIFO = 4
  Bytes = {"a", "b"}
  MaxAwake = 2
SPECIFICATION DevicesSpec
SYMMETRY Symmetry
INVARIANTS
  RequestsAccounted TransferDone SleepersWait
  ConsoleRight UartRight SleepsRight
