\* Four sockets, two of them accepted, two diallers, one slot.
CONSTANTS
  c1 = c1
  c2 = c2
  c3 = c3
  c4 = c4
  d1 = d1
  d2 = d2
  Conns = {c1, c2, c3, c4}
  Dialers = {d1, d2}
  MaxIn = 2
  NoConn = NoConn
  NoDialer = NoDialer
  Slots = 1
SPECIFICATION Spec
INVARIANTS TypeOK EachHeldOnce
PROPERTIES LosersEnd Recovers
