\* Three transfers for two slots; empty files and files of two blocks with
\* padding in the last; two connections, or one and a crash.
CONSTANTS
  Transfers = {f1, f2, f3}
  None = None
  Slots = 2
  Block = 2
  Buffer = 2
  Sizes = {0, 3}
  MaxManagers = 2
  MaxSends = 1
  SendBlocks = 1
SPECIFICATION Spec
INVARIANTS TypeOK Backed StagesCleaned
PROPERTIES SlotsComeBack StopReturns
CHECK_DEADLOCK FALSE
