\* One connection, either end dialling; the code's 10 handshakes of 20 reads
\* scaled to 2 of 4, the ID limit to 1 of 3.
CONSTANTS
  Senders = {"input"}
  Greetings = 2
  MaxReads = 4
  WrapAt = 1
  MaxID = 3
  Buffer = 1
  EarlyMax = 1
SPECIFICATION Spec
INVARIANTS TypeOK IDsPositive
PROPERTIES StreamIsPipe SetupSucceeds LostEndsSession
CHECK_DEADLOCK FALSE
