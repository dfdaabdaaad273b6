\* What main.go says of Close; violated.
CONSTANTS
  Senders = {"input"}
  Greetings = 2
  MaxReads = 4
  WrapAt = 1
  MaxID = 3
  Buffer = 1
  EarlyMax = 1
SPECIFICATION Spec
INVARIANT NoSendAfterClose
CHECK_DEADLOCK FALSE
