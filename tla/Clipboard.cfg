\* The user copies a file, or an image that is not sent inline; the peer sends
\* a text, an image, one that inflates too far, a file by channel, and a text of
\* four packets that overflows a room of two.
CONSTANTS
  None = None
  Path = path
  Texts = {old, reply, flood}
  Images = {scan, huge, bomb}
  Files = {doc, page}
  TooLarge = {huge}
  Before = {old}
  Copied = {doc, huge}
  Inline = {reply, scan, flood, bomb}
  Staged = {page}
  Oversize = {flood}
  Bloated = {bomb}
  Room = 2
  MaxMoves = 3
SPECIFICATION Spec
INVARIANTS TypeOK NoEcho OnePull
PROPERTIES CopyIsSent ReceivedIsSent
CHECK_DEADLOCK FALSE
