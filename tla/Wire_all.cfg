\* A small connection: two of the server's threads send to one client, and its
\* end accepts shorter bodies than theirs (the limits of the AI channel and of
\* the chat differ: Framing.h), so that a refused length is seen too.
CONSTANTS
  Thread = {"chat", "system"}
  NoThread = "none"
  HeaderSize = 2
  MaxBodySize = 2
  SendLimit = 3
  Sizes = {0, 2, 3, 4}
  Window = 3
  MaxPackets = 4
SPECIFICATION FairSpec
\* The connection may end.
CHECK_DEADLOCK FALSE
INVARIANT IInv
PROPERTY ImplementsChannel
