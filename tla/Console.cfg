SPECIFICATION FairConsoleSpec
CONSTANTS
  Clients = {c1, c2}
  NoClient = NoClient
  BufferLimit = 2
  SocketLimit = 1
  PollCycles = 1
  Backlog = 1
  MaxSent = 2
  MaxWritten = 3
INVARIANTS
  InboundIsExact
  OutboundIsExact
PROPERTIES
  LiveClientIsKept
  ServesItsClient
CHECK_DEADLOCK FALSE
