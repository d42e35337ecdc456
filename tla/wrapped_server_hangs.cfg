SPECIFICATION FairSpec
CONSTANTS
  ToolRequests = {c1}
  Discoveries = {d1}
  Servers = {s1}
  MaxRetries <- NoneRetried
  Long = {}
  Room = 9
  MaxUnread = 1
  Wrapped = TRUE
  NoServer = NoServer
  NoCall = NoCall
PROPERTIES
  CallReturns
CHECK_DEADLOCK FALSE
