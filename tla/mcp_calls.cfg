SPECIFICATION FairSpec
CONSTANTS
  ToolRequests = {c1, c2}
  Discoveries = {d1}
  Servers = {s1, s2}
  MaxRetries <- OneRetried
  Long = {c1}
  Room = 2
  MaxUnread = 1
  Wrapped = FALSE
  NoServer = NoServer
  NoCall = NoCall
INVARIANTS
  TypeOK
  AnswerIsOwn
  NotReplayed
  NothingOwed
  RestartsClean
PROPERTIES
  CallReturns
CHECK_DEADLOCK FALSE
