\* Liveness: one subscriber whose client may never read, and a poller of /__stats.
SPECIFICATION LiveSpec
CONSTANTS
  c1 = c1
  c2 = c2
  s1 = s1
  s2 = s2
  p1 = p1
  p2 = p2
  pink = pink
  poller = poller
  Nil = Nil
  Loop = Loop
  Calls = {c1, c2}
  Conns = {s1}
  Pollers = {poller}
  UUID = {p1, p2, pink}
  PinkFt = pink
  ContentID <- MCContentID
  Reference <- MCReference
  TypeName <- MCTypeName
  ToLower <- MCToLower
  Inputs <- OneInput
  Requests <- OneRequest
  Delay = 1
  notificationBuffer = 1
  HistorySize = 1
CHECK_DEADLOCK FALSE
PROPERTIES
  EverySendIsRecorded
  SubscribeReturns
  UnsubscribeReturns
  StopReturns
