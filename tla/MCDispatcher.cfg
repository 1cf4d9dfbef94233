\* Two notifications and two subscribers of two kinds; a channel holds one message.
SPECIFICATION Spec
CONSTANTS
  c1 = c1
  c2 = c2
  s1 = s1
  s2 = s2
  p1 = p1
  p2 = p2
  pink = pink
  poller = poller
  Nil = Nil
  Loop = Loop
  Calls = {c1, c2}
  Conns = {s1, s2}
  Pollers = {}
  UUID = {p1, p2, pink}
  PinkFt = pink
  ContentID <- MCContentID
  Reference <- MCReference
  TypeName <- MCTypeName
  ToLower <- MCToLower
  Inputs <- MixedInputs
  Requests <- MixedRequests
  Delay = 0
  notificationBuffer = 1
  HistorySize = 1
SYMMETRY Symmetry
CHECK_DEADLOCK FALSE
INVARIANTS
  TypeOK
  DeliveryContract
  NobodyOverlooked
  SentIsEnqueued
  SameOrder
  WireForm
  ReportTruthful
  HistoryKeepsNewest
  StopIsClean
PROPERTIES
  AudienceIsFixed
  SilentAfterUnsubscribe
  SilentAfterStop
  ImplementsBroadcast
