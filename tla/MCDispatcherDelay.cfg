\* Two notifications that are sent soon after each other.
SPECIFICATION Spec
CONSTANTS
  c1 = c1
  c2 = c2
  s1 = s1
  s2 = s2
  p1 = p1
  p2 = p2
  pink = pink
  poller = poller
  Nil = Nil
  Loop = Loop
  Calls = {c1, c2}
  Conns = {}
  Pollers = {}
  UUID = {p1, p2, pink}
  PinkFt = pink
  ContentID <- MCContentID
  Reference <- MCReference
  TypeName <- MCTypeName
  ToLower <- MCToLower
  Inputs <- OneInput
  Requests <- OneRequest
  Delay = 1
  notificationBuffer = 1
  HistorySize = 1
CHECK_DEADLOCK FALSE
PROPERTY MinimumDelayBetweenSends
