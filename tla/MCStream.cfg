\* A channel of two, three notifications, a heartbeat every two units of time.
SPECIFICATION LiveSpec
CONSTANTS
  Period = 2
  notificationBuffer = 2
  MaxNotifications = 3
INVARIANTS
  TypeOK
  DrainNeverBlocks
  NoStaleTick
PROPERTIES
  KeepsBeating
  HandlerReturns
  EveryMessageWritten
CHECK_DEADLOCK FALSE
