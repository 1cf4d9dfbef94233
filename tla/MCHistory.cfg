\* Four pushes into a history of two, read by two clients; a slice of
\* three is sorted by any swaps, shorter ones by insertion.
SPECIFICATION Spec
CONSTANTS
  Entries <- UpdateEntries
  HistorySize = 2
  maxInsertion = 2
  Readers = {r1, r2}
CHECK_DEADLOCK FALSE
INVARIANTS
  TypeOK
  ReplyIsSnapshot
PROPERTIES
  PushIsAtomic
