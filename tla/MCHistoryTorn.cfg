\* A push that sorts in place under a reader of /__history.
SPECIFICATION Spec
CONSTANTS
  Entries <- UpdateEntries
  HistorySize = 2
  maxInsertion = 12
  Readers = {r1}
CHECK_DEADLOCK FALSE
INVARIANT EachOnce
