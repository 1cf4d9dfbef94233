\* Notifications pushed in another order than they were modified.
SPECIFICATION Spec
CONSTANTS
  Entries <- UpdateEntries
  HistorySize = 2
  maxInsertion = 12
  Readers = {}
CHECK_DEADLOCK FALSE
INVARIANT ContainsLastPushed
