\* A CREATE notification in the history that is asked for.
SPECIFICATION Spec
CONSTANTS
  Entries <- CreateEntries
  HistorySize = 2
  maxInsertion = 12
  Readers = {r1}
CHECK_DEADLOCK FALSE
INVARIANT HistoryAnswers
