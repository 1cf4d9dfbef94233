---------------------------- MODULE HistoryStore ----------------------------
(***************************************************************************)
(* What dispatch.History promises its callers: a list that one push at a   *)
(* time is inserted into, kept in order and cut to size in a single step.  *)
(* HistorySlice shows that the code, which works in place on a Go slice,   *)
(* implements this specification for whoever looks between two pushes.     *)
(***************************************************************************)
EXTENDS History

CONSTANTS
  Entries,     \* the notifications that are pushed, each at most once
  HistorySize  \* the size given to NewHistory

VARIABLE notifications

Init == notifications = <<>>

Push(e) == notifications' \in Pushed(notifications, e, HistorySize)

Next == \E e \in Entries : Push(e)

Spec == Init /\ [][Next]_notifications
=============================================================================
