----------------------------- MODULE MCHistory -----------------------------
(* Instances of HistorySlice for TLC.                                      *)
EXTENDS HistorySlice

Entry(id, type, rank) == [ID |-> id, Type |-> type, LastModified |-> rank]

(* Two entries of the same time, one newer, one without a valid time.      *)
UpdateEntries ==
  {Entry("a", "UPDATE", 1), Entry("b", "UPDATE", 2), Entry("c", "DELETE", 1),
   Entry("d", "UPDATE", 0)}
CreateEntries == {Entry("a", "UPDATE", 1), Entry("b", "CREATE", 2)}
=============================================================================
