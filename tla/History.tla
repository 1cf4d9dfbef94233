------------------------------ MODULE History ------------------------------
(***************************************************************************)
(* The operations of dispatch/history.go as functions of the list they are *)
(* applied to.  A list is any sequence of records with a LastModified.     *)
(*                                                                         *)
(* sort.Sort is not stable: entries of equal rank may come out in any      *)
(* order, so the result of a sort is any ordered permutation.              *)
(***************************************************************************)
EXTENDS Naturals, Sequences

(* sort.Reverse(byTimestamp): an entry never stands before a later one.    *)
SortedByTimestamp(h) ==
  \A i, j \in DOMAIN h : i < j => h[j].LastModified <= h[i].LastModified

Permutation(p, n) ==
  /\ p \in [1..n -> 1..n]
  /\ \A i, j \in 1..n : p[i] = p[j] => i = j

(* What sort.Sort(sort.Reverse(byTimestamp(h))) may leave in place of h.   *)
Sorts(h) ==
  {g \in {[i \in 1..Len(h) |-> h[p[i]]] :
            p \in {q \in [1..Len(h) -> 1..Len(h)] : Permutation(q, Len(h))}} :
     SortedByTimestamp(g)}

(* Mutant: the newest entry is removed.                                    *)
TrimFirst(h, size) == IF Len(h) > size THEN Tail(h) ELSE h

(* "remove the last entry": one entry, and only when the list is too long. *)
Trim(h, size) == IF Len(h) > size THEN SubSeq(h, 1, Len(h) - 1) ELSE h

(* The lists Push may leave: append, sort, trim.                           *)
Pushed(h, n, size) == {Trim(g, size) : g \in Sorts(Append(h, n))}
=============================================================================
