---------------------------- MODULE HistorySlice ----------------------------
(***************************************************************************)
(* inMemoryHistory as it works in memory, and the handler of /__history.   *)
(*                                                                         *)
(* "notifications" is a Go slice: a reference to a backing array and a     *)
(* length.  Push, under the write lock, appends (in place when the array   *)
(* has room, otherwise into a new and larger one), sorts in place and cuts *)
(* off the last entry without touching the array.  The dispatcher's loop   *)
(* is the only caller of Push.                                             *)
(*                                                                         *)
(* Notifications() returns the slice itself.  The lock is given back       *)
(* before the handler of /__history walks over the array, so that Push may *)
(* write to the very cells that are being read.  An entry is read in one   *)
(* step here; reading it word by word only adds more outcomes.             *)
(*                                                                         *)
(* sort.Sort touches the entries only through Less and Swap, and returns   *)
(* when they are in order.  Up to maxInsertion entries (12 in Go) it sorts *)
(* by insertion, which swaps neighbours that are out of order and nothing  *)
(* else; which swaps it makes in a longer slice is left open.  A swap is   *)
(* two writes.                                                             *)
(***************************************************************************)
EXTENDS History, FiniteSets

CONSTANTS Entries, HistorySize, Readers, maxInsertion

ASSUME HistorySizeAssumption == HistorySize \in Nat
ASSUME maxInsertionAssumption == maxInsertion \in Nat
ASSUME EntriesAssumption ==
  \A e \in Entries : DOMAIN e = {"ID", "Type", "LastModified"} /\ e.LastModified \in Nat

VARIABLES
  arrays,    \* the backing arrays, in the order of their allocation
  slice,     \* inMemoryHistory.notifications
  pc,        \* where Push is; it holds the lock unless "idle"
  swap,      \* the second half of a swap: what is to be written, and where
  pushed,    \* the entries that were ever pushed
  last,      \* the one that was pushed last
  committed, \* the list as the last Push left it
  reader     \* the handlers of /__history

vars == <<arrays, slice, pc, swap, pushed, last, committed, reader>>

zero == [ID |-> "", Type |-> "", LastModified |-> 0]   \* an unused cell

View(s) == SubSeq(arrays[s.array], 1, s.len)

NoSwap == [to |-> 0, entry |-> zero]

NoReader == [pc |-> "idle", slice |-> [array |-> 1, len |-> 0],
             reply |-> <<>>, list |-> <<>>, overlapped |-> FALSE]

Init ==
  /\ arrays = <<<<>>>>
  /\ slice = [array |-> 1, len |-> 0]
  /\ pc = "idle"
  /\ swap = NoSwap
  /\ pushed = {}
  /\ last = zero
  /\ committed = <<>>
  /\ reader = [r \in Readers |-> NoReader]

----------------------------------------------------------------------------
Write(a, i, e) == arrays' = [arrays EXCEPT ![a][i] = e]

(* growslice: twice the capacity, or a quarter more and 192 for a long     *)
(* slice ...                                                               *)
Enlarged(c) == IF c = 0 THEN 1 ELSE IF c < 256 THEN 2 * c ELSE c + (c + 768) \div 4

(* ... rounded up to what the allocator hands out.  For entries of 184     *)
(* bytes 1, 2, 4, 8 and 16, the first capacities, are not rounded; later   *)
(* ones are, by less than a quarter.                                       *)
Capacities(c) ==
  IF Enlarged(c) < 32 THEN {Enlarged(c)}
                      ELSE Enlarged(c)..Enlarged(c) + Enlarged(c) \div 4

(* A push into array a begins while a handler is walking over it.          *)
Overlap(a) ==
  [r \in Readers |->
     IF reader[r].pc = "reading" /\ reader[r].slice.array = a
     THEN [reader[r] EXCEPT !.overlapped = TRUE] ELSE reader[r]]

(* Lock, then append(i.notifications, n).                                  *)
AppendEntry(e) ==
  LET a == slice.array
      cap == Len(arrays[a])
      grown(c) == [i \in 1..c |-> IF i <= slice.len THEN arrays[a][i]
                                  ELSE IF i = slice.len + 1 THEN e ELSE zero]
  IN
  /\ pc = "idle"
  /\ e \notin pushed
  /\ IF slice.len < cap
     THEN /\ Write(a, slice.len + 1, e)
          /\ slice' = [slice EXCEPT !.len = @ + 1]
          /\ reader' = Overlap(a)
     ELSE /\ \E c \in Capacities(cap) : arrays' = Append(arrays, grown(c))
          /\ slice' = [array |-> Len(arrays) + 1, len |-> slice.len + 1]
          /\ UNCHANGED reader
  /\ pc' = "sort"
  /\ pushed' = pushed \cup {e}
  /\ last' = e
  /\ UNCHANGED <<swap, committed>>

(* Mutant: the forgotten sort.Reverse.                                     *)
LessAscending(i, j) ==
  arrays[slice.array][i].LastModified < arrays[slice.array][j].LastModified

(* sort.Reverse(byTimestamp(i.notifications)).Less(i, j)                   *)
Less(i, j) ==
  arrays[slice.array][j].LastModified < arrays[slice.array][i].LastModified

(* The first half of a Swap(i, j) of the sort ...                          *)
SwapFirst(i, j) ==
  /\ pc = "sort"
  /\ i # j
  /\ slice.len <= maxInsertion => j = i - 1 /\ Less(i, j)
  /\ Write(slice.array, i, arrays[slice.array][j])
  /\ swap' = [to |-> j, entry |-> arrays[slice.array][i]]
  /\ pc' = "swap"
  /\ UNCHANGED <<slice, pushed, last, committed, reader>>

(* ... and the second.                                                     *)
SwapSecond ==
  /\ pc = "swap"
  /\ Write(slice.array, swap.to, swap.entry)
  /\ swap' = NoSwap
  /\ pc' = "sort"
  /\ UNCHANGED <<slice, pushed, last, committed, reader>>

(* Mutant: the last entry is removed one push too late.                    *)
CutLate(n) == IF n > HistorySize + 1 THEN n - 1 ELSE n

(* "remove the last entry"                                                 *)
Cut(n) == IF n > HistorySize THEN n - 1 ELSE n

(* The end of the sort, the cut and Unlock.                                *)
EndPush ==
  /\ pc = "sort"
  /\ \A i, j \in 1..slice.len : i < j => ~Less(j, i)
  /\ slice' = [slice EXCEPT !.len = Cut(@)]
  /\ committed' = View(slice')
  /\ pc' = "idle"
  /\ UNCHANGED <<arrays, swap, pushed, last, reader>>

----------------------------------------------------------------------------
(* A handler begins to walk over what Notifications() returns.             *)
BeginWalk(r) ==
  /\ reader[r].pc = "idle"
  /\ reader' = [reader EXCEPT ![r] = [NoReader EXCEPT !.pc = "reading",
                                        !.slice = slice, !.list = View(slice)]]
  /\ UNCHANGED <<arrays, slice, pc, swap, pushed, last, committed>>

(* Mutant: the forgotten RLock.                                            *)
NotificationsUnlocked(r) == BeginWalk(r)

(* history.Notifications(), between two pushes because of the lock.        *)
Notifications(r) == pc = "idle" /\ BeginWalk(r)

(* CreateNotificationResponse(n, nil) looks into the options of a CREATE.  *)
Dereferences(n) == n.Type = "CREATE"

(* The next entry of the range over the slice that was returned.           *)
NextEntry(r) == arrays[reader[r].slice.array][Len(reader[r].reply) + 1]

ReadEntry(r) ==
  /\ reader[r].pc = "reading"
  /\ Len(reader[r].reply) < reader[r].slice.len
  /\ reader' = IF Dereferences(NextEntry(r))
               THEN [reader EXCEPT ![r].pc = "panic"]
               ELSE [reader EXCEPT ![r].reply = Append(@, NextEntry(r))]
  /\ UNCHANGED <<arrays, slice, pc, swap, pushed, last, committed>>

Answer(r) ==
  /\ reader[r].pc = "reading"
  /\ Len(reader[r].reply) = reader[r].slice.len
  /\ reader' = [reader EXCEPT ![r].pc = "done"]
  /\ UNCHANGED <<arrays, slice, pc, swap, pushed, last, committed>>

(* The client asks again.                                                  *)
Again(r) ==
  /\ reader[r].pc \in {"done", "panic"}
  /\ reader' = [reader EXCEPT ![r] = NoReader]
  /\ UNCHANGED <<arrays, slice, pc, swap, pushed, last, committed>>

Next ==
  \/ \E e \in Entries : AppendEntry(e)
  \/ \E i, j \in 1..slice.len : SwapFirst(i, j)
  \/ SwapSecond \/ EndPush
  \/ \E r \in Readers : Notifications(r) \/ ReadEntry(r) \/ Answer(r) \/ Again(r)

Spec == Init /\ [][Next]_vars

----------------------------------------------------------------------------
(* Properties.                                                             *)

(* The slice lies within its array and, between pushes, within its size;   *)
(* append never makes more room than two and a half times what the history *)
(* may hold.                                                               *)
TypeOK ==
  /\ \A a \in DOMAIN arrays : arrays[a] \in Seq(Entries \cup {zero})
  /\ slice.array \in DOMAIN arrays
  /\ slice.len \in 0..Len(arrays[slice.array])
  /\ 2 * Len(arrays[slice.array]) <= 5 * HistorySize + 2
  /\ pc = "idle" => slice.len <= HistorySize
  /\ pc \in {"idle", "sort", "swap"}
  /\ pushed \subseteq Entries
  /\ \A r \in Readers : reader[r].pc \in {"idle", "reading", "done", "panic"}

(* Push in place is Push as HistoryStore describes it: append, any sort,   *)
(* cut, in one step, for all who look while it does not hold the lock.     *)
Store == INSTANCE HistoryStore WITH notifications <- committed
PushIsAtomic == Store!Spec

(* /__history answers with the list as it was when it was asked for,       *)
(* unless a push into the very array begins while the handler walks over   *)
(* it: not by a push that was under way, which Notifications() waits for,  *)
(* nor by one that allocates, nor by any after that.                       *)
ReplyIsSnapshot ==
  \A r \in Readers :
    reader[r].pc = "done" /\ ~reader[r].overlapped => reader[r].reply = reader[r].list

(* What README.md says of /__history: it returns the last notifications,   *)
(* so that none is in the answer twice.                                    *)
EachOnce ==
  \A r \in Readers : \A i, j \in DOMAIN reader[r].reply :
    reader[r].reply[i] = reader[r].reply[j] => i = j

(* What README.md says of /__history: a GET returns the history.           *)
HistoryAnswers == \A r \in Readers : reader[r].pc # "panic"

(* What the comment on History says: it contains the last x notifications  *)
(* that were pushed, so that the one pushed last is among them.            *)
ContainsLastPushed ==
  pc = "idle" /\ pushed # {} /\ HistorySize > 0 =>
    \E i \in DOMAIN committed : committed[i] = last
=============================================================================
