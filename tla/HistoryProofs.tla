--------------------------- MODULE HistoryProofs ---------------------------
(***************************************************************************)
(* Theorems about HistorySlice, for every set of entries, any number of    *)
(* readers and every size of the history, whatever swaps sort.Sort makes.  *)
(***************************************************************************)
EXTENDS HistorySlice, TLAPS

Cell == Entries \cup {zero}

(* The array that Push works on.                                           *)
Current == arrays[slice.array]

(* The slice lies within its array, which is not too large.                *)
ArraysInv ==
  /\ arrays \in Seq(Seq(Cell))
  /\ slice \in [array : Nat, len : Nat]
  /\ slice.array \in 1..Len(arrays)
  /\ slice.len <= Len(Current)
  /\ 2 * Len(Current) <= 5 * HistorySize + 2

(* Where Push is, and the list it has to preserve.                         *)
PlaceInv ==
  /\ pc \in {"idle", "sort", "swap"}
  /\ pushed \subseteq Entries
  /\ committed \in Seq(Entries)
  /\ swap \in [to : Nat, entry : Cell]
  /\ pc = "idle" => slice.len = Len(committed) /\ slice.len <= HistorySize
  /\ pc # "idle" =>
       last \in Entries /\ slice.len = Len(committed) + 1 /\ slice.len <= HistorySize + 1
  /\ pc = "swap" => swap.to \in 1..slice.len

(* Cell i once the swap that is under way, if any, is over.                *)
Held(i) == IF pc = "swap" /\ i = swap.to THEN swap.entry ELSE Current[i]

(* The cells of the slice are some arrangement of the list h.              *)
Arranged(h) ==
  \E p : Permutation(p, slice.len) /\ \A i \in 1..slice.len : Held(i) = h[p[i]]

(* Between pushes the slice is the list; during one no entry of the list   *)
(* and the new one is lost or there twice.                                 *)
CellsInv ==
  /\ pc = "idle" => \A i \in 1..slice.len : Current[i] = committed[i]
  /\ pc # "idle" => Arranged(Append(committed, last))

Reader ==
  [pc : {"idle", "reading", "done", "panic"}, slice : [array : Nat, len : Nat],
   reply : Seq(Cell), list : Seq(Cell), overlapped : BOOLEAN]

(* What a handler of /__history has and still has to read.                 *)
ReaderInv(r) ==
  LET x == reader[r] IN
  /\ x \in Reader
  /\ x.pc = "reading" =>
       /\ x.slice.array \in 1..Len(arrays)
       /\ x.slice.len <= Len(arrays[x.slice.array])
       /\ Len(x.reply) <= x.slice.len
       /\ ~x.overlapped =>
            /\ pc # "idle" => x.slice.array # slice.array
            /\ Len(x.list) = x.slice.len
            /\ \A i \in 1..x.slice.len : arrays[x.slice.array][i] = x.list[i]
            /\ \A i \in 1..Len(x.reply) : x.reply[i] = x.list[i]
  /\ x.pc = "done" /\ ~x.overlapped => x.reply = x.list

IInv == /\ ArraysInv /\ PlaceInv /\ CellsInv
        /\ DOMAIN reader = Readers /\ \A r \in Readers : ReaderInv(r)

----------------------------------------------------------------------------
(* Writes to the arrays, and who is reading meanwhile.                     *)

(* A write changes one cell.                                               *)
LEMMA WriteCell ==
  ASSUME NEW A \in Seq(Seq(Cell)), NEW a \in 1..Len(A), NEW i \in 1..Len(A[a]),
         NEW e \in Cell, NEW B, B = [A EXCEPT ![a][i] = e]
  PROVE  /\ B \in Seq(Seq(Cell)) /\ Len(B) = Len(A)
         /\ \A b \in 1..Len(A) :
              /\ Len(B[b]) = Len(A[b])
              /\ \A j \in 1..Len(A[b]) :
                   B[b][j] = IF b = a /\ j = i THEN e ELSE A[b][j]
<1> DEFINE row == [A[a] EXCEPT ![i] = e]
<1>1. A[a] \in Seq(Cell)
  OBVIOUS
<1>2. row \in Seq(Cell) /\ Len(row) = Len(A[a])
  BY <1>1
<1>3. \A j \in 1..Len(A[a]) : row[j] = IF j = i THEN e ELSE A[a][j]
  BY <1>1
<1>4. B = [A EXCEPT ![a] = row]
  OBVIOUS
<1> HIDE DEF row
<1>5. B \in Seq(Seq(Cell)) /\ Len(B) = Len(A)
  BY <1>2, <1>4
<1>6. \A b \in 1..Len(A) : B[b] = IF b = a THEN row ELSE A[b]
  BY <1>4
<1> QED BY <1>2, <1>3, <1>5, <1>6

(* A handler that is given a list, that is marked, that goes on, or that   *)
(* has read one more entry.                                                *)
Given(s, list) == [NoReader EXCEPT !.pc = "reading", !.slice = s, !.list = list]
Marked(x) == [x EXCEPT !.overlapped = TRUE]
Gone(x, where) == [x EXCEPT !.pc = where]
HasRead(x, e) == [x EXCEPT !.reply = Append(@, e)]

LEMMA ReaderType ==
  /\ NoReader \in Reader /\ NoReader.pc = "idle"
  /\ \A s \in [array : Nat, len : Nat], list \in Seq(Cell) :
       /\ Given(s, list) \in Reader /\ Given(s, list).pc = "reading"
       /\ Given(s, list).slice = s /\ Given(s, list).list = list
       /\ Given(s, list).reply = <<>> /\ ~Given(s, list).overlapped
  /\ \A x \in Reader :
       /\ Marked(x) \in Reader /\ Marked(x).overlapped
       /\ Marked(x).pc = x.pc /\ Marked(x).slice = x.slice
       /\ Marked(x).reply = x.reply /\ Marked(x).list = x.list
  /\ \A x \in Reader, where \in {"idle", "reading", "done", "panic"} :
       /\ Gone(x, where) \in Reader /\ Gone(x, where).pc = where
       /\ Gone(x, where).overlapped = x.overlapped /\ Gone(x, where).slice = x.slice
       /\ Gone(x, where).reply = x.reply /\ Gone(x, where).list = x.list
  /\ \A x \in Reader, e \in Cell :
       /\ HasRead(x, e) \in Reader /\ HasRead(x, e).pc = x.pc
       /\ HasRead(x, e).overlapped = x.overlapped /\ HasRead(x, e).slice = x.slice
       /\ HasRead(x, e).reply = Append(x.reply, e) /\ HasRead(x, e).list = x.list
<1>1. ASSUME NEW x \in Reader
      PROVE  /\ Marked(x) \in Reader /\ Marked(x).overlapped
             /\ Marked(x).pc = x.pc /\ Marked(x).slice = x.slice
             /\ Marked(x).reply = x.reply /\ Marked(x).list = x.list
  BY Zenon DEF Reader, Marked
<1>2. ASSUME NEW x \in Reader, NEW where \in {"idle", "reading", "done", "panic"}
      PROVE  /\ Gone(x, where) \in Reader /\ Gone(x, where).pc = where
             /\ Gone(x, where).overlapped = x.overlapped /\ Gone(x, where).slice = x.slice
             /\ Gone(x, where).reply = x.reply /\ Gone(x, where).list = x.list
  BY Zenon DEF Reader, Gone
<1>3. ASSUME NEW x \in Reader, NEW e \in Cell
      PROVE  /\ HasRead(x, e) \in Reader /\ HasRead(x, e).pc = x.pc
             /\ HasRead(x, e).overlapped = x.overlapped /\ HasRead(x, e).slice = x.slice
             /\ HasRead(x, e).reply = Append(x.reply, e) /\ HasRead(x, e).list = x.list
  <2>1. \A s \in Seq(Cell) : Append(s, e) \in Seq(Cell)
    OBVIOUS
  <2> QED BY <2>1, Zenon DEF Reader, HasRead
<1>4. NoReader \in Reader /\ NoReader.pc = "idle"
      /\ NoReader.reply = <<>> /\ ~NoReader.overlapped
  BY DEF NoReader, Reader
<1>5. ASSUME NEW s \in [array : Nat, len : Nat], NEW list \in Seq(Cell)
      PROVE  /\ Given(s, list) \in Reader /\ Given(s, list).pc = "reading"
             /\ Given(s, list).slice = s /\ Given(s, list).list = list
             /\ Given(s, list).reply = <<>> /\ ~Given(s, list).overlapped
  BY <1>4, Zenon DEF Reader, Given
<1> QED BY <1>1, <1>2, <1>3, <1>4, <1>5, Zenon

(* A handler that is marked when a push begins in its array.               *)
LEMMA OverlapMarks ==
  ASSUME NEW a, NEW r \in Readers, ReaderInv(r)
  PROVE  LET x == reader[r]
             y == Overlap(a)[r]
         IN  /\ y \in Reader /\ y.pc = x.pc /\ y.slice = x.slice
             /\ y.reply = x.reply /\ y.list = x.list
             /\ ~y.overlapped => /\ ~x.overlapped
                                 /\ x.pc = "reading" => x.slice.array # a
<1> DEFINE x == reader[r]
           y == Overlap(a)[r]
           hit == x.pc = "reading" /\ x.slice.array = a
<1>1. y = IF hit THEN Marked(x) ELSE x
  BY DEF Overlap, Marked
<1>2. x \in Reader
  BY DEF ReaderInv
<1> HIDE DEF x, y
<1>3. CASE hit
  BY <1>1, <1>2, <1>3, ReaderType DEF x, y
<1>4. CASE ~hit
  BY <1>1, <1>2, <1>4 DEF x, y
<1> QED BY <1>3, <1>4

(* A write of Push leaves a handler alone that is walking over another     *)
(* array.                                                                  *)
LEMMA WriteKeepsReaders ==
  ASSUME ArraysInv, NEW i \in 1..Len(Current), NEW e \in Cell,
         Write(slice.array, i, e), slice'.array = slice.array,
         NEW r \in Readers, ReaderInv(r), reader'[r] \in Reader,
         reader'[r].pc = reader[r].pc, reader'[r].slice = reader[r].slice,
         reader'[r].reply = reader[r].reply, reader'[r].list = reader[r].list,
         ~reader'[r].overlapped =>
           /\ ~reader[r].overlapped
           /\ reader[r].pc = "reading" => reader[r].slice.array # slice.array
  PROVE  ReaderInv(r)'
<1> DEFINE x == reader[r]
           y == reader'[r]
<1>1. /\ Len(arrays') = Len(arrays)
      /\ \A b \in 1..Len(arrays) :
           /\ Len(arrays'[b]) = Len(arrays[b])
           /\ \A j \in 1..Len(arrays[b]) :
                b # slice.array => arrays'[b][j] = arrays[b][j]
  <2>1. slice.array \in 1..Len(arrays) /\ i \in 1..Len(arrays[slice.array])
        /\ arrays \in Seq(Seq(Cell))
    BY DEF ArraysInv, Current
  <2>2. arrays' = [arrays EXCEPT ![slice.array][i] = e]
    BY DEF Write
  <2> QED BY <2>1, <2>2, WriteCell
<1>2. ASSUME x.pc = "reading"
      PROVE  /\ x.slice.array \in 1..Len(arrays') /\ x.slice.array \in 1..Len(arrays)
             /\ x.slice.len <= Len(arrays'[x.slice.array])
             /\ x.slice.len <= Len(arrays[x.slice.array])
             /\ x.slice.len \in Nat
             /\ Len(x.reply) <= x.slice.len
  BY <1>1, <1>2 DEF ReaderInv, Reader
<1>3. ASSUME x.pc = "reading", ~y.overlapped
      PROVE  /\ x.slice.array # slice.array
             /\ Len(x.list) = x.slice.len
             /\ \A j \in 1..x.slice.len : arrays'[x.slice.array][j] = x.list[j]
             /\ \A j \in 1..Len(x.reply) : x.reply[j] = x.list[j]
  <2>1. /\ Len(x.list) = x.slice.len /\ x.slice.array # slice.array
        /\ \A j \in 1..x.slice.len : arrays[x.slice.array][j] = x.list[j]
        /\ \A j \in 1..Len(x.reply) : x.reply[j] = x.list[j]
    BY <1>3 DEF ReaderInv
  <2>2. ASSUME NEW j \in 1..x.slice.len
        PROVE  arrays'[x.slice.array][j] = arrays[x.slice.array][j]
    <3>1. x.slice.array \in 1..Len(arrays) /\ x.slice.len \in Nat
          /\ x.slice.len <= Len(arrays[x.slice.array])
      BY <1>2, <1>3
    <3>2. arrays[x.slice.array] \in Seq(Cell)
      BY <3>1 DEF ArraysInv
    <3> HIDE DEF x, y
    <3>3. j \in 1..Len(arrays[x.slice.array])
      BY <3>1, <3>2
    <3> QED BY <1>1, <2>1, <3>1, <3>3
  <2> QED BY <2>1, <2>2
<1>4. x.pc = "done" /\ ~x.overlapped => x.reply = x.list
  BY DEF ReaderInv
<1>5. /\ y \in Reader /\ y.pc = x.pc /\ y.slice = x.slice
      /\ y.reply = x.reply /\ y.list = x.list /\ (~y.overlapped => ~x.overlapped)
  OBVIOUS
<1> HIDE DEF x, y
<1>6. /\ y.pc = "reading" =>
           /\ y.slice.array \in 1..Len(arrays')
           /\ y.slice.len <= Len(arrays'[y.slice.array])
           /\ Len(y.reply) <= y.slice.len
           /\ ~y.overlapped =>
                /\ y.slice.array # slice.array
                /\ Len(y.list) = y.slice.len
                /\ \A j \in 1..y.slice.len : arrays'[y.slice.array][j] = y.list[j]
                /\ \A j \in 1..Len(y.reply) : y.reply[j] = y.list[j]
      /\ y.pc = "done" /\ ~y.overlapped => y.reply = y.list
  BY <1>2, <1>3, <1>4, <1>5, Zenon
<1> QED BY <1>5, <1>6, Zenon DEF ReaderInv, y

(* A new array is nobody's who is reading.                                 *)
LEMMA AllocationKeepsReaders ==
  ASSUME ArraysInv, NEW row \in Seq(Cell), arrays' = Append(arrays, row),
         slice'.array = Len(arrays) + 1,
         UNCHANGED reader, NEW r \in Readers, ReaderInv(r)
  PROVE  ReaderInv(r)'
<1>1. /\ Len(arrays') = Len(arrays) + 1 /\ Len(arrays) \in Nat
      /\ \A b \in 1..Len(arrays) : b \in 1..Len(arrays') /\ arrays'[b] = arrays[b]
                                    /\ b # slice'.array
  BY DEF ArraysInv
<1> QED BY <1>1 DEF ReaderInv

LEMMA SameArraysKeepReader ==
  ASSUME NEW r \in Readers, ReaderInv(r), reader'[r] = reader[r], UNCHANGED arrays,
         pc' = "idle" \/ (pc' = pc /\ slice' = slice)
  PROVE  ReaderInv(r)'
BY DEF ReaderInv

----------------------------------------------------------------------------
(* The handlers of /__history.                                             *)

pushVars == <<arrays, slice, pc, swap, pushed, last, committed>>

LEMMA SamePush ==
  ASSUME IInv, UNCHANGED pushVars
  PROVE  ArraysInv' /\ PlaceInv' /\ CellsInv'
<1> USE DEF pushVars
<1>1. ArraysInv' /\ PlaceInv'
  BY DEF IInv, ArraysInv, PlaceInv, Current
<1>2. CellsInv'
  BY Zenon DEF IInv, CellsInv, Current, Held, Arranged
<1> QED BY <1>1, <1>2

(* A handler's step is about itself.                                       *)
LEMMA ReaderStep ==
  ASSUME IInv, NEW r \in Readers, NEW y, reader' = [reader EXCEPT ![r] = y],
         UNCHANGED pushVars, y = reader'[r] => ReaderInv(r)'
  PROVE  IInv'
<1> USE DEF pushVars
<1>1. DOMAIN reader' = Readers /\ reader'[r] = y
      /\ \A t \in Readers \ {r} : reader'[t] = reader[t]
  BY DEF IInv
<1>2. ArraysInv' /\ PlaceInv' /\ CellsInv'
  BY SamePush
<1>3. ASSUME NEW t \in Readers PROVE ReaderInv(t)'
  <2>1. CASE t = r
    BY <1>1, <2>1
  <2>2. CASE t # r
    BY <1>1, <2>2, SameArraysKeepReader DEF IInv
  <2> QED BY <2>1, <2>2
<1> QED BY <1>1, <1>2, <1>3 DEF IInv

(* Notifications() hands out the slice between two pushes.                 *)
LEMMA NotificationsStep ==
  ASSUME IInv, NEW r \in Readers, Notifications(r)
  PROVE  IInv'
<1> DEFINE y == Given(slice, View(slice))
<1>1. /\ reader' = [reader EXCEPT ![r] = y] /\ UNCHANGED pushVars
      /\ pc = "idle" /\ ArraysInv
  BY DEF Notifications, BeginWalk, pushVars, IInv, Given
<1>2. Current \in Seq(Cell) /\ slice.len \in Nat /\ slice.len <= Len(Current)
  BY <1>1 DEF ArraysInv, Current
<1>3. /\ View(slice) \in Seq(Cell) /\ Len(View(slice)) = slice.len
      /\ \A i \in 1..slice.len : View(slice)[i] = Current[i]
  BY <1>2 DEF View, Current
<1>4. slice \in [array : Nat, len : Nat]
  BY <1>1 DEF ArraysInv
<1>5. /\ y \in Reader /\ y.pc = "reading" /\ y.slice = slice /\ y.reply = <<>>
      /\ y.list = View(slice) /\ ~y.overlapped
  BY <1>3, <1>4, ReaderType
<1> HIDE DEF y
<1>6. y = reader'[r] => ReaderInv(r)'
  <2> SUFFICES ASSUME y = reader'[r] PROVE ReaderInv(r)'
    OBVIOUS
  <2>1. arrays' = arrays /\ pc' = "idle"
    BY <1>1 DEF pushVars
  <2>2. /\ y.slice.array \in 1..Len(arrays)
        /\ y.slice.len <= Len(arrays[y.slice.array])
        /\ Len(y.reply) <= y.slice.len
        /\ Len(y.list) = y.slice.len
        /\ \A i \in 1..y.slice.len : arrays[y.slice.array][i] = y.list[i]
        /\ \A i \in 1..Len(y.reply) : y.reply[i] = y.list[i]
    <3>1. /\ slice.array \in 1..Len(arrays)
          /\ slice.len <= Len(arrays[slice.array])
          /\ Len(<<>>) <= slice.len /\ 1..Len(<<>>) = {}
          /\ Len(View(slice)) = slice.len
          /\ \A i \in 1..slice.len : arrays[slice.array][i] = View(slice)[i]
      BY <1>1, <1>2, <1>3 DEF ArraysInv, Current
    <3> QED BY <1>5, <3>1, Zenon
  <2> QED BY <1>5, <2>1, <2>2 DEF ReaderInv
<1> QED BY <1>1, <1>6, ReaderStep

(* The handler reads the next cell of the array it was given.              *)
LEMMA ReadEntryStep ==
  ASSUME IInv, NEW r \in Readers, ReadEntry(r)
  PROVE  IInv'
<1> DEFINE x == reader[r]
           e == NextEntry(r)
           k == Len(x.reply) + 1
           y == IF Dereferences(e) THEN Gone(x, "panic") ELSE HasRead(x, e)
<1>1. /\ reader' = [reader EXCEPT ![r] = y] /\ UNCHANGED pushVars
      /\ x.pc = "reading" /\ Len(x.reply) < x.slice.len
  <2>1. reader' = [reader EXCEPT ![r] = y]
    BY Zenon DEF ReadEntry, Gone, HasRead
  <2> QED BY <2>1 DEF ReadEntry, pushVars
<1>2. x \in Reader /\ ReaderInv(r)
  BY DEF IInv, ReaderInv
<1>3. /\ x.slice.array \in 1..Len(arrays) /\ x.slice.len <= Len(arrays[x.slice.array])
      /\ x.slice.len \in Nat /\ x.reply \in Seq(Cell)
  BY <1>1, <1>2 DEF ReaderInv, Reader
<1>4. arrays[x.slice.array] \in Seq(Cell) /\ e = arrays[x.slice.array][k]
  BY <1>3 DEF IInv, ArraysInv, NextEntry
<1>5. k \in 1..x.slice.len /\ k \in 1..Len(arrays[x.slice.array])
  <2> HIDE DEF x, e, y
  <2> QED BY <1>1, <1>3, <1>4
<1> HIDE DEF x, e, y
<1>6. e \in Cell
  BY <1>4, <1>5
<1>7. y = reader'[r] => ReaderInv(r)'
  <2> SUFFICES ASSUME y = reader'[r] PROVE ReaderInv(r)'
    OBVIOUS
  <2>1. arrays' = arrays /\ pc' = pc /\ slice' = slice
    BY <1>1 DEF pushVars
  <2>2. CASE Dereferences(e)
    <3>1. y \in Reader /\ y.pc = "panic"
      BY <1>2, <2>2, ReaderType DEF y
    <3> QED BY <3>1 DEF ReaderInv
  <2>3. CASE ~Dereferences(e)
    <3>1. /\ y \in Reader /\ y.pc = "reading" /\ y.overlapped = x.overlapped
          /\ y.slice = x.slice /\ y.reply = Append(x.reply, e) /\ y.list = x.list
      BY <1>1, <1>2, <1>6, <2>3, ReaderType DEF y
    <3>2. /\ Len(y.reply) = k /\ y.reply[k] = e
          /\ \A i \in 1..k : i = k \/ (i \in 1..Len(x.reply) /\ y.reply[i] = x.reply[i])
      BY <1>3, <1>6, <3>1
    <3>3. ~x.overlapped =>
            /\ pc # "idle" => x.slice.array # slice.array
            /\ Len(x.list) = x.slice.len
            /\ \A i \in 1..x.slice.len : arrays[x.slice.array][i] = x.list[i]
            /\ \A i \in 1..Len(x.reply) : x.reply[i] = x.list[i]
      BY <1>1, <1>2 DEF ReaderInv, x
    <3>4. ~x.overlapped => \A i \in 1..Len(y.reply) : y.reply[i] = y.list[i]
      BY <1>4, <1>5, <3>1, <3>2, <3>3
    <3>5. Len(y.reply) <= y.slice.len
      BY <1>5, <3>1, <3>2
    <3> QED BY <1>3, <2>1, <3>1, <3>3, <3>4, <3>5 DEF ReaderInv
  <2> QED BY <2>2, <2>3
<1> QED BY <1>1, <1>7, ReaderStep

(* The answer is complete; or the client asks again.                       *)
LEMMA AnswerStep ==
  ASSUME IInv, NEW r \in Readers, Answer(r) \/ Again(r)
  PROVE  IInv'
<1>1. CASE Answer(r)
  <2> DEFINE x == reader[r]
             y == Gone(x, "done")
  <2>1. /\ reader' = [reader EXCEPT ![r] = y] /\ UNCHANGED pushVars
        /\ x.pc = "reading" /\ Len(x.reply) = x.slice.len
    BY <1>1 DEF Answer, pushVars, Gone
  <2>2. x \in Reader /\ ReaderInv(r)
    BY DEF IInv, ReaderInv
  <2>3. /\ y \in Reader /\ y.pc = "done" /\ y.overlapped = x.overlapped
        /\ y.reply = x.reply /\ y.list = x.list
    BY <2>2, ReaderType
  <2> HIDE DEF y
  <2>4. ~x.overlapped => x.reply = x.list
    <3> SUFFICES ASSUME ~x.overlapped PROVE x.reply = x.list
      OBVIOUS
    <3>1. /\ Len(x.list) = x.slice.len
          /\ \A i \in 1..Len(x.reply) : x.reply[i] = x.list[i]
      BY <2>1, <2>2 DEF ReaderInv
    <3>2. x.reply \in Seq(Cell) /\ x.list \in Seq(Cell)
      BY <2>2 DEF Reader
    <3> HIDE DEF x
    <3> QED BY <2>1, <3>1, <3>2
  <2>5. y = reader'[r] => ReaderInv(r)'
    BY <2>3, <2>4 DEF ReaderInv
  <2> QED BY <2>1, <2>5, ReaderStep
<1>2. CASE Again(r)
  <2>1. reader' = [reader EXCEPT ![r] = NoReader] /\ UNCHANGED pushVars
    BY <1>2 DEF Again, pushVars
  <2>2. NoReader \in Reader /\ NoReader.pc = "idle"
    BY ReaderType
  <2>3. NoReader = reader'[r] => ReaderInv(r)'
    BY <2>2 DEF ReaderInv
  <2> QED BY <2>1, <2>3, ReaderStep
<1> QED BY <1>1, <1>2

----------------------------------------------------------------------------
(* Push.                                                                   *)

LEMMA EntryTime ==
  /\ \A e \in Entries : e \in Cell /\ e.LastModified \in Nat
  /\ zero \in Cell /\ HistorySize \in Nat
BY EntriesAssumption, HistorySizeAssumption DEF Cell

(* The slice after a step of Push.                                         *)
LEMMA SliceType ==
  /\ \A s \in [array : Nat, len : Nat], n \in Nat :
       /\ [s EXCEPT !.len = n] \in [array : Nat, len : Nat]
       /\ [s EXCEPT !.len = n].array = s.array
       /\ [s EXCEPT !.len = n].len = n
  /\ \A a, n \in Nat : /\ [array |-> a, len |-> n] \in [array : Nat, len : Nat]
                       /\ [array |-> a, len |-> n].array = a
                       /\ [array |-> a, len |-> n].len = n
OBVIOUS

(* A write of Push to the array of the slice.                              *)
LEMMA WriteCurrent ==
  ASSUME IInv, NEW i \in 1..Len(Current), NEW e \in Cell,
         Write(slice.array, i, e)
  PROVE  /\ arrays' \in Seq(Seq(Cell)) /\ Len(arrays') = Len(arrays)
         /\ arrays'[slice.array] \in Seq(Cell)
         /\ Len(arrays'[slice.array]) = Len(Current)
         /\ \A j \in 1..Len(Current) :
              arrays'[slice.array][j] = IF j = i THEN e ELSE Current[j]
<1>1. /\ slice.array \in 1..Len(arrays) /\ arrays \in Seq(Seq(Cell))
      /\ i \in 1..Len(arrays[slice.array])
  BY DEF IInv, ArraysInv, Current
<1>2. /\ arrays' \in Seq(Seq(Cell)) /\ Len(arrays') = Len(arrays)
      /\ \A b \in 1..Len(arrays) :
           /\ Len(arrays'[b]) = Len(arrays[b])
           /\ \A j \in 1..Len(arrays[b]) :
                arrays'[b][j] = IF b = slice.array /\ j = i THEN e ELSE arrays[b][j]
  <2>1. arrays' = [arrays EXCEPT ![slice.array][i] = e]
    BY DEF Write
  <2> QED BY <1>1, <2>1, WriteCell
<1> QED BY <1>1, <1>2 DEF Current

(* The array that append allocates has room for the new entry, and not too *)
(* much.                                                                   *)
LEMMA CapacityBounds ==
  ASSUME NEW c \in Nat, c <= HistorySize, NEW d \in Capacities(c)
  PROVE  d \in Nat /\ c + 1 <= d /\ 2 * d <= 5 * HistorySize + 2
<1> USE EntryTime
<1>1. Enlarged(c) \in Nat /\ c + 1 <= Enlarged(c) /\ (c = 0 => Enlarged(c) = 1)
      /\ (c > 0 => Enlarged(c) <= 2 * c)
  BY DEF Enlarged
<1> DEFINE x == Enlarged(c)
           q == x \div 4
<1> HIDE DEF x
<1>2. x \in Nat /\ q \in Nat /\ 4 * q <= x
  BY <1>1 DEF x
<1>3. d \in IF x < 32 THEN {x} ELSE x..x + q
  BY DEF Capacities, x
<1> HIDE DEF q
<1>4. d \in Nat /\ x <= d /\ d <= x + q /\ (x < 32 => d = x)
  BY <1>2, <1>3
<1> QED BY <1>1, <1>2, <1>4 DEF x

(* append: in place or into a new array, the slice is one entry longer and *)
(* the cells before it are the same.                                       *)
LEMMA AppendEffect ==
  ASSUME IInv, NEW e \in Entries, AppendEntry(e)
  PROVE  /\ arrays' \in Seq(Seq(Cell))
         /\ slice' \in [array : Nat, len : Nat]
         /\ slice'.array \in 1..Len(arrays')
         /\ slice'.len = slice.len + 1
         /\ slice'.len <= Len(arrays'[slice'.array])
         /\ 2 * Len(arrays'[slice'.array]) <= 5 * HistorySize + 2
         /\ \A i \in 1..slice.len : arrays'[slice'.array][i] = Current[i]
         /\ arrays'[slice'.array][slice.len + 1] = e
         /\ DOMAIN reader' = Readers /\ \A r \in Readers : ReaderInv(r)'
<1> DEFINE n == slice.len
           cap == Len(Current)
           row(c) == [i \in 1..c |->
                        IF i <= n THEN Current[i] ELSE IF i = n + 1 THEN e ELSE zero]
<1>1. /\ arrays \in Seq(Seq(Cell)) /\ slice \in [array : Nat, len : Nat]
      /\ slice.array \in 1..Len(arrays) /\ n \in Nat /\ n <= cap
      /\ 2 * cap <= 5 * HistorySize + 2 /\ Current \in Seq(Cell) /\ cap \in Nat
      /\ n <= HistorySize /\ e \in Cell
  BY EntryTime DEF IInv, ArraysInv, PlaceInv, AppendEntry, Current
<1>2. CASE n < cap
  <2>1. /\ Write(slice.array, n + 1, e) /\ slice' = [slice EXCEPT !.len = n + 1]
        /\ reader' = Overlap(slice.array)
    BY <1>2 DEF AppendEntry, Current
  <2>2. slice' \in [array : Nat, len : Nat] /\ slice'.array = slice.array
        /\ slice'.len = n + 1
    BY <1>1, <2>1, SliceType
  <2> HIDE DEF n, cap
  <2>3. n + 1 \in 1..cap
    BY <1>1, <1>2
  <2>4. /\ arrays' \in Seq(Seq(Cell)) /\ Len(arrays') = Len(arrays)
        /\ Len(arrays'[slice.array]) = cap
        /\ \A j \in 1..cap : arrays'[slice.array][j] = IF j = n + 1 THEN e ELSE Current[j]
    BY <1>1, <2>1, <2>3, WriteCurrent DEF cap
  <2>8. DOMAIN reader' = Readers /\ \A r \in Readers : ReaderInv(r)'
    <3>1. DOMAIN reader' = Readers
      BY <2>1 DEF Overlap
    <3>2. ASSUME NEW r \in Readers PROVE ReaderInv(r)'
      <4>1. ReaderInv(r) /\ ArraysInv /\ n + 1 \in 1..Len(Current)
        BY <2>3 DEF IInv, cap
      <4>2. /\ reader'[r] \in Reader
            /\ reader'[r].pc = reader[r].pc /\ reader'[r].slice = reader[r].slice
            /\ reader'[r].reply = reader[r].reply /\ reader'[r].list = reader[r].list
            /\ ~reader'[r].overlapped =>
                 /\ ~reader[r].overlapped
                 /\ reader[r].pc = "reading" => reader[r].slice.array # slice.array
        BY <2>1, <4>1, OverlapMarks
      <4> QED BY <1>1, <2>1, <2>2, <4>1, <4>2, WriteKeepsReaders
    <3> QED BY <3>1, <3>2
  <2>5. \A i \in 1..n : i \in 1..cap /\ i # n + 1
    BY <1>1, <1>2
  <2>6. slice.array \in 1..Len(arrays') /\ n + 1 <= cap
    BY <1>1, <2>3, <2>4
  <2>7. /\ \A i \in 1..n : arrays'[slice.array][i] = Current[i]
        /\ arrays'[slice.array][n + 1] = e
    BY <2>3, <2>4, <2>5
  <2> QED BY <1>1, <2>2, <2>4, <2>6, <2>7, <2>8, Zenon DEF n
<1>3. CASE ~(n < cap)
  <2>1. /\ \E c \in Capacities(cap) : arrays' = Append(arrays, row(c))
        /\ slice' = [array |-> Len(arrays) + 1, len |-> n + 1] /\ UNCHANGED reader
    BY <1>3 DEF AppendEntry, Current
  <2>2. slice' \in [array : Nat, len : Nat] /\ slice'.array = Len(arrays) + 1
        /\ slice'.len = n + 1
    BY <1>1, <2>1
  <2> HIDE DEF n, cap
  <2>9. PICK c \in Capacities(cap) : arrays' = Append(arrays, row(c))
    BY <2>1
  <2>3. n = cap /\ c \in Nat /\ n + 1 <= c /\ 2 * c <= 5 * HistorySize + 2
    BY <1>1, <1>3, CapacityBounds
  <2>4. /\ row(c) \in Seq(Cell) /\ Len(row(c)) = c
        /\ \A i \in 1..n : row(c)[i] = Current[i]
        /\ row(c)[n + 1] = e
    <3>1. \A i \in 1..n : i \in 1..c /\ Current[i] \in Cell
      BY <1>1, <2>3 DEF cap
    <3>2. \A i \in 1..c : row(c)[i] \in Cell
      BY <1>1, <3>1, EntryTime
    <3>3. row(c) \in [1..c -> Cell]
      BY <3>2
    <3>4. \A i \in 1..n : row(c)[i] = Current[i]
      BY <3>1
    <3>5. row(c)[n + 1] = e
      BY <1>1, <2>3
    <3> HIDE DEF row
    <3>6. row(c) \in Seq(Cell) /\ Len(row(c)) = c
      BY <2>3, <3>3
    <3> QED BY <3>4, <3>5, <3>6
  <2> HIDE DEF row
  <2>5. /\ arrays' \in Seq(Seq(Cell)) /\ Len(arrays') = Len(arrays) + 1
        /\ arrays'[Len(arrays) + 1] = row(c)
    BY <1>1, <2>9, <2>4
  <2>6. DOMAIN reader' = Readers /\ \A r \in Readers : ReaderInv(r)'
    BY <2>9, <2>1, <2>2, <2>4, AllocationKeepsReaders DEF IInv
  <2>7. Len(arrays) + 1 \in 1..Len(arrays')
    BY <1>1, <2>5
  <2> QED BY <1>1, <2>2, <2>3, <2>4, <2>5, <2>6, <2>7 DEF n
<1> QED BY <1>2, <1>3

LEMMA AppendEntryStep ==
  ASSUME IInv, NEW e \in Entries, AppendEntry(e)
  PROVE  IInv'
<1> DEFINE n == slice.len
           h == Append(committed, e)
           p == [i \in 1..n + 1 |-> i]
<1>1. /\ pc = "idle" /\ pc' = "sort" /\ swap' = swap /\ last' = e
      /\ pushed' = pushed \cup {e} /\ committed' = committed
  BY DEF AppendEntry
<1>2. /\ PlaceInv /\ n \in Nat /\ n = Len(committed) /\ n <= HistorySize
      /\ committed \in Seq(Entries)
      /\ \A i \in 1..n : Current[i] = committed[i]
  BY <1>1 DEF IInv, PlaceInv, ArraysInv, CellsInv
<1>3. ArraysInv' /\ slice'.len = n + 1
  BY AppendEffect DEF ArraysInv, Current
<1>4. PlaceInv'
  BY <1>1, <1>2, <1>3, EntryTime DEF PlaceInv
<1>5. CellsInv'
  <2>1. \A i \in 1..n : Current'[i] = committed[i]
    BY <1>2, AppendEffect DEF Current
  <2>2. Current'[n + 1] = e
    BY AppendEffect DEF Current
  <2> HIDE DEF n
  <2>3. \A i \in 1..n + 1 : Current'[i] = h[i]
    BY <1>2, <2>1, <2>2
  <2>4. Permutation(p, n + 1)
    BY <1>2 DEF Permutation
  <2>0. h' = h
    BY <1>1
  <2> HIDE DEF h
  <2>5. \A i \in 1..n + 1 : Held(i)' = h[p[i]]
    BY <1>1, <2>3 DEF Held
  <2> HIDE DEF p
  <2>6. Arranged(h)'
    BY <1>3, <2>0, <2>4, <2>5, Zenon DEF Arranged
  <2> QED BY <1>1, <2>6 DEF CellsInv, h
<1> QED BY <1>3, <1>4, <1>5, AppendEffect DEF IInv

(* Nobody is walking unmarked over the array that is being sorted.         *)
LEMMA SwapKeepsReaders ==
  ASSUME IInv, pc # "idle", NEW i \in 1..Len(Current), NEW e \in Cell,
         Write(slice.array, i, e), UNCHANGED <<slice, reader>>
  PROVE  DOMAIN reader' = Readers /\ \A r \in Readers : ReaderInv(r)'
<1>1. ASSUME NEW r \in Readers PROVE ReaderInv(r)'
  <2>1. /\ ArraysInv /\ ReaderInv(r) /\ slice'.array = slice.array
        /\ reader'[r] = reader[r] /\ reader[r] \in Reader
        /\ ~reader[r].overlapped =>
             (reader[r].pc = "reading" => reader[r].slice.array # slice.array)
    BY DEF IInv, ReaderInv
  <2> QED BY <2>1, WriteKeepsReaders
<1> QED BY <1>1 DEF IInv

(* An arrangement with two places exchanged is an arrangement.             *)
LEMMA Exchange ==
  ASSUME NEW n \in Nat, NEW p, Permutation(p, n), NEW i \in 1..n, NEW j \in 1..n,
         NEW q, q = [k \in 1..n |-> IF k = i THEN p[j] ELSE IF k = j THEN p[i] ELSE p[k]]
  PROVE  Permutation(q, n)
<1>1. q \in [1..n -> 1..n]
  BY DEF Permutation
<1>2. ASSUME NEW k \in 1..n, NEW l \in 1..n, q[k] = q[l] PROVE k = l
  <2>1. \A a, b \in 1..n : p[a] = p[b] => a = b
    BY DEF Permutation
  <2> QED BY <1>2, <2>1
<1> QED BY <1>1, <1>2 DEF Permutation

(* The first write of a swap: the other entry is in a register.            *)
LEMMA SwapFirstStep ==
  ASSUME IInv, NEW i \in 1..slice.len, NEW j \in 1..slice.len, SwapFirst(i, j)
  PROVE  IInv'
<1> DEFINE n == slice.len
           h == Append(committed, last)
<1>1. /\ pc = "sort" /\ i # j /\ Write(slice.array, i, Current[j])
      /\ swap' = [to |-> j, entry |-> Current[i]] /\ pc' = "swap"
      /\ UNCHANGED <<slice, pushed, last, committed, reader>>
  BY DEF SwapFirst, Current
<1>2. /\ ArraysInv /\ PlaceInv /\ Current \in Seq(Cell)
      /\ n \in Nat /\ n <= Len(Current) /\ n = Len(committed) + 1
      /\ i \in 1..Len(Current) /\ j \in 1..Len(Current) /\ j \in Nat
  BY <1>1 DEF IInv, ArraysInv, PlaceInv, Current
<1>3. Current[i] \in Cell /\ Current[j] \in Cell
  BY <1>2
<1>4. /\ arrays' \in Seq(Seq(Cell)) /\ Len(arrays') = Len(arrays)
      /\ Len(Current') = Len(Current)
      /\ \A k \in 1..Len(Current) : Current'[k] = IF k = i THEN Current[j] ELSE Current[k]
  BY <1>1, <1>2, <1>3, WriteCurrent DEF Current
<1>5. DOMAIN reader' = Readers /\ \A r \in Readers : ReaderInv(r)'
  BY <1>1, <1>2, <1>3, SwapKeepsReaders
<1>6. ArraysInv'
  BY <1>1, <1>2, <1>4 DEF ArraysInv
<1>7. swap' \in [to : Nat, entry : Cell] /\ swap'.to = j /\ swap'.entry = Current[i]
  BY <1>1, <1>2, <1>3
<1>8. PlaceInv'
  BY <1>1, <1>2, <1>7 DEF PlaceInv
<1>9. CellsInv'
  <2>1. PICK p : Permutation(p, n) /\ \A k \in 1..n : Held(k) = h[p[k]]
    BY <1>1 DEF IInv, CellsInv, Arranged
  <2> DEFINE q == [k \in 1..n |-> IF k = i THEN p[j] ELSE IF k = j THEN p[i] ELSE p[k]]
  <2>2. Permutation(q, n)
    BY <1>2, <2>1, Exchange
  <2>0. h' = h
    BY <1>1
  <2> HIDE DEF h, n
  <2>3. ASSUME NEW k \in 1..n PROVE Held(k)' = h[q[k]]
    <3>1. k \in 1..Len(Current) /\ i \in 1..n /\ j \in 1..n
      BY <1>2 DEF n
    <3>2. Current[k] = h[p[k]] /\ Current[i] = h[p[i]] /\ Current[j] = h[p[j]]
      BY <1>1, <2>1, <3>1 DEF Held
    <3>3. Held(k)' = IF k = j THEN Current[i] ELSE Current'[k]
      BY <1>1, <1>7 DEF Held
    <3> QED BY <1>1, <1>4, <3>1, <3>2, <3>3
  <2> HIDE DEF q
  <2>4. Arranged(h)'
    BY <1>1, <2>0, <2>2, <2>3, Zenon DEF Arranged, n
  <2> QED BY <1>1, <2>4 DEF CellsInv, h
<1> QED BY <1>5, <1>6, <1>8, <1>9 DEF IInv

(* The second write of a swap puts down what was in the register.          *)
LEMMA SwapSecondStep ==
  ASSUME IInv, SwapSecond
  PROVE  IInv'
<1> DEFINE n == slice.len
           h == Append(committed, last)
<1>1. /\ pc = "swap" /\ Write(slice.array, swap.to, swap.entry)
      /\ swap' = NoSwap /\ pc' = "sort"
      /\ UNCHANGED <<slice, pushed, last, committed, reader>>
  BY DEF SwapSecond
<1>2. /\ ArraysInv /\ PlaceInv /\ Current \in Seq(Cell)
      /\ n \in Nat /\ n <= Len(Current)
      /\ swap.to \in 1..n /\ swap.to \in 1..Len(Current) /\ swap.entry \in Cell
  BY <1>1 DEF IInv, ArraysInv, PlaceInv, Current
<1>3. /\ arrays' \in Seq(Seq(Cell)) /\ Len(arrays') = Len(arrays)
      /\ Len(Current') = Len(Current)
      /\ \A k \in 1..Len(Current) :
           Current'[k] = IF k = swap.to THEN swap.entry ELSE Current[k]
  BY <1>1, <1>2, WriteCurrent DEF Current
<1>4. DOMAIN reader' = Readers /\ \A r \in Readers : ReaderInv(r)'
  BY <1>1, <1>2, SwapKeepsReaders
<1>5. ArraysInv'
  BY <1>1, <1>2, <1>3 DEF ArraysInv
<1>6. NoSwap \in [to : Nat, entry : Cell]
  BY EntryTime DEF NoSwap
<1>7. PlaceInv'
  BY <1>1, <1>2, <1>6 DEF PlaceInv
<1>8. CellsInv'
  <2>1. PICK p : Permutation(p, n) /\ \A k \in 1..n : Held(k) = h[p[k]]
    BY <1>1 DEF IInv, CellsInv, Arranged
  <2>0. h' = h
    BY <1>1
  <2> HIDE DEF h
  <2>2. ASSUME NEW k \in 1..n PROVE Held(k)' = h[p[k]]
    BY <1>1, <1>2, <1>3, <2>1 DEF Held
  <2>3. Arranged(h)'
    BY <1>1, <2>0, <2>1, <2>2, Zenon DEF Arranged
  <2> QED BY <1>1, <2>3 DEF CellsInv, h
<1> QED BY <1>4, <1>5, <1>7, <1>8 DEF IInv

(* Where the sort ends the slice is an arrangement, in order, of the list  *)
(* and the new entry.                                                      *)
LEMMA SortEnds ==
  ASSUME IInv, EndPush, NEW h, h = Append(committed, last)
  PROVE  /\ slice.len \in Nat /\ Len(h) = slice.len /\ last \in Entries
         /\ \E p : Permutation(p, slice.len) /\ \A i \in 1..slice.len : Current[i] = h[p[i]]
         /\ \A i \in 1..slice.len : Current[i] \in Entries
         /\ \A i, j \in 1..slice.len : i < j =>
              Current[j].LastModified <= Current[i].LastModified
<1> DEFINE n == slice.len
<1>1. /\ pc = "sort" /\ last \in Entries /\ committed \in Seq(Entries)
      /\ n \in Nat /\ n = Len(committed) + 1
      /\ \A i, j \in 1..n : i < j => ~Less(j, i)
  BY DEF EndPush, IInv, PlaceInv, ArraysInv
<1>2. PICK p : Permutation(p, n) /\ \A i \in 1..n : Held(i) = h[p[i]]
  BY <1>1 DEF IInv, CellsInv, Arranged
<1>3. h \in Seq(Entries) /\ Len(h) = n
  BY <1>1
<1>4. \A i \in 1..n : Current[i] = h[p[i]] /\ p[i] \in 1..n
  BY <1>1, <1>2 DEF Held, Permutation
<1> HIDE DEF n
<1>5. \A i \in 1..n : Current[i] \in Entries
  BY <1>3, <1>4
<1>6. ASSUME NEW i \in 1..n, NEW j \in 1..n, i < j
      PROVE  Current[j].LastModified <= Current[i].LastModified
  <2>1. Current[i].LastModified \in Nat /\ Current[j].LastModified \in Nat
    BY <1>5, EntryTime
  <2>2. ~(Current[i].LastModified < Current[j].LastModified)
    BY <1>1, <1>6 DEF Less, Current
  <2> QED BY <2>1, <2>2
<1> QED BY <1>1, <1>2, <1>3, <1>4, <1>5, <1>6 DEF n

(* The list that Push leaves.                                              *)
LEMMA EndPushEffect ==
  ASSUME IInv, EndPush
  PROVE  /\ slice' \in [array : Nat, len : Nat] /\ slice'.array = slice.array
         /\ slice'.len = Cut(slice.len)
         /\ Cut(slice.len) \in 0..HistorySize /\ Cut(slice.len) <= slice.len
         /\ committed' \in Seq(Entries) /\ Len(committed') = Cut(slice.len)
         /\ \A i \in 1..Cut(slice.len) : committed'[i] = Current[i]
<1> DEFINE n == slice.len
           m == Cut(n)
<1>1. /\ pc = "sort" /\ slice' = [slice EXCEPT !.len = m]
      /\ committed' = View(slice')
  BY DEF EndPush
<1>2. /\ slice \in [array : Nat, len : Nat] /\ n \in Nat /\ n <= HistorySize + 1
      /\ Current \in Seq(Cell) /\ n <= Len(Current)
  BY <1>1 DEF IInv, ArraysInv, PlaceInv, Current
<1>9. \A i \in 1..n : Current[i] \in Entries
  BY SortEnds
<1> HIDE DEF n
<1>3. m \in 0..HistorySize /\ m <= n /\ m \in Nat /\ m <= Len(Current)
  BY <1>2, EntryTime DEF Cut
<1> HIDE DEF m
<1>4. slice' \in [array : Nat, len : Nat] /\ slice'.array = slice.array /\ slice'.len = m
  BY <1>1, <1>2, <1>3, SliceType
<1>5. committed' = SubSeq(Current, 1, m)
  BY <1>1, <1>4 DEF View, Current
<1>6. \A i \in 1..m : i \in 1..n /\ Current[i] \in Entries
  BY <1>2, <1>3, <1>9
<1>7. /\ Len(committed') = m /\ \A i \in 1..m : committed'[i] = Current[i]
      /\ committed' \in Seq(Cell)
  BY <1>2, <1>3, <1>5
<1>8. committed' \in Seq(Entries)
  <2>1. committed' = [i \in 1..m |-> committed'[i]]
    BY <1>7
  <2>2. \A i \in 1..m : committed'[i] \in Entries
    BY <1>6, <1>7
  <2> QED BY <1>3, <2>1, <2>2
<1> QED BY <1>3, <1>4, <1>7, <1>8 DEF n, m

LEMMA EndPushStep ==
  ASSUME IInv, EndPush
  PROVE  IInv'
<1> DEFINE m == Cut(slice.len)
<1>1. /\ pc = "sort" /\ pc' = "idle" /\ UNCHANGED <<arrays, swap, pushed, last, reader>>
  BY DEF EndPush
<1>2. /\ slice' \in [array : Nat, len : Nat] /\ slice'.array = slice.array
      /\ slice'.len = m /\ m \in 0..HistorySize /\ m <= slice.len
      /\ committed' \in Seq(Entries) /\ Len(committed') = m
      /\ \A i \in 1..m : committed'[i] = Current[i]
  BY EndPushEffect
<1>3. Current' = Current /\ slice.len \in Nat /\ ArraysInv
  BY <1>1, <1>2 DEF Current, IInv, ArraysInv
<1> HIDE DEF m
<1>4. ArraysInv'
  BY <1>1, <1>2, <1>3, EntryTime DEF ArraysInv, Current
<1>5. PlaceInv'
  BY <1>1, <1>2, EntryTime DEF IInv, PlaceInv
<1>6. CellsInv'
  BY <1>1, <1>2, <1>3 DEF CellsInv
<1>7. ASSUME NEW r \in Readers PROVE ReaderInv(r)'
  BY <1>1, SameArraysKeepReader DEF IInv
<1> QED BY <1>1, <1>4, <1>5, <1>6, <1>7 DEF IInv

----------------------------------------------------------------------------
LEMMA InitInv == Init => IInv
<1> SUFFICES ASSUME Init PROVE IInv
  OBVIOUS
<1>1. /\ arrays = <<<<>>>> /\ slice = [array |-> 1, len |-> 0] /\ committed = <<>>
      /\ pc = "idle" /\ swap = NoSwap /\ pushed = {}
      /\ reader = [r \in Readers |-> NoReader]
  BY DEF Init
<1>2. /\ arrays \in Seq(Seq(Cell)) /\ Len(arrays) = 1 /\ slice.array = 1
      /\ slice.len = 0 /\ slice \in [array : Nat, len : Nat] /\ Len(Current) = 0
  BY <1>1 DEF Current
<1>3. ArraysInv
  BY <1>2, EntryTime DEF ArraysInv
<1>4. PlaceInv
  BY <1>1, <1>2, EntryTime DEF PlaceInv, NoSwap
<1>5. CellsInv
  BY <1>1, <1>2 DEF CellsInv
<1>6. DOMAIN reader = Readers /\ \A r \in Readers : ReaderInv(r)
  BY <1>1, ReaderType DEF ReaderInv
<1> QED BY <1>3, <1>4, <1>5, <1>6 DEF IInv

LEMMA NextInv == IInv /\ [Next]_vars => IInv'
<1> SUFFICES ASSUME IInv, [Next]_vars PROVE IInv'
  OBVIOUS
<1>1. CASE UNCHANGED vars
  <2>1. ArraysInv' /\ PlaceInv' /\ CellsInv'
    BY <1>1, SamePush DEF vars, pushVars
  <2>2. ASSUME NEW r \in Readers PROVE ReaderInv(r)'
    BY <1>1, SameArraysKeepReader DEF vars, IInv
  <2> QED BY <1>1, <2>1, <2>2 DEF vars, IInv
<1>2. CASE Next
  BY <1>2, AppendEntryStep, SwapFirstStep, SwapSecondStep, EndPushStep,
     NotificationsStep, ReadEntryStep, AnswerStep DEF Next
<1> QED BY <1>1, <1>2

(* The inductive invariant: what the array of the slice holds at every     *)
(* moment of Push, and what a reader has of the array it was given.        *)
THEOREM Invariance == Spec => []IInv
<1> QED BY InitInv, NextInv, PTL DEF Spec

(* The slice lies within its array and within its size, and append never   *)
(* makes more room than two and a half times what the history may hold.    *)
THEOREM TypeCorrect == Spec => []TypeOK
<1>1. IInv => TypeOK
  <2> SUFFICES ASSUME IInv PROVE TypeOK
    OBVIOUS
  <2>1. \A r \in Readers : reader[r].pc \in {"idle", "reading", "done", "panic"}
    BY DEF IInv, ReaderInv, Reader
  <2>2. \A a \in DOMAIN arrays : arrays[a] \in Seq(Entries \cup {zero})
    BY DEF IInv, ArraysInv, Cell
  <2> QED BY <2>1, <2>2 DEF IInv, ArraysInv, PlaceInv, Current, TypeOK
<1> QED BY <1>1, Invariance, PTL

(* /__history answers with the list as Notifications() found it, unless a  *)
(* push into the same array begins before the handler is through.          *)
THEOREM ReplyIsSnapshotHolds == Spec => []ReplyIsSnapshot
<1>1. IInv => ReplyIsSnapshot
  BY DEF IInv, ReaderInv, ReplyIsSnapshot
<1> QED BY <1>1, Invariance, PTL

----------------------------------------------------------------------------
(* Push in place implements HistoryStore.                                  *)

(* The end of Push is the one step of HistoryStore: the cells of the slice *)
(* are a sort of the list with the new entry at its end.                   *)
LEMMA EndPushPushes ==
  ASSUME IInv, EndPush
  PROVE  last \in Entries /\ Store!Push(last)
<1> DEFINE n == slice.len
           h == Append(committed, last)
<1>1. /\ n \in Nat /\ Len(h) = n /\ last \in Entries
      /\ \E p : Permutation(p, n) /\ \A i \in 1..n : Current[i] = h[p[i]]
      /\ \A i \in 1..n : Current[i] \in Entries
      /\ \A i, j \in 1..n : i < j => Current[j].LastModified <= Current[i].LastModified
  BY SortEnds
<1> HIDE DEF h, n
<1>2. PICK p : Permutation(p, n) /\ \A i \in 1..n : Current[i] = h[p[i]]
  BY <1>1
<1> DEFINE g == [i \in 1..n |-> h[p[i]]]
<1>4. p \in {q \in [1..n -> 1..n] : Store!Permutation(q, n)}
  BY <1>2 DEF Permutation, Store!Permutation
<1>5. \A i \in 1..n : g[i] = Current[i]
  BY <1>2
<1>6. g \in Store!Sorts(h)
  <2>1. DOMAIN g = 1..n
    OBVIOUS
  <2>2. g \in {[i \in 1..n |-> h[q[i]]] :
               q \in {q \in [1..n -> 1..n] : Store!Permutation(q, n)}}
    BY <1>4
  <2> HIDE DEF g
  <2>3. Store!SortedByTimestamp(g)
    BY <1>1, <1>5, <2>1 DEF Store!SortedByTimestamp
  <2> QED BY <1>1, <2>2, <2>3 DEF Store!Sorts
<1>7. committed' = Store!Trim(g, HistorySize)
  <2>1. /\ committed' \in Seq(Entries) /\ Len(committed') = Cut(n)
        /\ \A i \in 1..Cut(n) : committed'[i] = Current[i]
        /\ Cut(n) \in 0..HistorySize /\ Cut(n) <= n
    BY EndPushEffect DEF n
  <2>2. \A i \in 1..n : g[i] \in Entries
    BY <1>1, <1>5
  <2>3. g \in Seq(Entries) /\ Len(g) = n
    BY <1>1, <2>2
  <2> HIDE DEF g
  <2>4. CASE n > HistorySize
    <3>1. Cut(n) = n - 1 /\ n - 1 \in Nat
      BY <1>1, <2>4, EntryTime DEF Cut
    <3>2. SubSeq(g, 1, n - 1) \in Seq(Entries) /\ Len(SubSeq(g, 1, n - 1)) = n - 1
          /\ \A i \in 1..n - 1 : SubSeq(g, 1, n - 1)[i] = g[i]
      BY <1>1, <2>3, <3>1
    <3>3. committed' = SubSeq(g, 1, n - 1)
      BY <1>1, <1>5, <2>1, <3>1, <3>2
    <3> QED BY <2>3, <2>4, <3>3 DEF Store!Trim
  <2>5. CASE ~(n > HistorySize)
    <3>1. Cut(n) = n
      BY <2>5 DEF Cut
    <3>2. committed' = g
      BY <1>1, <1>5, <2>1, <2>3, <3>1
    <3> QED BY <2>3, <2>5, <3>2 DEF Store!Trim
  <2> QED BY <2>4, <2>5
<1> HIDE DEF g
<1> QED BY <1>1, <1>6, <1>7 DEF h, Store!Push, Store!Pushed

(* For whoever looks between two pushes, Push in place is append, sort and *)
(* cut in one step.                                                        *)
THEOREM PushIsAtomicHolds == Spec => PushIsAtomic
<1>1. Init => Store!Init
  BY DEF Init, Store!Init
<1>2. IInv /\ [Next]_vars => [Store!Next]_committed
  <2> SUFFICES ASSUME IInv, [Next]_vars PROVE [Store!Next]_committed
    OBVIOUS
  <2>1. CASE EndPush
    BY <2>1, EndPushPushes DEF Store!Next
  <2>2. CASE ~EndPush
    BY <2>2 DEF Next, vars, AppendEntry, SwapFirst, SwapSecond, Notifications,
       BeginWalk, ReadEntry, Answer, Again
  <2> QED BY <2>1, <2>2
<1> QED BY <1>1, <1>2, Invariance, PTL DEF Spec, PushIsAtomic, Store!Spec
=============================================================================
