---------------------------- MODULE RecordProofs ----------------------------
(***************************************************************************)
(* What the dispatcher keeps of a notification once it was forwarded: the  *)
(* line in the monitoring log and the entry in the history.                *)
(***************************************************************************)
EXTENDS DispatcherProofs, FiniteSetTheorems

(* The log line, told by what was done with each subscriber.               *)
ReportInv ==
  \A c \in Calls :
    /\ report[c] = "error" =>
         audience[c] # {} /\ \A s \in Conns : fate[c][s] # "sent"
    /\ report[c] = "processed" =>
         \/ \E s \in audience[c] : fate[c][s] = "sent"
         \/ \A s \in audience[c] : verdict[c] # "error" /\ fate[c][s] = "skipped"

(* The map is finite: it is filled one subscriber at a time.               *)
FiniteInv == IsFiniteSet(subscribers)

----------------------------------------------------------------------------
(* Every step keeps the map finite.                                        *)
LEMMA FiniteStep == FiniteInv /\ [Next]_vars => FiniteInv'
<1> SUFFICES ASSUME FiniteInv, [Next]_vars PROVE FiniteInv'
  OBVIOUS
<1>1. ASSUME NEW s \in Conns, addSubscriber(s) PROVE FiniteInv'
  BY <1>1, FS_AddElement DEF addSubscriber, FiniteInv
<1>2. ASSUME NEW s \in Conns, Unsubscribe(s) PROVE FiniteInv'
  BY <1>2, FS_RemoveElement DEF Unsubscribe, FiniteInv
<1>3. CASE subscribers' = subscribers
  BY <1>3 DEF FiniteInv
<1> QED
  BY <1>1, <1>2, <1>3
     DEF Next, Tick, Send, Wake, Receive, CheckPublication, EvaluateContentPolicy,
         ForwardTo, EndForward, Push, Stop, StopLoop, Subscribe, Lock,
         TakeNotification, EndStream, Poll, PollReturns, vars

(* The counters of forwardToSubscribers give the line that is true.        *)
LEMMA ProcessedMeans ==
  ASSUME IInv, FiniteInv, loop = "return" \/ RangeDone
  PROVE  /\ ~Processed => subscribers # {} /\ \A s \in Conns : fate[cur][s] # "sent"
         /\ Processed =>
              \/ \E s \in subscribers : fate[cur][s] = "sent"
              \/ \A s \in subscribers : verdict[cur] # "error" /\ fate[cur][s] = "skipped"
<1>1. ~Processed => subscribers # {} /\ \A s \in Conns : fate[cur][s] # "sent"
  BY DEF Processed, With
<1>2. /\ subscribers \subseteq Conns
      /\ \A s \in Conns : fate[cur][s] # "none" => s \in subscribers
      /\ loop = "return" => \A s \in Conns : fate[cur][s] = "none"
      /\ loop = "range" => verdict[cur] # "error"
  BY DEF IInv, TypeOK, FateInv, RangeDone
<1>3. With(cur, "skipped") \in SUBSET subscribers
  BY <1>2 DEF With
<1>4. ASSUME Processed, ~\E s \in subscribers : fate[cur][s] = "sent"
      PROVE  \A s \in subscribers : verdict[cur] # "error" /\ fate[cur][s] = "skipped"
  <2>1. With(cur, "sent") = {}
    BY <1>2, <1>4 DEF With
  <2>2. CASE subscribers = {}
    BY <2>2
  <2>3. CASE Cardinality(subscribers) = Cardinality(With(cur, "skipped"))
    <3>1. subscribers = With(cur, "skipped")
      BY <1>3, <2>3, FS_Subset DEF FiniteInv
    <3> QED BY <1>2, <3>1 DEF With, RangeDone
  <2> QED BY <1>4, <2>1, <2>2, <2>3 DEF Processed
<1> QED BY <1>1, <1>4

(* Every step keeps the log line true.                                     *)
LEMMA ReportStep == IInv /\ FiniteInv /\ ReportInv /\ [Next]_vars => ReportInv'
<1> SUFFICES ASSUME IInv, FiniteInv, ReportInv, [Next]_vars, NEW c \in Calls
             PROVE  /\ report'[c] = "error" =>
                         audience'[c] # {} /\ \A s \in Conns : fate'[c][s] # "sent"
                    /\ report'[c] = "processed" =>
                         \/ \E s \in audience'[c] : fate'[c][s] = "sent"
                         \/ \A s \in audience'[c] :
                              verdict'[c] # "error" /\ fate'[c][s] = "skipped"
  BY DEF ReportInv
<1>t. /\ TypeInv /\ fate \in [Calls -> [Conns -> Fate]]
      /\ audience \in [Calls -> SUBSET Conns] /\ verdict \in [Calls -> Verdict]
      /\ report \in [Calls -> Report]
  BY DEF IInv, TypeInv, TypeOK
<1>1. ASSUME EndForward, c = cur
      PROVE  /\ audience'[c] = subscribers /\ fate' = fate /\ verdict' = verdict
             /\ report'[c] = IF Processed THEN "processed" ELSE "error"
             /\ loop = "return" \/ RangeDone
  <2>1. loop = "return" \/ RangeDone
    BY <1>1 DEF EndForward
  <2>2. audience[cur] = subscribers
    BY <2>1 DEF RangeDone, IInv, FateInv, Forwarding
  <2> QED BY <1>1, <1>t, <2>1, <2>2 DEF EndForward
<1>2. CASE EndForward /\ c = cur
  BY <1>1, <1>2, ProcessedMeans
<1>3. ASSUME ~(EndForward /\ c = cur) PROVE report'[c] = report[c]
  BY <1>3, <1>t
     DEF Next, Tick, Send, Wake, Receive, CheckPublication, EvaluateContentPolicy,
         ForwardTo, EndForward, Push, Stop, StopLoop, Subscribe, Lock,
         addSubscriber, TakeNotification, EndStream, Unsubscribe, Poll, PollReturns,
         obsVars, vars
<1>4. ASSUME report[c] # "none"
      PROVE  /\ audience'[c] = audience[c] /\ verdict'[c] = verdict[c]
             /\ \A s \in Conns : fate'[c][s] = fate[c][s]
  <2>1. c = cur => loop = "push"
    BY <1>4, <1>t DEF IInv, FateInv, TypeInv, LoopInv
  <2>2. ASSUME NEW t \in Conns, ForwardTo(t)
        PROVE  \A s \in Conns : fate'[c][s] = fate[c][s]
    <3>1. c # cur
      BY <2>1, <2>2 DEF ForwardTo
    <3> QED BY <1>t, <2>2, <3>1, ForwardFate
  <2>3. CASE fate' = fate
    <3>1. audience'[c] = audience[c] /\ verdict'[c] = verdict[c]
      BY <1>t, <2>1
         DEF Next, Tick, Send, Wake, Receive, CheckPublication,
             EvaluateContentPolicy, ForwardTo, EndForward, Push, Stop, StopLoop,
             Subscribe, Lock, addSubscriber, TakeNotification, EndStream,
             Unsubscribe, Poll, PollReturns, obsVars, vars
    <3> QED BY <2>3, <3>1
  <2>4. (\E t \in Conns : ForwardTo(t)) => audience' = audience /\ verdict' = verdict
    BY DEF ForwardTo
  <2> QED
    BY <2>2, <2>3, <2>4
       DEF Next, Tick, Send, Wake, Receive, CheckPublication,
           EvaluateContentPolicy, EndForward, Push, Stop, StopLoop,
           Subscribe, Lock, addSubscriber, TakeNotification, EndStream,
           Unsubscribe, Poll, PollReturns, obsVars, vars
<1>5. CASE ~(EndForward /\ c = cur)
  <2>1. report'[c] = report[c]
    BY <1>3, <1>5
  <2>2. CASE report[c] = "none"
    BY <2>1, <2>2
  <2>3. CASE report[c] # "none"
    <3>1. audience[c] \subseteq Conns
      BY <1>t
    <3> QED BY <1>4, <2>1, <2>3, <3>1 DEF ReportInv
  <2> QED BY <2>2, <2>3
<1> QED BY <1>2, <1>5

(* The monitoring log tells the truth about every notification.            *)
THEOREM ReportTruthfulHolds == Spec => []ReportTruthful
<1>1. Init => FiniteInv /\ ReportInv
  BY FS_EmptySet DEF Init, FiniteInv, ReportInv
<1>2. IInv /\ ReportInv => ReportTruthful
  <2> SUFFICES ASSUME IInv, ReportInv, NEW c \in Calls
               PROVE  /\ report[c] = "error" =>
                           /\ audience[c] # {}
                           /\ \A s \in Conns : \A i \in DOMAIN inbox[s] :
                                inbox[s][i].call # c
                      /\ report[c] = "processed" =>
                           \/ \E s \in audience[c] : \E i \in DOMAIN inbox[s] :
                                inbox[s][i].call = c
                           \/ \A s \in audience[c] :
                                verdict[c] # "error" /\ ~Entitled(c, s)
    BY DEF ReportTruthful
  <2>1. audience[c] \subseteq Conns
    BY DEF IInv, TypeOK
  <2>2. \A s \in Conns : fate[c][s] = "sent"
                           <=> \E i \in DOMAIN inbox[s] : inbox[s][i].call = c
    BY DEF IInv, SentIsEnqueued
  <2>3. \A s \in Conns : fate[c][s] = "skipped" => ~Entitled(c, s)
    BY DEF IInv, DeliveryContract
  <2> QED BY <2>1, <2>2, <2>3 DEF ReportInv
<1> QED BY <1>1, <1>2, Invariance, FiniteStep, ReportStep, PTL DEF Spec

----------------------------------------------------------------------------
(* The history.                                                            *)

Recorded == {c \in Calls : phase[c] = "recorded"}

(* As long as the history has room it holds every notification.            *)
RoomInv ==
  Len(history) < HistorySize =>
    \A c \in Recorded : \E i \in DOMAIN history : history[i] = note[c]

HistoryInv == IsFiniteSet(Recorded) /\ HistoryKeepsNewest /\ RoomInv

(* A permutation of indices misses none: what sort.Sort is given is there  *)
(* when it is done.                                                        *)
LEMMA PermutationOnto ==
  ASSUME NEW n \in Nat, NEW p, Permutation(p, n), NEW k \in 1..n
  PROVE  \E i \in 1..n : p[i] = k
<1>1. p \in Injection(1..n, 1..n)
  BY DEF Permutation, Injection, IsInjective
<1>2. IsFiniteSet(1..n)
  BY FS_Interval
<1>3. p \in Surjection(1..n, 1..n)
  BY <1>1, <1>2, FS_Injection
<1> QED BY <1>3 DEF Surjection

(* A sort keeps the length and every entry, adds none and leaves order.    *)
LEMMA SortsMeans ==
  ASSUME NEW a \in Seq(NotificationModel), NEW g \in Sorts(a)
  PROVE  /\ g \in Seq(NotificationModel) /\ Len(g) = Len(a)
         /\ SortedByTimestamp(g)
         /\ \A k \in 1..Len(a) : \E i \in 1..Len(a) : g[i] = a[k]
         /\ \E p : Permutation(p, Len(a)) /\ \A i \in 1..Len(a) : g[i] = a[p[i]]
<1> DEFINE n == Len(a)
<1>1. n \in Nat /\ \A i \in 1..n : a[i] \in NotificationModel
  OBVIOUS
<1>2. PICK p \in [1..n -> 1..n] : Permutation(p, n) /\ g = [i \in 1..n |-> a[p[i]]]
  BY DEF Sorts
<1>3. SortedByTimestamp(g)
  BY DEF Sorts
<1>4. \A i \in 1..n : p[i] \in 1..n /\ g[i] = a[p[i]]
  BY <1>2
<1>5. g \in Seq(NotificationModel) /\ Len(g) = n
  BY <1>1, <1>2, <1>4
<1> HIDE DEF n
<1>6. ASSUME NEW k \in 1..n PROVE \E i \in 1..n : g[i] = a[k]
  <2>1. PICK i \in 1..n : p[i] = k
    BY <1>1, <1>2, PermutationOnto
  <2> QED BY <1>4, <2>1
<1>7. \E q : Permutation(q, n) /\ \A i \in 1..n : g[i] = a[q[i]]
  BY <1>2, <1>4
<1> QED BY <1>3, <1>5, <1>6, <1>7 DEF n

(* f is the m entries of h and x, sorted.                                  *)
SortedWith(f, h, x, m) ==
  /\ f \in Seq(NotificationModel) /\ Len(f) = m + 1 /\ DOMAIN f = 1..(m + 1)
  /\ SortedByTimestamp(f)
  /\ \E i \in 1..(m + 1) : f[i] = x
  /\ \A k \in 1..m : \E i \in 1..(m + 1) : f[i] = h[k]
  /\ \/ \E k \in 1..m : f[m + 1] = h[k]
     \/ \A i \in 1..m : \E k \in 1..m : f[i] = h[k]

(* g is f without its last entry, which none of the others is older than.  *)
DroppedFrom(g, last, h, x, m) ==
  /\ \A i \in 1..m : g[i].LastModified >= last.LastModified
  /\ last = x \/ \E i \in 1..m : g[i] = x
  /\ \A k \in 1..m : last = h[k] \/ \E i \in 1..m : g[i] = h[k]
  /\ \/ \E k \in 1..m : last = h[k]
     \/ \A i \in 1..m : \E k \in 1..m : g[i] = h[k]

(* What Push sorts: the entries of the list and the new one.               *)
LEMMA PushedSorted ==
  ASSUME NEW h \in Seq(NotificationModel), NEW x \in NotificationModel,
         NEW m \in Nat, Len(h) = m, NEW a \in Seq(NotificationModel), Len(a) = m + 1,
         a[m + 1] = x, \A k \in 1..m : a[k] = h[k], NEW f \in Sorts(a)
  PROVE  SortedWith(f, h, x, m)
<1>3. /\ f \in Seq(NotificationModel) /\ Len(f) = Len(a) /\ SortedByTimestamp(f)
      /\ \A k \in 1..Len(a) : \E i \in 1..Len(a) : f[i] = a[k]
      /\ \E p : Permutation(p, Len(a)) /\ \A i \in 1..Len(a) : f[i] = a[p[i]]
  BY SortsMeans
<1>4. /\ \A k \in 1..(m + 1) : k \in 1..m \/ k = m + 1
      /\ m + 1 \in 1..(m + 1) /\ \A k \in 1..m : k \in 1..(m + 1)
  OBVIOUS
<1>5. DOMAIN f = 1..(m + 1)
  BY <1>3
<1>6. \E i \in 1..(m + 1) : f[i] = x
  BY <1>3, <1>4
<1>7. \A k \in 1..m : \E i \in 1..(m + 1) : f[i] = h[k]
  BY <1>3, <1>4
<1>8. \/ \E k \in 1..m : f[m + 1] = h[k]
      \/ \A i \in 1..m : \E k \in 1..m : f[i] = h[k]
  <2>1. PICK p : Permutation(p, m + 1) /\ \A i \in 1..(m + 1) : f[i] = a[p[i]]
    BY <1>3
  <2>2. /\ \A i \in 1..(m + 1) : p[i] \in 1..m \/ p[i] = m + 1
        /\ \A i \in 1..m : p[i] # p[m + 1]
    BY <1>4, <2>1 DEF Permutation
  <2>3. CASE p[m + 1] \in 1..m
    BY <1>4, <2>1, <2>3
  <2>4. CASE p[m + 1] = m + 1
    <3>1. \A i \in 1..m : p[i] \in 1..m /\ f[i] = h[p[i]]
      BY <1>4, <2>1, <2>2, <2>4
    <3> QED BY <3>1
  <2> QED BY <1>4, <2>2, <2>3, <2>4
<1> QED BY <1>3, <1>5, <1>6, <1>7, <1>8 DEF SortedWith

(* While there is room Push keeps every entry.                             *)
LEMMA PushedWithRoom ==
  ASSUME NEW h \in Seq(NotificationModel), NEW x \in NotificationModel,
         NEW m \in Nat, Len(h) = m, m < HistorySize,
         NEW g \in Pushed(h, x, HistorySize)
  PROVE  /\ g \in Seq(NotificationModel) /\ SortedByTimestamp(g)
         /\ Len(g) = m + 1 /\ DOMAIN g = 1..(m + 1)
         /\ \E i \in 1..(m + 1) : g[i] = x
         /\ \A k \in 1..m : \E i \in 1..(m + 1) : g[i] = h[k]
<1> DEFINE a == Append(h, x)
<1>1. PICK f \in Sorts(a) : g = Trim(f, HistorySize)
  BY DEF Pushed
<1>s. /\ a \in Seq(NotificationModel) /\ Len(a) = m + 1
      /\ a[m + 1] = x /\ \A k \in 1..m : a[k] = h[k]
  OBVIOUS
<1> HIDE DEF a
<1>2. SortedWith(f, h, x, m)
  BY <1>s, PushedSorted
<1>3. g = f
  BY <1>1, <1>2, HistorySizeAssumption DEF Trim, SortedWith
<1> QED BY <1>2, <1>3 DEF SortedWith

(* When there is none it drops one, which none of the others is older than.*)
LEMMA PushedWhenFull ==
  ASSUME NEW h \in Seq(NotificationModel), NEW x \in NotificationModel,
         NEW m \in Nat, Len(h) = m, m >= HistorySize,
         NEW g \in Pushed(h, x, HistorySize)
  PROVE  /\ g \in Seq(NotificationModel) /\ SortedByTimestamp(g)
         /\ Len(g) = m /\ DOMAIN g = 1..m
         /\ \E last \in NotificationModel : DroppedFrom(g, last, h, x, m)
<1> DEFINE a == Append(h, x)
<1>1. PICK f \in Sorts(a) : g = Trim(f, HistorySize)
  BY DEF Pushed
<1>s. /\ a \in Seq(NotificationModel) /\ Len(a) = m + 1
      /\ a[m + 1] = x /\ \A k \in 1..m : a[k] = h[k]
  OBVIOUS
<1> HIDE DEF a
<1>r. SortedWith(f, h, x, m)
  BY <1>s, PushedSorted
<1>2. /\ f \in Seq(NotificationModel) /\ Len(f) = m + 1 /\ DOMAIN f = 1..(m + 1)
      /\ SortedByTimestamp(f)
  BY <1>r DEF SortedWith
<1>3. g = SubSeq(f, 1, m)
  BY <1>1, <1>2, HistorySizeAssumption DEF Trim
<1>4. /\ g \in Seq(NotificationModel) /\ Len(g) = m /\ DOMAIN g = 1..m
      /\ \A i \in 1..m : g[i] = f[i]
  <2>1. \A i \in 1..m : i \in 1..Len(f)
    BY <1>2
  <2>2. \A i \in 1..m : f[i] \in NotificationModel
    BY <1>2, <2>1
  <2> QED BY <1>2, <1>3, <2>1, <2>2
<1>5. /\ \A i \in 1..m : i \in 1..(m + 1) /\ i < m + 1
      /\ m + 1 \in 1..(m + 1)
      /\ \A i \in 1..(m + 1) : i \in 1..m \/ i = m + 1
  OBVIOUS
<1>6. SortedByTimestamp(g)
  BY <1>2, <1>4, <1>5 DEF SortedByTimestamp
<1> DEFINE last == f[m + 1]
<1>7. last \in NotificationModel
  BY <1>2, <1>5
<1>8. ASSUME NEW i \in 1..m PROVE g[i].LastModified >= last.LastModified
  <2>1. last.LastModified <= f[i].LastModified
    BY <1>2, <1>5 DEF SortedByTimestamp
  <2>2. last.LastModified \in Nat /\ f[i].LastModified \in Nat
    <3>1. f[i] \in NotificationModel
      BY <1>2, <1>5
    <3> QED BY <1>7, <3>1 DEF NotificationModel
  <2> QED BY <1>4, <2>1, <2>2
<1>9. /\ last = x \/ \E i \in 1..m : g[i] = x
      /\ \A k \in 1..m : last = h[k] \/ \E i \in 1..m : g[i] = h[k]
      /\ \/ \E k \in 1..m : last = h[k]
         \/ \A i \in 1..m : \E k \in 1..m : g[i] = h[k]
  BY <1>r, <1>4, <1>5 DEF SortedWith
<1> HIDE DEF last
<1>10. DroppedFrom(g, last, h, x, m)
  BY <1>8, <1>9 DEF DroppedFrom
<1> QED BY <1>4, <1>6, <1>7, <1>10

(* A push keeps the newest.                                                *)
LEMMA PushKeepsNewest == IInv /\ HistoryInv /\ Push => HistoryInv'
<1> SUFFICES ASSUME IInv, HistoryInv, Push PROVE HistoryInv'
  OBVIOUS
<1> DEFINE m == Len(history)
           x == note[cur]
           n == Cardinality(Recorded)
<1>1. /\ history \in Seq(NotificationModel) /\ cur \in Calls
      /\ x \in NotificationModel /\ phase \in [Calls -> Phase]
      /\ phase[cur] = "received" /\ note' = note
      /\ history' \in Pushed(history, x, HistorySize)
      /\ phase' = [phase EXCEPT ![cur] = "recorded"]
  BY DEF IInv, TypeOK, DataInv, LoopInv, Busy, Push
<1>2. m \in Nat /\ DOMAIN history = 1..m
  BY <1>1
<1>3. Recorded' = Recorded \cup {cur} /\ cur \notin Recorded
  BY <1>1 DEF Recorded
<1>4. /\ IsFiniteSet(Recorded') /\ n \in Nat /\ Cardinality(Recorded') = n + 1
  BY <1>3, FS_AddElement, FS_CardinalityType DEF HistoryInv
<1>5. m = IF n < HistorySize THEN n ELSE HistorySize
  BY DEF HistoryInv, HistoryKeepsNewest, Recorded
<1>6. /\ \A c \in Recorded : note[c] \in NotificationModel
      /\ \A y \in NotificationModel : y.LastModified \in Nat
  BY DEF Recorded, IInv, DataInv, NotificationModel
<1>7. \A c \in Recorded :
        \/ \E k \in 1..m : history[k] = note[c]
        \/ m >= HistorySize /\ \A k \in 1..m :
                                 history[k].LastModified >= note[c].LastModified
  BY <1>2, HistorySizeAssumption DEF HistoryInv, HistoryKeepsNewest, RoomInv, Recorded
<1> HIDE DEF m, n, x
<1>8. CASE m < HistorySize
  <2>1. /\ history' \in Seq(NotificationModel) /\ SortedByTimestamp(history')
        /\ Len(history') = m + 1 /\ DOMAIN history' = 1..(m + 1)
        /\ \E i \in 1..(m + 1) : history'[i] = x
        /\ \A k \in 1..m : \E i \in 1..(m + 1) : history'[i] = history[k]
    BY <1>1, <1>2, <1>8, PushedWithRoom DEF m
  <2>2. m + 1 = IF n + 1 < HistorySize THEN n + 1 ELSE HistorySize
    BY <1>2, <1>4, <1>5, <1>8, HistorySizeAssumption
  <2>3. \A c \in Recorded' : \E i \in DOMAIN history' : history'[i] = note[c]
    BY <1>2, <1>3, <1>7, <1>8, <2>1, HistorySizeAssumption DEF x
  <2> QED
    BY <1>1, <1>4, <2>1, <2>2, <2>3 DEF HistoryInv, HistoryKeepsNewest, RoomInv, Recorded
<1>9. CASE m >= HistorySize
  <2>1. /\ history' \in Seq(NotificationModel) /\ SortedByTimestamp(history')
        /\ Len(history') = m /\ DOMAIN history' = 1..m
    BY <1>1, <1>2, <1>9, PushedWhenFull DEF m
  <2>d. PICK last \in NotificationModel : DroppedFrom(history', last, history, x, m)
    BY <1>1, <1>2, <1>9, PushedWhenFull DEF m
  <2>2. /\ \A i \in 1..m : history'[i].LastModified >= last.LastModified
        /\ last = x \/ \E i \in 1..m : history'[i] = x
        /\ \A k \in 1..m : last = history[k] \/ \E i \in 1..m : history'[i] = history[k]
        /\ \/ \E k \in 1..m : last = history[k]
           \/ \A i \in 1..m : \E k \in 1..m : history'[i] = history[k]
    BY <2>d DEF DroppedFrom
  <2>3. m = HistorySize /\ m = IF n + 1 < HistorySize THEN n + 1 ELSE HistorySize
    BY <1>2, <1>4, <1>5, <1>9, HistorySizeAssumption
  <2>4. \A i \in 1..m : history'[i] \in NotificationModel
    BY <2>1
  <2>5. ASSUME NEW c \in Recorded'
        PROVE  \/ \E i \in 1..m : history'[i] = note[c]
               \/ \A i \in 1..m : history'[i].LastModified >= note[c].LastModified
    <3>1. CASE c = cur
      BY <2>2, <3>1 DEF x
    <3>2. CASE c \in Recorded /\ \E k \in 1..m : history[k] = note[c]
      BY <2>2, <3>2
    <3>3. CASE /\ c \in Recorded
               /\ \A k \in 1..m : history[k].LastModified >= note[c].LastModified
      <4>1. CASE \A i \in 1..m : \E k \in 1..m : history'[i] = history[k]
        BY <3>3, <4>1
      <4>2. CASE \E k \in 1..m : last = history[k]
        <5>1. last.LastModified >= note[c].LastModified
          BY <3>3, <4>2
        <5> QED BY <1>6, <2>2, <2>4, <3>3, <5>1
      <4> QED BY <2>2, <4>1, <4>2
    <3> QED BY <1>3, <1>7, <3>1, <3>2, <3>3
  <2>6. IsFiniteSet(Recorded)' /\ RoomInv'
    BY <1>4, <2>1, <2>3, HistorySizeAssumption DEF RoomInv
  <2>7. HistoryKeepsNewest'
    BY <1>1, <1>4, <2>1, <2>3, <2>5 DEF HistoryKeepsNewest, Recorded
  <2> QED BY <2>6, <2>7 DEF HistoryInv
<1> QED BY <1>2, <1>8, <1>9, HistorySizeAssumption

(* Every step keeps the newest.                                            *)
LEMMA HistoryStep == IInv /\ HistoryInv /\ [Next]_vars => HistoryInv'
<1> SUFFICES ASSUME IInv, HistoryInv, [Next]_vars, ~Push PROVE HistoryInv'
  BY PushKeepsNewest
<1>t. /\ note \in [Calls -> {Nil} \cup NotificationModel]
      /\ phase \in [Calls -> Phase]
  BY DEF IInv, TypeOK
<1>1. history' = history
  BY DEF Next, Tick, Send, Wake, Receive, CheckPublication, EvaluateContentPolicy,
     ForwardTo, EndForward, Stop, StopLoop, Subscribe, Lock, addSubscriber,
     TakeNotification, EndStream, Unsubscribe, Poll, PollReturns, vars
<1>2. ASSUME NEW c \in Calls
      PROVE  /\ phase'[c] = "recorded" <=> phase[c] = "recorded"
             /\ phase[c] = "recorded" => note'[c] = note[c]
  BY <1>t DEF Next, Tick, Send, Wake, Receive, CheckPublication,
     EvaluateContentPolicy, ForwardTo, EndForward, Stop, StopLoop, Subscribe, Lock,
     addSubscriber, TakeNotification, EndStream, Unsubscribe, Poll, PollReturns,
     sendVars, vars
<1>3. /\ Recorded' = Recorded
      /\ Recorded = {c \in Calls : phase[c] = "recorded"}
      /\ \A c \in Recorded : note'[c] = note[c]
  BY <1>2 DEF Recorded
<1>4. IsFiniteSet(Recorded') /\ RoomInv'
  BY <1>1, <1>3 DEF HistoryInv, RoomInv
<1>5. HistoryKeepsNewest'
  <2>1. /\ SortedByTimestamp(history)
        /\ Len(history) = IF Cardinality(Recorded) < HistorySize
                          THEN Cardinality(Recorded) ELSE HistorySize
        /\ \A c \in Recorded :
             \/ \E i \in DOMAIN history : history[i] = note[c]
             \/ \A i \in DOMAIN history :
                  history[i].LastModified >= note[c].LastModified
    BY DEF HistoryInv, HistoryKeepsNewest, Recorded
  <2>2. \A c \in Recorded' :
          \/ \E i \in DOMAIN history' : history'[i] = note'[c]
          \/ \A i \in DOMAIN history' :
               history'[i].LastModified >= note'[c].LastModified
    BY <1>1, <1>3, <2>1
  <2>3. /\ SortedByTimestamp(history')
        /\ Len(history') = IF Cardinality(Recorded') < HistorySize
                           THEN Cardinality(Recorded') ELSE HistorySize
    BY <1>1, <1>3, <2>1
  <2> QED BY <2>2, <2>3 DEF HistoryKeepsNewest, Recorded
<1> QED BY <1>4, <1>5 DEF HistoryInv

(* The history holds the newest of all that was pushed, and no more than   *)
(* its size.                                                               *)
THEOREM HistoryKeepsNewestHolds == Spec => []HistoryKeepsNewest
<1>1. Init => HistoryInv
  <2> SUFFICES ASSUME Init PROVE HistoryInv
    OBVIOUS
  <2>1. Recorded = {} /\ history = <<>>
    BY DEF Init, Recorded
  <2>2. IsFiniteSet(Recorded) /\ Cardinality(Recorded) = 0
    BY <2>1, FS_EmptySet
  <2> QED
    BY <2>1, <2>2, HistorySizeAssumption
       DEF HistoryInv, HistoryKeepsNewest, RoomInv, Recorded, SortedByTimestamp
<1>2. HistoryInv => HistoryKeepsNewest
  BY DEF HistoryInv
<1> QED BY <1>1, <1>2, Invariance, HistoryStep, PTL DEF Spec
=============================================================================
