-------------------------- MODULE BroadcastProofs --------------------------
(***************************************************************************)
(* Dispatcher implements Broadcast: the loop of Start, the lock and the    *)
(* channels amount to a broadcast in one step, for every number of calls,  *)
(* connections and pollers.                                                *)
(***************************************************************************)
EXTENDS DispatcherProofs

(* A subscriber is one that was asked for; so is a notification, but for   *)
(* its date.                                                               *)
AskedInv ==
  /\ \A s \in Conns : handler[s] \in {"adding", "active", "removing", "gone"}
                        => sub[s] \in Requests
  /\ \A c \in Calls : phase[c] = "unsent" <=> note[c] = Nil

(* The agent is asked only about notifications with a usable publication.  *)
PublicationInv == loop \in {"policy", "range"} => ~PublicationFails(note[cur])

(* A send fails only on a channel that was filled before.                  *)
LagInv ==
  \A s \in Conns : loop = "range" /\ fate[cur][s] = "failed"
                     => Len(inbox[s]) >= notificationBuffer

(* Stop returns when, and only when, the loop has ended.                   *)
StopInv == loop = "stopped" <=> stopper = "done"

----------------------------------------------------------------------------
(* Every step keeps to what was asked for.                                 *)
LEMMA AskedStep == TypeInv /\ AskedInv /\ [Next]_vars => AskedInv'
<1> SUFFICES ASSUME TypeInv, AskedInv, [Next]_vars PROVE AskedInv'
  OBVIOUS
<1>t. /\ note \in [Calls -> {Nil} \cup NotificationModel]
      /\ phase \in [Calls -> Phase]
      /\ handler \in [Conns -> Handler]
      /\ sub \in [Conns -> {Nil} \cup Subscriber]
  BY DEF TypeInv, TypeOK
<1> USE DEF AskedInv
<1>1. ASSUME NEW c \in Calls, Send(c) PROVE AskedInv'
  <2>1. PICK n \in Inputs : note' = [note EXCEPT ![c] = n]
    BY <1>1 DEF Send
  <2>2. n # Nil
    BY InputsAssumption, IdentityAssumption
  <2> QED BY <1>1, <1>t, <2>1, <2>2 DEF Send, subVars
<1>2. ASSUME NEW c \in Calls, Wake(c) PROVE AskedInv'
  <2>1. note[c] \in NotificationModel
    BY <1>2 DEF Wake, TypeInv, DataInv
  <2>2. Dated(note[c]) # Nil
    BY <2>1, DatedType, IdentityAssumption
  <2> QED BY <1>2, <1>t, <2>2 DEF Wake, subVars
<1>3. ASSUME NEW c \in Calls, Receive(c) PROVE AskedInv'
  BY <1>3, <1>t DEF Receive, subVars
<1>4. CASE Push
  <2>1. cur \in Calls /\ phase[cur] = "received"
    BY <1>4 DEF Push, TypeInv, LoopInv, Busy
  <2> QED BY <1>4, <1>t, <2>1 DEF Push, subVars
<1>5. ASSUME NEW s \in Conns, Subscribe(s) PROVE AskedInv'
  BY <1>5, <1>t DEF Subscribe, sendVars
<1>6. ASSUME NEW s \in Conns, addSubscriber(s) \/ EndStream(s) \/ Unsubscribe(s)
      PROVE  AskedInv'
  BY <1>6, <1>t DEF addSubscriber, EndStream, Unsubscribe, sendVars
<1>7. CASE UNCHANGED <<note, phase, handler, sub>>
  BY <1>7
<1> QED
  BY <1>1, <1>2, <1>3, <1>4, <1>5, <1>6, <1>7
     DEF Next, Tick, CheckPublication, EvaluateContentPolicy, ForwardTo, EndForward,
         Stop, StopLoop, Lock, TakeNotification, Poll, PollReturns, sendVars,
         subVars, vars

(* Every step keeps the notification in hand usable.                       *)
LEMMA PublicationStep ==
  TypeInv /\ PublicationInv /\ [Next]_vars => PublicationInv'
<1> SUFFICES ASSUME TypeInv, PublicationInv, [Next]_vars PROVE PublicationInv'
  OBVIOUS
<1>1. ASSUME NEW c \in Calls, Send(c) \/ Wake(c) PROVE PublicationInv'
  <2>1. loop \in Busy => c # cur
    BY <1>1 DEF Send, Wake, TypeInv, LoopInv
  <2>2. loop \in Busy => note'[cur] = note[cur]
    BY <1>1, <2>1 DEF Send, Wake, TypeInv, TypeOK, LoopInv
  <2> QED BY <1>1, <2>2 DEF Send, Wake, PublicationInv, loopVars, Busy
<1>2. CASE CheckPublication
  BY <1>2 DEF CheckPublication, PublicationInv, sendVars
<1>3. ASSUME NEW answer \in {"allow", "deny", "error"}, EvaluateContentPolicy(answer)
      PROVE  PublicationInv'
  BY <1>3 DEF EvaluateContentPolicy, Evaluated, PublicationInv, sendVars
<1>4. CASE loop' \notin {"policy", "range"}
  BY <1>4 DEF PublicationInv
<1>5. CASE UNCHANGED <<note, cur, loop>>
  BY <1>5 DEF PublicationInv
<1> QED
  BY <1>1, <1>2, <1>3, <1>4, <1>5
     DEF Next, Tick, Receive, ForwardTo, EndForward, Push, Stop, StopLoop,
         Subscribe, Lock, addSubscriber, TakeNotification, EndStream, Unsubscribe,
         Poll, PollReturns, sendVars, loopVars, vars

(* Every step keeps the reason of a failed send.                           *)
LEMMA LagStep == TypeInv /\ FateInv /\ LagInv /\ [Next]_vars => LagInv'
<1> SUFFICES ASSUME TypeInv, FateInv, LagInv, [Next]_vars, NEW s \in Conns,
                    loop' = "range", fate'[cur'][s] = "failed"
             PROVE  Len(inbox'[s]) >= notificationBuffer
  BY DEF LagInv
<1>t. /\ inbox \in [Conns -> Seq(Message)] /\ taken \in [Conns -> Nat]
      /\ fate \in [Calls -> [Conns -> Fate]]
  BY DEF TypeInv, TypeOK
<1>1. ASSUME NEW t \in Conns, ForwardTo(t)
      PROVE  Len(inbox'[s]) >= notificationBuffer
  <2>1. cur' = cur /\ loop = "range" /\ cur \in Calls
    BY <1>1 DEF ForwardTo, loopVars, TypeInv, LoopInv, Busy
  <2>2. CASE s # t
    <3>1. fate'[cur][s] = fate[cur][s]
      BY <1>1, <2>1, <2>2, ForwardFate
    <3>2. inbox'[s] = inbox[s]
      BY <1>1, <1>t, <2>2, ForwardOutcome
         DEF ForwardedTo, NotForwardedTo, Enqueue
    <3> QED BY <2>1, <3>1, <3>2 DEF LagInv
  <2>3. CASE s = t
    <3>1. inbox' = inbox /\ ~HasRoom(s)
      BY <1>1, <1>t, <2>1, <2>3 DEF ForwardTo, SubscriberSend
    <3>2. Len(inbox[s]) \in Nat /\ taken[s] \in Nat
      BY <1>t
    <3> QED BY <3>1, <3>2, BufferAssumption DEF HasRoom, Buffered
  <2> QED BY <2>2, <2>3
<1>2. ASSUME NEW answer \in {"allow", "deny", "error"}, EvaluateContentPolicy(answer)
      PROVE  FALSE
  BY <1>2 DEF EvaluateContentPolicy, FateInv
<1>3. CASE UNCHANGED <<inbox, cur, loop, fate>>
  BY <1>3 DEF LagInv
<1> QED
  BY <1>1, <1>2, <1>3
     DEF Next, Tick, Send, Wake, Receive, CheckPublication, EndForward, Push, Stop,
         StopLoop, Subscribe, Lock, addSubscriber, TakeNotification, EndStream,
         Unsubscribe, Poll, PollReturns, loopVars, chanVars, obsVars, vars

(* Every step keeps the loop and the caller of Stop together.              *)
LEMMA StopStep == StopInv /\ [Next]_vars => StopInv'
<1> SUFFICES ASSUME StopInv, [Next]_vars PROVE StopInv'
  OBVIOUS
<1>1. CASE CheckPublication \/ EndForward \/ Push \/ Stop \/ StopLoop
  BY <1>1 DEF CheckPublication, EndForward, RangeDone, Push, Stop, StopLoop,
              StopTaken, StopInv, loopVars
<1>2. ASSUME NEW answer \in {"allow", "deny", "error"}, EvaluateContentPolicy(answer)
      PROVE  StopInv'
  BY <1>2 DEF EvaluateContentPolicy, Evaluated, StopInv
<1>3. ASSUME NEW c \in Calls, Receive(c) PROVE StopInv'
  BY <1>3 DEF Receive, StopInv
<1>4. CASE UNCHANGED <<loop, stopper>>
  BY <1>4 DEF StopInv
<1> QED
  BY <1>1, <1>2, <1>3, <1>4
     DEF Next, Tick, Send, Wake, ForwardTo, Subscribe, Lock, addSubscriber,
         TakeNotification, EndStream, Unsubscribe, Poll, PollReturns, loopVars, vars

(* The invariant the refinement rests on, together with IInv.              *)
RefInv == IInv /\ AskedInv /\ PublicationInv /\ LagInv /\ StopInv

(* It holds of every reachable state.                                      *)
THEOREM RefInvariance == Spec => []RefInv
<1>1. Init => AskedInv /\ PublicationInv /\ LagInv /\ StopInv
  BY DEF Init, AskedInv, PublicationInv, LagInv, StopInv
<1>2. /\ IInv /\ AskedInv /\ PublicationInv /\ LagInv /\ StopInv /\ [Next]_vars
      => AskedInv' /\ PublicationInv' /\ LagInv' /\ StopInv'
  BY AskedStep, PublicationStep, LagStep, StopStep DEF IInv, TypeInv
<1> QED BY <1>1, <1>2, Invariance, PTL DEF Spec, RefInv

(* The loop that has ended puts nothing on a channel or in the history.    *)
LEMMA StoppedStep ==
  StopInv /\ [Next]_vars =>
    [stopper = "done" => inbox' = inbox /\ history' = history]_vars
<1> SUFFICES ASSUME StopInv, Next, stopper = "done"
             PROVE  inbox' = inbox /\ history' = history
  BY DEF vars
<1>1. loop = "stopped"
  BY DEF StopInv
<1>2. ~Push /\ \A s \in Conns : ~ForwardTo(s)
  BY <1>1 DEF Push, ForwardTo
<1> QED
  BY <1>2 DEF Next, Tick, Send, Wake, Receive, CheckPublication,
     EvaluateContentPolicy, EndForward, Stop, StopLoop, Subscribe, Lock,
     addSubscriber, TakeNotification, EndStream, Unsubscribe, Poll, PollReturns,
     chanVars

(* After Stop has returned the dispatcher is silent, whatever was still on *)
(* its way to it.                                                          *)
THEOREM SilentAfterStopHolds == Spec => SilentAfterStop
<1>1. RefInv => StopInv
  BY DEF RefInv
<1> QED BY <1>1, RefInvariance, StoppedStep, PTL DEF Spec, SilentAfterStop

----------------------------------------------------------------------------
(* The refinement mapping, variable by variable.                           *)

(* The abstract conditions do not look at the date.                        *)
LEMMA DatelessSame ==
  ASSUME NEW n \in NotificationModel, NEW r \in Subscriber, NEW a \in BOOLEAN
  PROVE  LET m == [n EXCEPT !.NotificationDate = ""]
         IN  /\ B!Skipped(m, a, r) <=> Skipped(n, a, r)
             /\ B!PublicationFails(m) <=> PublicationFails(n)
<1> DEFINE m == [n EXCEPT !.NotificationDate = ""]
<1>1. /\ m.IsE2ETest = n.IsE2ETest /\ m.Type = n.Type
      /\ m.SubscriptionType = n.SubscriptionType /\ m.Publication = n.Publication
  BY DEF NotificationModel
<1> HIDE DEF m
<1>2. B!Skipped(m, a, r) <=> Skipped(n, a, r)
  BY <1>1 DEF B!Skipped, Skipped, B!matchesSubType, matchesSubType,
     B!ContentDeleteType, ContentDeleteType, B!RelatedContentType, RelatedContentType
<1>3. B!PublicationFails(m) <=> PublicationFails(n)
  BY <1>1 DEF B!PublicationFails, PublicationFails, B!OnlyOneOrPinkFails,
     OnlyOneOrPinkFails
<1> QED BY <1>2, <1>3 DEF m

(* Only Send changes what is seen of the notifications.                    *)
LEMMA NoteSame ==
  ASSUME TypeInv, AskedInv, Next, \A c \in Calls : ~Send(c)
  PROVE  noteBar' = noteBar
<1>1. ASSUME NEW c \in Calls, Wake(c) PROVE noteBar' = noteBar
  <2>1. note[c] \in NotificationModel /\ note[c] # Nil
    BY <1>1, IdentityAssumption DEF Wake, TypeInv, DataInv
  <2>2. Dated(note[c]) # Nil
    BY <2>1, DatedType, IdentityAssumption
  <2>3. [Dated(note[c]) EXCEPT !.NotificationDate = ""]
          = [note[c] EXCEPT !.NotificationDate = ""]
    BY <2>1 DEF Dated, NotificationModel
  <2>4. \A d \in Calls : note'[d] = IF d = c THEN Dated(note[c]) ELSE note[d]
    BY <1>1 DEF Wake, TypeInv, TypeOK
  <2> QED BY <2>1, <2>2, <2>3, <2>4 DEF noteBar
<1>2. CASE note' = note
  BY <1>2 DEF noteBar
<1> QED
  BY <1>1, <1>2
     DEF Next, Tick, Receive, CheckPublication, EvaluateContentPolicy,
         ForwardTo, EndForward, Push, Stop, StopLoop, Subscribe, Lock,
         addSubscriber, TakeNotification, EndStream, Unsubscribe, Poll, PollReturns,
         sendVars

(* Only Send and the end of a forwarding change what is pending.           *)
LEMMA PendingSame ==
  ASSUME TypeInv, Next, ~EndForward, \A c \in Calls : ~Send(c)
  PROVE  pendingBar' = pendingBar
<1>t. phase \in [Calls -> Phase] /\ report \in [Calls -> Report]
  BY DEF TypeInv, TypeOK
<1>1. ASSUME NEW c \in Calls, Wake(c) \/ Receive(c) PROVE pendingBar' = pendingBar
  BY <1>1, <1>t DEF Wake, Receive, pendingBar, obsVars
<1>2. CASE Push
  <2>1. cur \in Calls /\ phase[cur] = "received"
    BY <1>2 DEF Push, TypeInv, LoopInv, Busy
  <2> QED BY <1>2, <1>t, <2>1 DEF Push, pendingBar, obsVars
<1>3. CASE UNCHANGED <<phase, report>>
  BY <1>3 DEF pendingBar
<1> QED
  BY <1>1, <1>2, <1>3
     DEF Next, Tick, CheckPublication, EvaluateContentPolicy,
         ForwardTo, Stop, StopLoop, Subscribe, Lock,
         addSubscriber, TakeNotification, EndStream, Unsubscribe, Poll, PollReturns,
         sendVars, obsVars

(* Only addSubscriber changes who was a member.                            *)
LEMMA MemberSame ==
  ASSUME TypeInv, Next, \A s \in Conns : ~addSubscriber(s)
  PROVE  memberBar' = memberBar
<1>t. handler \in [Conns -> Handler] /\ sub \in [Conns -> {Nil} \cup Subscriber]
  BY DEF TypeInv, TypeOK
<1>1. ASSUME NEW s \in Conns, Subscribe(s) PROVE memberBar' = memberBar
  BY <1>1, <1>t DEF Subscribe, memberBar
<1>2. ASSUME NEW s \in Conns, EndStream(s) \/ Unsubscribe(s)
      PROVE  memberBar' = memberBar
  BY <1>2, <1>t DEF EndStream, Unsubscribe, memberBar
<1>3. CASE UNCHANGED <<handler, sub>>
  BY <1>3 DEF memberBar
<1> QED
  BY <1>1, <1>2, <1>3
     DEF Next, Tick, Send, Wake, Receive, CheckPublication, EvaluateContentPolicy,
         ForwardTo, EndForward, Push, Stop, StopLoop, Lock, TakeNotification, Poll,
         PollReturns, subVars

(* What is on a channel is a sequence of messages of calls.                *)
LEMMA InboxType ==
  ASSUME TypeInv, NEW s \in Conns
  PROVE  /\ inbox[s] \in Seq(Message) /\ Len(inbox[s]) \in Nat
         /\ \A i \in 1..Len(inbox[s]) : inbox[s][i].call \in Calls
<1>1. inbox[s] \in Seq(Message)
  BY DEF TypeInv, TypeOK
<1>2. \A i \in 1..Len(inbox[s]) : inbox[s][i] \in Message
  BY <1>1
<1> QED BY <1>1, <1>2 DEF Message

(* Only the end of a forwarding changes what is seen of the channels.      *)
LEMMA GotSame ==
  ASSUME TypeInv, FateInv, Next, ~EndForward
  PROVE  gotBar' = gotBar
<1> SUFFICES ASSUME NEW s \in Conns PROVE Visible(s)' = Visible(s)
  BY DEF gotBar
<1>1. ASSUME NEW t \in Conns, ForwardTo(t) PROVE Visible(s)' = Visible(s)
  <2>1. /\ loop = "range" /\ loop' = loop /\ cur' = cur /\ cur \in Calls
        /\ fate[cur][t] = "none"
    BY <1>1 DEF ForwardTo, loopVars, TypeInv, LoopInv, Busy
  <2>2. CASE s # t
    <3>1. fate'[cur][s] = fate[cur][s]
      BY <1>1, <2>1, <2>2, ForwardFate
    <3>2. inbox'[s] = inbox[s]
      BY <1>1, <2>2, ForwardOutcome DEF ForwardedTo, NotForwardedTo, Enqueue,
         TypeInv, TypeOK
    <3> QED BY <2>1, <3>1, <3>2 DEF Visible
  <2>3. CASE s = t /\ ForwardedTo(t)
    <3>1. fate'[cur][s] = "sent"
      BY <1>1, <2>1, <2>3, ForwardFate
    <3>2. /\ Len(inbox[s]) \in Nat
          /\ \A i \in 1..Len(inbox[s]) : inbox'[s][i] = inbox[s][i]
      BY <1>1, <2>3, ForwardInbox
    <3>3. Len(inbox'[s]) = Len(inbox[s]) + 1
      BY <1>1, <2>3, InboxType, ForwardedIsMessage DEF ForwardedTo, Enqueue,
         TypeInv, TypeOK
    <3>4. Visible(s)' = [i \in 1..Len(inbox[s]) |-> inbox'[s][i].call]
      BY <2>1, <3>1, <3>2, <3>3 DEF Visible
    <3>5. Visible(s) = [i \in 1..Len(inbox[s]) |-> inbox[s][i].call]
      BY <2>1, <2>3 DEF Visible
    <3> QED BY <3>2, <3>4, <3>5
  <2>4. CASE s = t /\ ~ForwardedTo(t)
    <3>1. fate'[cur][s] # "sent"
      BY <1>1, <2>1, <2>4, ForwardFate
    <3>2. inbox' = inbox
      BY <1>1, <2>4, ForwardOutcome DEF NotForwardedTo
    <3> QED BY <2>1, <2>4, <3>1, <3>2 DEF Visible
  <2> QED BY <2>2, <2>3, <2>4
<1>2. ASSUME NEW answer \in {"allow", "deny", "error"}, EvaluateContentPolicy(answer)
      PROVE  Visible(s)' = Visible(s)
  <2>1. fate[cur][s] = "none" /\ fate' = fate /\ cur' = cur /\ inbox' = inbox
    BY <1>2 DEF EvaluateContentPolicy, FateInv, chanVars
  <2> QED BY <2>1 DEF Visible
<1>3. CASE inbox' = inbox /\ loop # "range" /\ loop' # "range"
  BY <1>3 DEF Visible
<1>4. CASE UNCHANGED <<inbox, loop, cur, fate>>
  BY <1>4 DEF Visible
<1> QED
  BY <1>1, <1>2, <1>3, <1>4
     DEF Next, Tick, Send, Wake, Receive, CheckPublication, Push, Stop, StopLoop,
         StopTaken, Subscribe, Lock, addSubscriber, TakeNotification, EndStream,
         Unsubscribe, Poll, PollReturns, loopVars, chanVars, obsVars

(* What the loop sent in this round is the last message on the channel.    *)
LEMMA SentIsLast ==
  ASSUME IInv, loop = "range", NEW s \in Conns, fate[cur][s] = "sent"
  PROVE  Len(inbox[s]) >= 1 /\ inbox[s][Len(inbox[s])].call = cur
<1>1. cur \in Calls /\ cur # Nil /\ TypeInv
  BY IdentityAssumption DEF IInv, TypeInv, LoopInv, Busy
<1>2. DOMAIN inbox[s] = 1..Len(inbox[s]) /\ Len(inbox[s]) \in Nat
  BY <1>1, InboxType
<1>3. PICK i \in 1..Len(inbox[s]) : inbox[s][i].call = cur
  BY <1>1, <1>2 DEF IInv, SentIsEnqueued
<1>4. Len(inbox[s]) >= 1 /\ Len(inbox[s]) \in DOMAIN inbox[s]
  BY <1>2, <1>3
<1> DEFINE last == inbox[s][Len(inbox[s])].call
<1>5. last \in Calls
  BY <1>1, <1>2, <1>4, InboxType
<1>6. ASSUME i # Len(inbox[s]) PROVE FALSE
  <2>1. i < Len(inbox[s])
    BY <1>2, <1>6
  <2>2. turn[cur] < turn[last]
    BY <1>2, <1>3, <1>4, <2>1 DEF IInv, SameOrder
  <2>3. turn[last] <= round /\ turn[cur] = round
    BY <1>1, <1>5 DEF IInv, RoundInv
  <2>4. turn[last] \in Nat /\ round \in Nat
    BY <1>5 DEF IInv, TypeOK
  <2> QED BY <2>2, <2>3, <2>4
<1> QED BY <1>3, <1>4, <1>6

(* When the range is done the addressees that did not lag are those that   *)
(* were sent the notification.                                             *)
LEMMA AddresseesServed ==
  ASSUME RefInv, RangeDone, NEW s \in Conns
  PROVE  s \in B!Addressees(noteBar[cur], verdict[cur]) \ With(cur, "failed")
           <=> fate[cur][s] = "sent"
<1>1. /\ IInv /\ TypeInv /\ cur \in Calls /\ loop = "range"
      /\ note[cur] \in NotificationModel
      /\ verdict[cur] \in {"allow", "deny"}
      /\ hasAccess <=> verdict[cur] = "allow"
  BY DEF RefInv, IInv, RangeDone, TypeInv, DataInv, LoopInv, Busy, FateInv
<1>2. CASE s \notin subscribers
  <2>1. fate[cur][s] = "none"
    BY <1>1, <1>2 DEF IInv, FateInv
  <2> QED BY <1>1, <1>2, <2>1 DEF B!Addressees
<1>3. CASE s \in subscribers
  <2>1. /\ fate[cur][s] \in {"sent", "failed", "skipped"}
        /\ handler[s] \in {"active", "removing"}
        /\ sub[s] \in Subscriber
    BY <1>1, <1>3 DEF RangeDone, TypeInv, TypeOK, DataInv, Fate
  <2>2. memberBar[s] = sub[s]
    BY <2>1 DEF memberBar
  <2>3. noteBar[cur] = [note[cur] EXCEPT !.NotificationDate = ""]
    BY <1>1, IdentityAssumption DEF noteBar
  <2>4. B!Skipped(noteBar[cur], verdict[cur] = "allow", memberBar[s])
          <=> Skipped(note[cur], verdict[cur] = "allow", sub[s])
    BY <1>1, <2>1, <2>2, <2>3, DatelessSame
  <2>5. Skipped(note[cur], verdict[cur] = "allow", sub[s])
          <=> Skipped(note[cur], hasAccess, sub[s])
    BY <1>1 DEF Skipped
  <2>6. Skipped(note[cur], hasAccess, sub[s]) <=> ~Entitled(cur, s)
    BY <1>1, <1>3, SkippedIsNotEntitled DEF IInv
  <2>7. fate[cur][s] = "skipped" <=> ~Entitled(cur, s)
    BY <1>1, <2>1 DEF IInv, DeliveryContract
  <2>8. s \in B!Addressees(noteBar[cur], verdict[cur])
          <=> fate[cur][s] \in {"sent", "failed"}
    BY <1>1, <1>3, <2>1, <2>4, <2>5, <2>6, <2>7 DEF B!Addressees
  <2> QED BY <2>8 DEF With
<1> QED BY <1>2, <1>3

(* The end of a forwarding is the forwarding, in one step.                 *)
LEMMA ForwardStep ==
  ASSUME RefInv, EndForward
  PROVE  cur \in Calls /\ B!Forward(cur)
<1> DEFINE lagging == IF loop = "range" THEN With(cur, "failed") ELSE {}
           served(s) == s \in B!Addressees(noteBar[cur], verdict[cur]) \ lagging
<1>1. /\ IInv /\ TypeInv /\ cur \in Calls /\ loop \in {"return", "range"}
      /\ phase[cur] = "received" /\ note[cur] \in NotificationModel
      /\ report[cur] = "none" /\ loop' = "push"
      /\ loop = "range" => RangeDone
  BY DEF RefInv, IInv, EndForward, RangeDone, TypeInv, DataInv, LoopInv, Busy, FateInv
<1>2. openBar = TRUE /\ openBar' = openBar
  BY <1>1 DEF openBar
<1>3. cur \in pendingBar
  BY <1>1 DEF pendingBar
<1>4. pendingBar' = pendingBar \ {cur}
  <2>1. phase' = phase /\ \A c \in Calls : (report'[c] = "none"
                                              <=> c # cur /\ report[c] = "none")
    BY <1>1 DEF EndForward, sendVars, TypeInv, TypeOK
  <2> QED BY <2>1 DEF pendingBar
<1>5. /\ noteBar' = noteBar /\ memberBar' = memberBar
      /\ subscribers' = subscribers /\ inbox' = inbox
  BY DEF EndForward, noteBar, memberBar, sendVars, subVars, chanVars
<1>6. verdict[cur] \in {"allow", "deny", "error"}
  BY <1>1 DEF IInv, FateInv
<1>7. lagging \in SUBSET B!MayLag
  <2> SUFFICES ASSUME NEW s \in Conns, loop = "range", fate[cur][s] = "failed"
               PROVE  s \in B!MayLag
    BY DEF With
  <2>1. s \in subscribers
    BY <1>1 DEF IInv, FateInv
  <2>2. Len(inbox[s]) \in Nat /\ Len(inbox[s]) >= notificationBuffer
    BY <1>1, InboxType DEF RefInv, LagInv
  <2>3. gotBar[s] = [i \in 1..Len(inbox[s]) |-> inbox[s][i].call]
    BY DEF gotBar, Visible
  <2>4. Len(gotBar[s]) = Len(inbox[s])
    BY <2>2, <2>3
  <2> QED BY <2>1, <2>2, <2>4 DEF B!MayLag
<1>8. B!PublicationFails(noteBar[cur]) => verdict[cur] = "error"
  <2>1. noteBar[cur] = [note[cur] EXCEPT !.NotificationDate = ""]
    BY <1>1, IdentityAssumption DEF noteBar
  <2>2. [note[cur] EXCEPT !.NotificationDate = ""].Publication = note[cur].Publication
    BY <1>1 DEF NotificationModel
  <2>3. B!PublicationFails(noteBar[cur]) <=> PublicationFails(note[cur])
    BY <2>1, <2>2 DEF B!PublicationFails, PublicationFails, B!OnlyOneOrPinkFails,
       OnlyOneOrPinkFails
  <2> QED BY <1>1, <2>3 DEF RefInv, PublicationInv, IInv, FateInv
<1>9. ASSUME NEW s \in Conns
      PROVE  gotBar'[s] = IF served(s) THEN Append(gotBar[s], cur) ELSE gotBar[s]
  <2>1. gotBar'[s] = [i \in 1..Len(inbox[s]) |-> inbox[s][i].call]
    BY <1>1, <1>5 DEF gotBar, Visible
  <2>2. CASE loop = "return"
    <3>1. gotBar[s] = [i \in 1..Len(inbox[s]) |-> inbox[s][i].call]
      BY <2>2 DEF gotBar, Visible
    <3>2. verdict[cur] = "error"
      BY <1>1, <2>2 DEF IInv, FateInv
    <3>3. ~served(s)
      BY <3>2 DEF B!Addressees
    <3> QED BY <2>1, <3>1, <3>3
  <2>3. CASE loop = "range" /\ fate[cur][s] # "sent"
    <3>1. gotBar[s] = [i \in 1..Len(inbox[s]) |-> inbox[s][i].call]
      BY <2>3 DEF gotBar, Visible
    <3>2. ~served(s)
      BY <1>1, <2>3, AddresseesServed
    <3> QED BY <2>1, <3>1, <3>2
  <2>4. CASE loop = "range" /\ fate[cur][s] = "sent"
    <3> DEFINE k == Len(inbox[s])
               g == [i \in 1..(k - 1) |-> inbox[s][i].call]
    <3>1. gotBar[s] = g
      BY <2>4 DEF gotBar, Visible
    <3>2. served(s)
      BY <1>1, <2>4, AddresseesServed
    <3>3. k \in Nat /\ k >= 1 /\ inbox[s][k].call = cur
      BY <1>1, <2>4, SentIsLast, InboxType
    <3>4. \A i \in 1..k : inbox[s][i].call \in Calls
      BY <1>1, InboxType
    <3> HIDE DEF k
    <3>5. g \in Seq(Calls) /\ Len(g) = k - 1
      BY <3>3, <3>4
    <3>6. Append(g, cur) = [i \in 1..k |-> inbox[s][i].call]
      BY <3>3, <3>5
    <3> QED BY <2>1, <3>1, <3>2, <3>6 DEF k
  <2> QED BY <1>1, <2>2, <2>3, <2>4
<1>10. gotBar' = [s \in Conns |-> IF served(s) THEN Append(gotBar[s], cur)
                                               ELSE gotBar[s]]
  <2>1. gotBar' = [s \in Conns |-> gotBar'[s]]
    BY DEF gotBar
  <2> HIDE DEF served
  <2> QED BY <1>9, <2>1
<1> HIDE DEF lagging
<1>11. \E answer \in {"allow", "deny", "error"}, lag \in SUBSET B!MayLag :
         /\ B!PublicationFails(noteBar[cur]) => answer = "error"
         /\ gotBar' = [s \in Conns |->
                         IF s \in B!Addressees(noteBar[cur], answer) \ lag
                         THEN Append(gotBar[s], cur) ELSE gotBar[s]]
  BY <1>6, <1>7, <1>8, <1>10
<1> QED BY <1>1, <1>2, <1>3, <1>4, <1>5, <1>11 DEF B!Forward

(* Every step of the dispatcher is a step of the broadcast or none.        *)
LEMMA BroadcastStep == RefInv /\ [Next]_vars => [B!Next]_(B!vars)
<1> SUFFICES ASSUME RefInv, [Next]_vars PROVE [B!Next]_(B!vars)
  OBVIOUS
<1>i. TypeInv /\ FateInv /\ AskedInv
  BY DEF RefInv, IInv, TypeInv
<1>1. ASSUME NEW c \in Calls, Send(c) PROVE B!Send(c)
  <2>1. PICK n \in Inputs : note' = [note EXCEPT ![c] = n]
    BY <1>1 DEF Send
  <2>2. n \in NotificationModel /\ n.NotificationDate = "" /\ n # Nil
    BY InputsAssumption, IdentityAssumption
  <2>3. [n EXCEPT !.NotificationDate = ""] = n
    BY <2>2 DEF NotificationModel
  <2>4. note[c] = Nil /\ phase[c] = "unsent" /\ report[c] = "none"
    BY <1>1, <1>i, IdentityAssumption DEF Send, AskedInv, FateInv, TypeInv, LoopInv
  <2>5. noteBar[c] = Nil
    BY <2>4 DEF noteBar
  <2>6. noteBar' = [noteBar EXCEPT ![c] = n]
    BY <1>i, <2>1, <2>2, <2>3 DEF noteBar, TypeInv, TypeOK
  <2>7. pendingBar' = pendingBar \cup {c}
    BY <1>1, <1>i, <2>4 DEF Send, pendingBar, obsVars, TypeInv, TypeOK
  <2>8. UNCHANGED <<memberBar, subscribers, gotBar, openBar>>
    BY <1>1 DEF Send, memberBar, gotBar, Visible, openBar, subVars, loopVars,
                chanVars, obsVars
  <2> QED BY <2>5, <2>6, <2>7, <2>8 DEF B!Send
<1>2. ASSUME NEW s \in Conns, addSubscriber(s) PROVE B!Join(s)
  <2>1. memberBar[s] = Nil
    BY <1>2 DEF addSubscriber, memberBar
  <2>2. sub[s] \in Requests
    BY <1>2, <1>i DEF addSubscriber, AskedInv
  <2>3. memberBar' = [memberBar EXCEPT ![s] = sub[s]]
    BY <1>2, <1>i DEF addSubscriber, memberBar, TypeInv, TypeOK
  <2>4. UNCHANGED <<noteBar, pendingBar, gotBar, openBar>>
    BY <1>2 DEF addSubscriber, noteBar, pendingBar, gotBar, Visible, openBar,
                sendVars, loopVars, chanVars, obsVars
  <2>5. subscribers' = subscribers \cup {s}
    BY <1>2 DEF addSubscriber
  <2> QED BY <2>1, <2>2, <2>3, <2>4, <2>5 DEF B!Join
<1>3. ASSUME NEW s \in Conns, Unsubscribe(s) PROVE B!Leave(s)
  <2>1. s \in subscribers /\ subscribers' = subscribers \ {s}
    BY <1>3, <1>i DEF Unsubscribe, TypeInv, DataInv
  <2>2. memberBar' = memberBar
    BY <1>3, <1>i DEF Unsubscribe, memberBar, TypeInv, TypeOK
  <2>3. UNCHANGED <<noteBar, pendingBar, gotBar, openBar>>
    BY <1>3 DEF Unsubscribe, noteBar, pendingBar, gotBar, Visible, openBar,
                sendVars, loopVars, chanVars, obsVars
  <2> QED BY <2>1, <2>2, <2>3 DEF B!Leave
<1>4. CASE StopLoop
  <2>1. openBar = TRUE /\ openBar' = FALSE
    BY <1>4 DEF StopLoop, StopTaken, openBar
  <2>2. UNCHANGED <<noteBar, pendingBar, memberBar, subscribers, gotBar>>
    BY <1>4 DEF StopLoop, StopTaken, noteBar, pendingBar, memberBar, gotBar,
                Visible, sendVars, subVars, chanVars, obsVars
  <2>3. B!Stop
    BY <2>1, <2>2 DEF B!Stop
  <2> QED BY <2>3 DEF B!Next
<1>5. CASE EndForward
  BY <1>5, ForwardStep DEF B!Next
<1>6. ASSUME Next, ~EndForward, ~StopLoop, \A c \in Calls : ~Send(c),
             \A s \in Conns : ~addSubscriber(s) /\ ~Unsubscribe(s)
      PROVE  UNCHANGED B!vars
  <2>1. noteBar' = noteBar /\ pendingBar' = pendingBar
    BY <1>i, <1>6, NoteSame, PendingSame
  <2>2. memberBar' = memberBar /\ gotBar' = gotBar
    BY <1>i, <1>6, MemberSame, GotSame
  <2>3. subscribers' = subscribers /\ openBar' = openBar
    BY <1>6 DEF Next, Tick, Wake, Receive, CheckPublication,
       EvaluateContentPolicy, Evaluated, ForwardTo, Push, Stop, Subscribe, Lock,
       TakeNotification, EndStream, Poll, PollReturns, openBar, loopVars
  <2> QED BY <2>1, <2>2, <2>3 DEF B!vars
<1>7. CASE UNCHANGED vars
  <2>1. UNCHANGED <<noteBar, pendingBar, memberBar, subscribers, gotBar, openBar>>
    BY <1>7 DEF vars, noteBar, pendingBar, memberBar, gotBar, Visible, openBar
  <2> QED BY <2>1 DEF B!vars
<1>8. \/ \E c \in Calls : Send(c)
      \/ \E s \in Conns : addSubscriber(s) \/ Unsubscribe(s)
      => B!Next
  BY <1>1, <1>2, <1>3 DEF B!Next
<1> QED BY <1>4, <1>5, <1>6, <1>7, <1>8

(* The dispatcher implements the broadcast it promises.                    *)
THEOREM BroadcastImplemented == Spec => ImplementsBroadcast
<1>1. Init => B!Init
  <2> SUFFICES ASSUME Init PROVE B!Init
    OBVIOUS
  <2>1. noteBar = [c \in Calls |-> Nil] /\ pendingBar = {}
    BY DEF Init, noteBar, pendingBar
  <2>2. memberBar = [s \in Conns |-> Nil] /\ subscribers = {} /\ openBar = TRUE
    BY DEF Init, memberBar, openBar
  <2>3. gotBar = [s \in Conns |-> <<>>]
    BY DEF Init, gotBar, Visible
  <2> QED BY <2>1, <2>2, <2>3 DEF B!Init
<1>2. RefInv /\ [Next]_vars => [B!Next]_(B!vars)
  BY BroadcastStep
<1> QED BY <1>1, <1>2, RefInvariance, PTL DEF Spec, ImplementsBroadcast, B!Spec
=============================================================================
