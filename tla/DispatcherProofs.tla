-------------------------- MODULE DispatcherProofs --------------------------
(***************************************************************************)
(* Theorems about Dispatcher, for every number of calls, connections and   *)
(* pollers, every delay, buffer and history size.                          *)
(***************************************************************************)
EXTENDS Dispatcher, TLAPS

Busy == {"locked", "policy", "range", "return", "push"}

(* What a handler and a call know of the data they have made.              *)
DataInv ==
  /\ \A c \in Calls : phase[c] # "unsent" => note[c] \in NotificationModel
  /\ \A s \in Conns : handler[s] \in {"adding", "active", "removing", "gone"}
                        => sub[s] \in Subscriber
  /\ \A s \in Conns : s \in subscribers <=> handler[s] \in {"active", "removing"}

(* The loop holds a call exactly while it is busy with it.                 *)
LoopInv ==
  /\ loop \in Busy => cur \in Calls
  /\ loop \notin Busy => cur = Nil
  /\ \A c \in Calls : phase[c] = "received" <=> c = cur

(* The loop is a reader for as long as it forwards.                        *)
LockInv ==
  /\ Forwarding => Loop \in readers
  /\ Loop \in readers \cup blocked => loop \in {"locked", "policy", "range", "return"}
  /\ ~(Loop \in readers /\ Loop \in blocked)

(* Rounds number the calls in the order in which they were taken.          *)
RoundInv ==
  /\ \A c \in Calls :
       /\ turn[c] <= round
       /\ turn[c] = 0 <=> phase[c] \in {"unsent", "sleeping", "sending"}
       /\ cur # Nil /\ c # cur => turn[c] < round
       /\ c = cur => turn[c] = round

(* How far the forwarding of a call has come.                              *)
FateInv ==
  /\ \A c \in Calls, s \in Conns : turn[c] = 0 => fate[c][s] = "none"
  /\ \A c \in Calls : report[c] # "none" <=>
       phase[c] = "recorded" \/ (c = cur /\ loop = "push")
  /\ loop \in {"locked", "policy", "return"} =>
       \A s \in Conns : fate[cur][s] = "none"
  /\ Forwarding => audience[cur] = subscribers
  /\ loop = "range" => /\ verdict[cur] \in {"allow", "deny"}
                       /\ hasAccess <=> verdict[cur] = "allow"
                       /\ \A s \in Conns : fate[cur][s] # "none" => s \in subscribers
  /\ loop = "return" => verdict[cur] = "error"

(* Only who is or was registered has a fate.                               *)
ServedInv ==
  \A c \in Calls, s \in Conns :
    fate[c][s] # "none" => handler[s] \in {"active", "removing", "gone"}

(* A notification is dated by the time it is offered to the loop.          *)
DateInv ==
  \A c \in Calls : phase[c] \in {"sending", "received", "recorded"}
                     => note[c].NotificationDate = "now"

(* The inductive invariant of the dispatcher.                              *)
IInv == /\ TypeOK /\ DataInv /\ LoopInv /\ LockInv /\ RoundInv /\ FateInv
        /\ ServedInv /\ DateInv /\ SentIsEnqueued /\ SameOrder
        /\ NobodyOverlooked /\ DeliveryContract /\ WireForm

----------------------------------------------------------------------------
(* Lemmas about the data.                                                  *)

(* What MessageTo builds is a response addressed from Conns.               *)
LEMMA MessageType ==
  ASSUME NEW n \in NotificationModel, NEW s \in Conns, NEW r \in Subscriber
  PROVE  MessageTo(n, s, r) \in NotificationResponse(Conns)
<1> DEFINE c == CreateNotificationResponse(n, r.subscriberOptions)
<1>1. c \in NotificationResponse(Conns)
  BY DEF CreateNotificationResponse, NotificationModel, NotificationResponse,
         EventType, ContentUpdateType, ContentCreateType
<1> HIDE DEF c
<1>2. buildMonitorNotificationMsg(c, s) \in NotificationResponse(Conns)
  BY <1>1 DEF buildMonitorNotificationMsg, NotificationResponse
<1>3. buildStandardNotificationMsg(c) \in NotificationResponse(Conns)
  <2> DEFINE d == [c EXCEPT !.PublishReference = ""]
             e == [d EXCEPT !.LastModified = 0]
             f == [e EXCEPT !.NotificationDate = ""]
  <2>1. d \in NotificationResponse(Conns)
    BY <1>1, BlankAssumption DEF NotificationResponse
  <2> HIDE DEF d
  <2>2. e \in NotificationResponse(Conns)
    <3>1. 0 \in Nat
      OBVIOUS
    <3> QED BY <2>1, <3>1, Zenon DEF NotificationResponse
  <2> HIDE DEF e
  <2>3. f \in NotificationResponse(Conns)
    BY <2>2 DEF NotificationResponse
  <2> HIDE DEF f
  <2>4. buildStandardNotificationMsg(c) = f
    BY DEF buildStandardNotificationMsg, d, e, f
  <2> QED BY <2>3, <2>4
<1> QED
  BY <1>2, <1>3 DEF MessageTo, c

(* A push only permutes, extends by the new entry and drops one.           *)
LEMMA PushedType ==
  ASSUME NEW h \in Seq(NotificationModel), NEW n \in NotificationModel,
         NEW g \in Pushed(h, n, HistorySize)
  PROVE  g \in Seq(NotificationModel)
<1> DEFINE a == Append(h, n)
<1>1. a \in Seq(NotificationModel) /\ Len(a) \in Nat
  OBVIOUS
<1>2. PICK f \in Sorts(a) : g = Trim(f, HistorySize)
  BY DEF Pushed
<1>3. PICK p \in [1..Len(a) -> 1..Len(a)] : f = [i \in 1..Len(a) |-> a[p[i]]]
  BY <1>2 DEF Sorts
<1>4. f \in Seq(NotificationModel)
  <2>1. \A i \in 1..Len(a) : a[p[i]] \in NotificationModel
    BY <1>1, <1>3
  <2> QED BY <1>1, <1>3, <2>1
<1>5. SubSeq(f, 1, Len(f) - 1) \in Seq(NotificationModel) \/ Len(f) = 0
  BY <1>4
<1> QED
  BY <1>2, <1>4, <1>5, HistorySizeAssumption DEF Trim

(* Waking up changes nothing but the date.                                 *)
LEMMA DatedType ==
  ASSUME NEW n \in NotificationModel
  PROVE  Dated(n) \in NotificationModel
BY DEF Dated, NotificationModel

----------------------------------------------------------------------------
(* Type correctness, together with the facts about cur, note and sub that  *)
(* it rests on.                                                            *)

TypeInv == TypeOK /\ DataInv /\ LoopInv

(* The two outcomes of a turn of the loop.                                 *)
ForwardedTo(s) ==
  HasRoom(s) /\ fate' = [fate EXCEPT ![cur][s] = "sent"] /\ Enqueue(s)
NotForwardedTo(s) ==
  /\ \E f \in {"failed", "skipped"} : fate' = [fate EXCEPT ![cur][s] = f]
  /\ inbox' = inbox

(* A turn of the loop has one of them.                                     *)
LEMMA ForwardOutcome ==
  ASSUME NEW s \in Conns, ForwardTo(s)
  PROVE  ForwardedTo(s) \/ NotForwardedTo(s)
BY DEF ForwardTo, SubscriberSend, ForwardedTo, NotForwardedTo

(* What the loop puts on a channel has the type of a message.              *)
LEMMA ForwardedIsMessage ==
  ASSUME TypeInv, NEW s \in Conns, ForwardTo(s)
  PROVE  cur \in Calls /\ MessageFor(s) \in Message
<1>1. cur \in Calls /\ note[cur] \in NotificationModel /\ sub[s] \in Subscriber
  BY DEF ForwardTo, TypeInv, TypeOK, DataInv, LoopInv, Busy
<1> QED BY <1>1, MessageType DEF MessageFor, Message

(* A turn of the loop adds at most one message, and only where it fits.    *)
LEMMA ForwardType ==
  ASSUME TypeInv, NEW s \in Conns, ForwardTo(s)
  PROVE  /\ fate' \in [Calls -> [Conns -> Fate]]
         /\ inbox' \in [Conns -> Seq(Message)]
         /\ \A t \in Conns : Buffered(t)' \in 0..notificationBuffer
<1>1. cur \in Calls /\ MessageFor(s) \in Message
  BY ForwardedIsMessage
<1>2. /\ fate \in [Calls -> [Conns -> Fate]]
      /\ inbox \in [Conns -> Seq(Message)]
      /\ taken \in [Conns -> Nat]
      /\ \A t \in Conns : Buffered(t) \in 0..notificationBuffer
  BY DEF TypeInv, TypeOK
<1>3. CASE ForwardedTo(s)
  <2>1. fate' \in [Calls -> [Conns -> Fate]]
    BY <1>2, <1>3 DEF ForwardedTo, Fate
  <2>2. inbox' \in [Conns -> Seq(Message)]
    BY <1>1, <1>2, <1>3 DEF ForwardedTo, Enqueue
  <2>3. \A t \in Conns : Len(inbox'[t]) = IF t = s THEN Len(inbox[t]) + 1
                                                  ELSE Len(inbox[t])
    BY <1>1, <1>2, <1>3 DEF ForwardedTo, Enqueue
  <2>4. taken' = taken /\ Len(inbox[s]) - taken[s] < notificationBuffer
    BY <1>3 DEF ForwardTo, ForwardedTo, HasRoom, Buffered
  <2>5. \A t \in Conns : Len(inbox'[t]) - taken'[t] \in 0..notificationBuffer
    <3> SUFFICES ASSUME NEW t \in Conns
                 PROVE  Len(inbox'[t]) - taken'[t] \in 0..notificationBuffer
      OBVIOUS
    <3>1. /\ Len(inbox[t]) \in Nat /\ taken[t] \in Nat
          /\ Len(inbox[t]) - taken[t] \in 0..notificationBuffer
      BY <1>2 DEF Buffered
    <3> QED BY <2>3, <2>4, <3>1, BufferAssumption
  <2> QED BY <2>1, <2>2, <2>5 DEF Buffered
<1>4. CASE NotForwardedTo(s)
  <2>1. fate' \in [Calls -> [Conns -> Fate]]
    <3>1. PICK f \in {"failed", "skipped"} : fate' = [fate EXCEPT ![cur][s] = f]
      BY <1>4 DEF NotForwardedTo
    <3> QED BY <1>1, <1>2, <3>1 DEF Fate
  <2> QED BY <1>2, <1>4, <2>1 DEF ForwardTo, NotForwardedTo, Buffered
<1> QED BY <1>3, <1>4, ForwardOutcome

(* The initial state is well typed.                                        *)
LEMMA TypeInit == Init => TypeInv
<1> SUFFICES ASSUME Init PROVE TypeInv
  OBVIOUS
<1>1. \A s \in Conns : Buffered(s) \in 0..notificationBuffer
  BY BufferAssumption DEF Init, Buffered
<1>2. hasAccess \in BOOLEAN
  BY Zenon DEF Init
<1>3. TypeOK
  BY <1>1, <1>2, DelayAssumption
     DEF Init, TypeOK, Phase, LoopAt, Handler, Verdict, Fate, Report
<1>4. DataInv /\ LoopInv
  BY IdentityAssumption DEF Init, DataInv, LoopInv, Busy
<1> QED BY <1>3, <1>4 DEF TypeInv

(* Every step keeps the types, and what a call and a handler know.         *)
LEMMA TypeStep == TypeInv /\ [Next]_vars => TypeInv'
<1> SUFFICES ASSUME TypeInv, [Next]_vars PROVE TypeInv'
  OBVIOUS
<1> USE DelayAssumption, BufferAssumption, IdentityAssumption
<1> USE DEF TypeInv, TypeOK, DataInv, LoopInv, Buffered, Busy, Phase, LoopAt,
            Handler, Verdict, Fate, Report,
            sendVars, loopVars, subVars, chanVars, lockVars, obsVars, orderVars
<1>1. CASE Tick
  BY <1>1 DEF Tick
<1>2. ASSUME NEW c \in Calls, Send(c) PROVE TypeInv'
  <2>1. PICK n \in Inputs : note' = [note EXCEPT ![c] = n]
    BY <1>2 DEF Send
  <2>2. n \in NotificationModel
    BY InputsAssumption
  <2> QED BY <1>2, <2>1, <2>2 DEF Send
<1>3. ASSUME NEW c \in Calls, Wake(c) PROVE TypeInv'
  <2>1. Dated(note[c]) \in NotificationModel
    BY <1>3, DatedType DEF Wake
  <2> QED BY <1>3, <2>1 DEF Wake
<1>4. ASSUME NEW c \in Calls, Receive(c) PROVE TypeInv'
  BY <1>4 DEF Receive, RLock
<1>5. CASE CheckPublication
  BY <1>5 DEF CheckPublication
<1>6. ASSUME NEW answer \in {"allow", "deny", "error"}, EvaluateContentPolicy(answer) PROVE TypeInv'
  BY <1>6 DEF EvaluateContentPolicy, Evaluated
<1>7. ASSUME NEW s \in Conns, ForwardTo(s) PROVE TypeInv'
  <2>1. /\ fate' \in [Calls -> [Conns -> Fate]]
        /\ inbox' \in [Conns -> Seq(Message)]
        /\ \A t \in Conns : Buffered(t)' \in 0..notificationBuffer
    BY <1>7, ForwardType
  <2> QED BY <1>7, <2>1 DEF ForwardTo
<1>8. CASE EndForward
  BY <1>8 DEF EndForward, RUnlock, RangeDone
<1>9. CASE Push
  <2>1. cur \in Calls /\ note[cur] \in NotificationModel
    BY <1>9 DEF Push
  <2>2. history' \in Seq(NotificationModel)
    BY <1>9, <2>1, PushedType DEF Push
  <2> QED BY <1>9, <2>1, <2>2 DEF Push
<1>10. CASE Stop
  BY <1>10 DEF Stop
<1>11. CASE StopLoop
  BY <1>11 DEF StopLoop, StopTaken
<1>12. ASSUME NEW s \in Conns, Subscribe(s) PROVE TypeInv'
  <2>1. CASE /\ handler' = [handler EXCEPT ![s] = "failed"]
             /\ UNCHANGED sub
    BY <1>12, <2>1 DEF Subscribe
  <2>2. CASE \E q \in Requests : /\ sub' = [sub EXCEPT ![s] = q]
                                /\ handler' = [handler EXCEPT ![s] = "adding"]
    <3>1. PICK q \in Requests : /\ sub' = [sub EXCEPT ![s] = q]
                                /\ handler' = [handler EXCEPT ![s] = "adding"]
      BY <2>2
    <3>2. q \in Subscriber
      BY RequestsAssumption
    <3> QED BY <1>12, <3>1, <3>2 DEF Subscribe
  <2> QED BY <1>12, <2>1, <2>2 DEF Subscribe
<1>13. ASSUME NEW s \in Conns, Lock(s) PROVE TypeInv'
  BY <1>13 DEF Lock
<1>14. ASSUME NEW s \in Conns, addSubscriber(s) PROVE TypeInv'
  BY <1>14 DEF addSubscriber, Unlock, Locked
<1>15. ASSUME NEW s \in Conns, TakeNotification(s) PROVE TypeInv'
  BY <1>15 DEF TakeNotification
<1>16. ASSUME NEW s \in Conns, EndStream(s) PROVE TypeInv'
  BY <1>16 DEF EndStream
<1>17. ASSUME NEW s \in Conns, Unsubscribe(s) PROVE TypeInv'
  BY <1>17 DEF Unsubscribe, Unlock, Locked
<1>18. ASSUME NEW r \in Pollers, Poll(r) PROVE TypeInv'
  BY <1>18 DEF Poll, RLock
<1>19. ASSUME NEW r \in Pollers, PollReturns(r) PROVE TypeInv'
  BY <1>19 DEF PollReturns, RUnlock
<1>20. CASE UNCHANGED vars
  BY <1>20 DEF vars
<1> QED
  BY <1>1, <1>2, <1>3, <1>4, <1>5, <1>6, <1>7, <1>8, <1>9, <1>10, <1>11, <1>12, <1>13, <1>14, <1>15, <1>16, <1>17, <1>18, <1>19, <1>20 DEF Next

(* Every reachable state of the dispatcher is well typed; in particular no *)
(* channel ever holds more than notificationBuffer messages.               *)
THEOREM TypeCorrect == Spec => []TypeOK
<1>1. Spec => []TypeInv
  BY TypeInit, TypeStep, PTL DEF Spec
<1>2. TypeInv => TypeOK
  BY DEF TypeInv
<1> QED BY <1>1, <1>2, PTL

----------------------------------------------------------------------------
(* The lock.                                                               *)

(* Nobody has the lock at first.                                           *)
LEMMA LockInit == Init => LockInv
BY DEF Init, LockInv, Forwarding

(* Every step keeps the loop a reader for as long as it forwards.          *)
LEMMA LockStep == TypeInv /\ LockInv /\ [Next]_vars => LockInv'
<1> SUFFICES ASSUME TypeInv, LockInv, [Next]_vars PROVE LockInv'
  OBVIOUS
<1> USE IdentityAssumption
<1> USE DEF LockInv, Forwarding, sendVars, loopVars, subVars, chanVars, lockVars,
            obsVars, orderVars
<1>1. CASE Tick
  BY <1>1 DEF Tick
<1>2. ASSUME NEW c \in Calls, Send(c) PROVE LockInv'
  BY <1>2 DEF Send
<1>3. ASSUME NEW c \in Calls, Wake(c) PROVE LockInv'
  BY <1>3 DEF Wake
<1>4. ASSUME NEW c \in Calls, Receive(c) PROVE LockInv'
  BY <1>4 DEF Receive, RLock
<1>5. CASE CheckPublication
  BY <1>5 DEF CheckPublication
<1>6. ASSUME NEW answer \in {"allow", "deny", "error"}, EvaluateContentPolicy(answer) PROVE LockInv'
  BY <1>6 DEF EvaluateContentPolicy, Evaluated
<1>7. ASSUME NEW s \in Conns, ForwardTo(s) PROVE LockInv'
  BY <1>7 DEF ForwardTo
<1>8. CASE EndForward
  BY <1>8 DEF EndForward, RUnlock, RangeDone
<1>9. CASE Push
  BY <1>9 DEF Push
<1>10. CASE Stop
  BY <1>10 DEF Stop
<1>11. CASE StopLoop
  BY <1>11 DEF StopLoop, StopTaken
<1>12. ASSUME NEW s \in Conns, Subscribe(s) PROVE LockInv'
  BY <1>12 DEF Subscribe
<1>13. ASSUME NEW s \in Conns, Lock(s) PROVE LockInv'
  BY <1>13 DEF Lock
<1>14. ASSUME NEW s \in Conns, addSubscriber(s) PROVE LockInv'
  BY <1>14 DEF addSubscriber, Unlock, Locked
<1>15. ASSUME NEW s \in Conns, TakeNotification(s) PROVE LockInv'
  BY <1>15 DEF TakeNotification
<1>16. ASSUME NEW s \in Conns, EndStream(s) PROVE LockInv'
  BY <1>16 DEF EndStream
<1>17. ASSUME NEW s \in Conns, Unsubscribe(s) PROVE LockInv'
  BY <1>17 DEF Unsubscribe, Unlock, Locked
<1>18. ASSUME NEW r \in Pollers, Poll(r) PROVE LockInv'
  BY <1>18 DEF Poll, RLock
<1>19. ASSUME NEW r \in Pollers, PollReturns(r) PROVE LockInv'
  BY <1>19 DEF PollReturns, RUnlock
<1>20. CASE UNCHANGED vars
  BY <1>20 DEF vars
<1> QED
  BY <1>1, <1>2, <1>3, <1>4, <1>5, <1>6, <1>7, <1>8, <1>9, <1>10, <1>11,
     <1>12, <1>13, <1>14, <1>15, <1>16, <1>17, <1>18, <1>19, <1>20 DEF Next

(* The subscribers do not change while the loop forwards: the writers of   *)
(* the map wait for the readers of the lock, and the loop is one.          *)
LEMMA AudienceStep ==
  LockInv /\ [Next]_vars => [Forwarding => subscribers' = subscribers]_vars
<1> SUFFICES ASSUME LockInv, Next, Forwarding PROVE subscribers' = subscribers
  BY DEF vars
<1>1. Loop \in readers
  BY DEF LockInv
<1>2. ASSUME NEW s \in Conns PROVE ~addSubscriber(s) /\ ~Unsubscribe(s)
  BY <1>1 DEF addSubscriber, Unsubscribe, Locked
<1> QED
  BY <1>2 DEF Next, Tick, Send, Wake, Receive, CheckPublication,
     EvaluateContentPolicy, ForwardTo, EndForward, Push, Stop, StopLoop, Subscribe,
     Lock, TakeNotification, EndStream, Poll, PollReturns, subVars

(* forwardToSubscribers sees one set of subscribers from beginning to end. *)
THEOREM AudienceFixed == Spec => AudienceIsFixed
<1>1. Spec => [](TypeInv /\ LockInv)
  BY TypeInit, TypeStep, LockInit, LockStep, PTL DEF Spec
<1> QED BY <1>1, AudienceStep, PTL DEF Spec, AudienceIsFixed

(* Only the loop writes to a channel, and only to registered subscribers.  *)
LEMMA SilentStep ==
  TypeInv /\ [Next]_vars =>
    [\A s \in Conns : handler[s] = "gone" => inbox'[s] = inbox[s]]_vars
<1> SUFFICES ASSUME TypeInv, Next, NEW s \in Conns, handler[s] = "gone"
             PROVE  inbox'[s] = inbox[s]
  BY DEF vars
<1>1. s \notin subscribers /\ inbox \in [Conns -> Seq(Message)]
  BY DEF TypeInv, TypeOK, DataInv
<1>2. ASSUME NEW t \in Conns, ForwardTo(t) PROVE inbox'[s] = inbox[s]
  <2>1. t # s
    BY <1>1, <1>2 DEF ForwardTo
  <2> QED
    BY <1>1, <1>2, <2>1, ForwardOutcome DEF ForwardedTo, NotForwardedTo, Enqueue
<1> QED
  BY <1>2 DEF Next, Tick, Send, Wake, Receive, CheckPublication,
     EvaluateContentPolicy, EndForward, Push, Stop, StopLoop, Subscribe, Lock,
     addSubscriber, TakeNotification, EndStream, Unsubscribe, Poll, PollReturns,
     chanVars

(* After Unsubscribe has returned nothing more is put on the channel.      *)
THEOREM SilentWhenGone == Spec => SilentAfterUnsubscribe
<1>1. Spec => []TypeInv
  BY TypeInit, TypeStep, PTL DEF Spec
<1> QED BY <1>1, SilentStep, PTL DEF Spec, SilentAfterUnsubscribe

----------------------------------------------------------------------------
(* Rounds and fates.                                                       *)

(* No round has begun.                                                     *)
LEMMA RoundInit == Init => RoundInv
BY DEF Init, RoundInv

(* Every step keeps the numbering of the rounds.                           *)
LEMMA RoundStep == TypeInv /\ RoundInv /\ [Next]_vars => RoundInv'
<1> SUFFICES ASSUME TypeInv, RoundInv, [Next]_vars PROVE RoundInv'
  OBVIOUS
<1> USE IdentityAssumption
<1> USE DEF RoundInv, TypeInv, TypeOK, LoopInv, Busy, sendVars, loopVars, subVars,
            chanVars, lockVars, obsVars, orderVars
<1>1. CASE Tick
  BY <1>1 DEF Tick
<1>2. ASSUME NEW c \in Calls, Send(c) PROVE RoundInv'
  BY <1>2 DEF Send
<1>3. ASSUME NEW c \in Calls, Wake(c) PROVE RoundInv'
  BY <1>3 DEF Wake
<1>4. ASSUME NEW c \in Calls, Receive(c) PROVE RoundInv'
  BY <1>4 DEF Receive, RLock
<1>5. CASE CheckPublication
  BY <1>5 DEF CheckPublication
<1>6. ASSUME NEW answer \in {"allow", "deny", "error"}, EvaluateContentPolicy(answer) PROVE RoundInv'
  BY <1>6 DEF EvaluateContentPolicy, Evaluated
<1>7. ASSUME NEW s \in Conns, ForwardTo(s) PROVE RoundInv'
  BY <1>7 DEF ForwardTo
<1>8. CASE EndForward
  BY <1>8 DEF EndForward, RUnlock, RangeDone
<1>9. CASE Push
  BY <1>9 DEF Push
<1>10. CASE Stop
  BY <1>10 DEF Stop
<1>11. CASE StopLoop
  BY <1>11 DEF StopLoop, StopTaken
<1>12. ASSUME NEW s \in Conns, Subscribe(s) PROVE RoundInv'
  BY <1>12 DEF Subscribe
<1>13. ASSUME NEW s \in Conns, Lock(s) PROVE RoundInv'
  BY <1>13 DEF Lock
<1>14. ASSUME NEW s \in Conns, addSubscriber(s) PROVE RoundInv'
  BY <1>14 DEF addSubscriber, Unlock, Locked
<1>15. ASSUME NEW s \in Conns, TakeNotification(s) PROVE RoundInv'
  BY <1>15 DEF TakeNotification
<1>16. ASSUME NEW s \in Conns, EndStream(s) PROVE RoundInv'
  BY <1>16 DEF EndStream
<1>17. ASSUME NEW s \in Conns, Unsubscribe(s) PROVE RoundInv'
  BY <1>17 DEF Unsubscribe, Unlock, Locked
<1>18. ASSUME NEW r \in Pollers, Poll(r) PROVE RoundInv'
  BY <1>18 DEF Poll, RLock
<1>19. ASSUME NEW r \in Pollers, PollReturns(r) PROVE RoundInv'
  BY <1>19 DEF PollReturns, RUnlock
<1>20. CASE UNCHANGED vars
  BY <1>20 DEF vars
<1> QED
  BY <1>1, <1>2, <1>3, <1>4, <1>5, <1>6, <1>7, <1>8, <1>9, <1>10, <1>11,
     <1>12, <1>13, <1>14, <1>15, <1>16, <1>17, <1>18, <1>19, <1>20 DEF Next

(* Nothing has been forwarded.                                             *)
LEMMA FateInit == Init => FateInv
BY DEF Init, FateInv, Forwarding

(* Every step keeps what the fates and the verdict say of the loop.        *)
LEMMA FateStep ==
  TypeInv /\ LockInv /\ RoundInv /\ FateInv /\ [Next]_vars => FateInv'
<1> SUFFICES ASSUME TypeInv, LockInv, RoundInv, FateInv, [Next]_vars PROVE FateInv'
  OBVIOUS
<1> USE IdentityAssumption
<1> USE DEF FateInv, TypeInv, TypeOK, LoopInv, Busy, Forwarding,
            sendVars, loopVars, subVars, chanVars, lockVars, obsVars, orderVars
<1>1. CASE Tick
  BY <1>1 DEF Tick
<1>2. ASSUME NEW c \in Calls, Send(c) PROVE FateInv'
  BY <1>2 DEF Send
<1>3. ASSUME NEW c \in Calls, Wake(c) PROVE FateInv'
  BY <1>3 DEF Wake
<1>4. ASSUME NEW c \in Calls, Receive(c) PROVE FateInv'
  BY <1>4 DEF Receive, RLock, RoundInv
<1>5. CASE CheckPublication
  BY <1>5 DEF CheckPublication
<1>6. ASSUME NEW answer \in {"allow", "deny", "error"}, EvaluateContentPolicy(answer) PROVE FateInv'
  BY <1>6 DEF EvaluateContentPolicy, Evaluated
<1>7. ASSUME NEW s \in Conns, ForwardTo(s) PROVE FateInv'
  <2>1. cur \in Calls /\ turn[cur] # 0
    BY <1>7 DEF ForwardTo, RoundInv
  <2>2. PICK f \in {"sent", "failed", "skipped"} :
          fate' = [fate EXCEPT ![cur][s] = f]
    BY <1>7, ForwardOutcome DEF ForwardedTo, NotForwardedTo
  <2>3. /\ \A c \in Calls, t \in Conns :
              fate'[c][t] = IF c = cur /\ t = s THEN f ELSE fate[c][t]
        /\ s \in subscribers
    BY <1>7, <2>1, <2>2 DEF ForwardTo
  <2>4. loop' = "range" /\ UNCHANGED <<phase, turn, report, cur, audience,
                                         subscribers, verdict, hasAccess>>
    BY <1>7 DEF ForwardTo
  <2>5. /\ \A c \in Calls, t \in Conns : turn[c] = 0 => fate[c][t] = "none"
        /\ \A t \in Conns : fate[cur][t] # "none" => t \in subscribers
    BY <1>7 DEF ForwardTo
  <2>6. /\ \A c \in Calls, t \in Conns : turn'[c] = 0 => fate'[c][t] = "none"
        /\ \A t \in Conns : fate'[cur'][t] # "none" => t \in subscribers'
    <3> HIDE DEF FateInv, TypeInv, TypeOK, LoopInv
    <3> QED BY <2>1, <2>3, <2>4, <2>5
  <2> QED BY <1>7, <2>4, <2>6 DEF ForwardTo
<1>8. CASE EndForward
  BY <1>8 DEF EndForward, RUnlock, RangeDone
<1>9. CASE Push
  BY <1>9 DEF Push
<1>10. CASE Stop
  BY <1>10 DEF Stop
<1>11. CASE StopLoop
  BY <1>11 DEF StopLoop, StopTaken
<1>12. ASSUME NEW s \in Conns, Subscribe(s) PROVE FateInv'
  BY <1>12 DEF Subscribe
<1>13. ASSUME NEW s \in Conns, Lock(s) PROVE FateInv'
  BY <1>13 DEF Lock
<1>14. ASSUME NEW s \in Conns, addSubscriber(s) PROVE FateInv'
  BY <1>14 DEF addSubscriber, Unlock, Locked, LockInv
<1>15. ASSUME NEW s \in Conns, TakeNotification(s) PROVE FateInv'
  BY <1>15 DEF TakeNotification
<1>16. ASSUME NEW s \in Conns, EndStream(s) PROVE FateInv'
  BY <1>16 DEF EndStream
<1>17. ASSUME NEW s \in Conns, Unsubscribe(s) PROVE FateInv'
  BY <1>17 DEF Unsubscribe, Unlock, Locked, LockInv
<1>18. ASSUME NEW r \in Pollers, Poll(r) PROVE FateInv'
  BY <1>18 DEF Poll, RLock
<1>19. ASSUME NEW r \in Pollers, PollReturns(r) PROVE FateInv'
  BY <1>19 DEF PollReturns, RUnlock
<1>20. CASE UNCHANGED vars
  BY <1>20 DEF vars
<1> QED
  BY <1>1, <1>2, <1>3, <1>4, <1>5, <1>6, <1>7, <1>8, <1>9, <1>10, <1>11,
     <1>12, <1>13, <1>14, <1>15, <1>16, <1>17, <1>18, <1>19, <1>20 DEF Next

----------------------------------------------------------------------------
(* What is on the channels.                                                *)

(* The messages of a channel after a turn of the loop.                     *)
LEMMA ForwardInbox ==
  ASSUME TypeInv, NEW s \in Conns, ForwardTo(s), ForwardedTo(s), NEW t \in Conns
  PROVE  /\ Len(inbox[t]) \in Nat
         /\ DOMAIN inbox[t] = 1..Len(inbox[t])
         /\ t # s => inbox'[t] = inbox[t]
         /\ t = s => /\ DOMAIN inbox'[t] = 1..(Len(inbox[t]) + 1)
                     /\ \A i \in 1..Len(inbox[t]) : inbox'[t][i] = inbox[t][i]
                     /\ inbox'[t][Len(inbox[t]) + 1].call = cur
<1>1. MessageFor(s) \in Message /\ MessageFor(s).call = cur
  BY ForwardedIsMessage DEF MessageFor
<1>2. inbox \in [Conns -> Seq(Message)]
  BY DEF TypeInv, TypeOK
<1>3. inbox' = [inbox EXCEPT ![s] = Append(inbox[s], MessageFor(s))]
  BY DEF ForwardedTo, Enqueue
<1> QED BY <1>1, <1>2, <1>3

(* The fates after a turn of the loop.                                     *)
LEMMA ForwardFate ==
  ASSUME TypeInv, NEW s \in Conns, ForwardTo(s)
  PROVE  \E f \in {"sent", "failed", "skipped"} :
           /\ f = "sent" <=> ForwardedTo(s)
           /\ \A c \in Calls, t \in Conns :
                fate'[c][t] = IF c = cur /\ t = s THEN f ELSE fate[c][t]
<1>1. cur \in Calls /\ fate \in [Calls -> [Conns -> Fate]]
  BY ForwardedIsMessage DEF TypeInv, TypeOK
<1>2. CASE ForwardedTo(s)
  <2>1. \A c \in Calls, t \in Conns :
           fate'[c][t] = IF c = cur /\ t = s THEN "sent" ELSE fate[c][t]
    BY <1>1, <1>2 DEF ForwardedTo
  <2> QED BY <1>2, <2>1
<1>3. CASE NotForwardedTo(s)
  <2>1. PICK f \in {"failed", "skipped"} : fate' = [fate EXCEPT ![cur][s] = f]
    BY <1>3 DEF NotForwardedTo
  <2>2. \A c \in Calls, t \in Conns :
           fate'[c][t] = IF c = cur /\ t = s THEN f ELSE fate[c][t]
    BY <1>1, <2>1
  <2>3. ~ForwardedTo(s)
    <3>1. fate'[cur][s] = f
      BY <1>1, <2>2
    <3> QED BY <1>1, <3>1 DEF ForwardedTo
  <2> QED BY <2>2, <2>3
<1> QED BY <1>2, <1>3, ForwardOutcome

(* Every step keeps channels and fates in agreement.                       *)
LEMMA SentStep == TypeInv /\ SentIsEnqueued /\ [Next]_vars => SentIsEnqueued'
<1> SUFFICES ASSUME TypeInv, SentIsEnqueued, [Next]_vars PROVE SentIsEnqueued'
  OBVIOUS
<1>1. ASSUME NEW s \in Conns, ForwardTo(s) PROVE SentIsEnqueued'
  <2>1. PICK f \in {"sent", "failed", "skipped"} :
           /\ f = "sent" <=> ForwardedTo(s)
           /\ \A c \in Calls, t \in Conns :
                fate'[c][t] = IF c = cur /\ t = s THEN f ELSE fate[c][t]
    BY <1>1, ForwardFate
  <2>2. fate[cur][s] = "none"
    BY <1>1 DEF ForwardTo
  <2>3. CASE ForwardedTo(s)
    <3> SUFFICES ASSUME NEW c \in Calls, NEW t \in Conns
                 PROVE  fate'[c][t] = "sent" <=>
                          \E i \in DOMAIN inbox'[t] : inbox'[t][i].call = c
      BY DEF SentIsEnqueued
    <3>1. fate[c][t] = "sent" <=> \E i \in DOMAIN inbox[t] : inbox[t][i].call = c
      BY DEF SentIsEnqueued
    <3>2. CASE t = s
      BY <1>1, <2>1, <2>3, <3>1, <3>2, ForwardInbox
    <3>3. CASE t # s
      BY <1>1, <2>1, <2>3, <3>1, <3>3, ForwardInbox
    <3> QED BY <3>2, <3>3
  <2>4. CASE NotForwardedTo(s) /\ ~ForwardedTo(s)
    BY <2>1, <2>2, <2>4 DEF SentIsEnqueued, NotForwardedTo
  <2> QED BY <1>1, <2>3, <2>4, ForwardOutcome
<1>2. CASE UNCHANGED <<inbox, fate>>
  BY <1>2 DEF SentIsEnqueued
<1> QED
  BY <1>1, <1>2 DEF Next, Tick, Send, Wake, Receive, CheckPublication,
     EvaluateContentPolicy, EndForward, Push, Stop, StopLoop, Subscribe, Lock,
     addSubscriber, TakeNotification, EndStream, Unsubscribe, Poll, PollReturns,
     chanVars, obsVars, vars

(* Every step keeps the channels in the order of the rounds.               *)
LEMMA OrderStep ==
  TypeInv /\ RoundInv /\ SentIsEnqueued /\ FateInv /\ SameOrder /\ [Next]_vars
    => SameOrder'
<1> SUFFICES ASSUME TypeInv, RoundInv, SentIsEnqueued, FateInv, SameOrder,
                    [Next]_vars
             PROVE  SameOrder'
  OBVIOUS
<1>t. \A t \in Conns : \A i \in DOMAIN inbox[t] : inbox[t][i].call \in Calls
  <2> SUFFICES ASSUME NEW t \in Conns, NEW i \in DOMAIN inbox[t]
               PROVE  inbox[t][i].call \in Calls
    OBVIOUS
  <2>1. inbox[t] \in Seq(Message)
    BY DEF TypeInv, TypeOK
  <2>2. inbox[t][i] \in Message
    BY <2>1
  <2> QED BY <2>2 DEF Message
<1>1. ASSUME NEW s \in Conns, ForwardTo(s), ForwardedTo(s) PROVE SameOrder'
  <2> SUFFICES ASSUME NEW t \in Conns, NEW i \in DOMAIN inbox'[t],
                      NEW j \in DOMAIN inbox'[t], i < j
               PROVE  turn'[inbox'[t][i].call] < turn'[inbox'[t][j].call]
    BY DEF SameOrder
  <2>1. turn' = turn /\ fate[cur][s] = "none" /\ cur \in Calls /\ cur # Nil
    BY <1>1, ForwardedIsMessage, IdentityAssumption DEF ForwardTo, orderVars
  <2>2. CASE t # s
    BY <1>1, <2>1, <2>2, ForwardInbox DEF SameOrder
  <2>3. CASE t = s /\ j # Len(inbox[s]) + 1
    <3>1. /\ i \in DOMAIN inbox[s] /\ inbox'[s][i] = inbox[s][i]
          /\ j \in DOMAIN inbox[s] /\ inbox'[s][j] = inbox[s][j]
      BY <1>1, <2>3, ForwardInbox
    <3>2. turn[inbox[s][i].call] < turn[inbox[s][j].call]
      BY <3>1 DEF SameOrder
    <3> QED BY <2>1, <2>3, <3>1, <3>2
  <2>4. CASE t = s /\ j = Len(inbox[s]) + 1
    <3>1. i \in DOMAIN inbox[s] /\ inbox'[s][i] = inbox[s][i] /\ inbox'[s][j].call = cur
      BY <1>1, <2>4, ForwardInbox
    <3>2. inbox[s][i].call \in Calls /\ inbox[s][i].call # cur
      BY <1>t, <2>1, <3>1 DEF SentIsEnqueued
    <3>3. turn[inbox[s][i].call] < turn[cur]
      BY <2>1, <3>2 DEF RoundInv
    <3> QED BY <2>1, <2>4, <3>1, <3>3
  <2> QED BY <2>2, <2>3, <2>4
<1>2. ASSUME NEW c \in Calls, Receive(c) PROVE SameOrder'
  <2>1. inbox' = inbox /\ turn[c] = 0 /\ turn' = [turn EXCEPT ![c] = round + 1]
    BY <1>2 DEF Receive, RoundInv, chanVars
  <2>2. \A t \in Conns : \A i \in DOMAIN inbox[t] : inbox[t][i].call # c
    BY <2>1 DEF FateInv, SentIsEnqueued
  <2>3. \A d \in Calls : d # c => turn'[d] = turn[d]
    BY <2>1 DEF TypeInv, TypeOK
  <2> QED BY <1>t, <2>1, <2>2, <2>3 DEF SameOrder
<1>3. CASE UNCHANGED <<inbox, turn>>
  BY <1>3 DEF SameOrder
<1>4. ASSUME NEW s \in Conns, ForwardTo(s), ~ForwardedTo(s) PROVE SameOrder'
  BY <1>3, <1>4, ForwardOutcome DEF NotForwardedTo, ForwardTo, orderVars
<1> QED
  BY <1>1, <1>2, <1>3, <1>4 DEF Next, Tick, Send, Wake, CheckPublication,
     EvaluateContentPolicy, EndForward, Push, Stop, StopLoop, Subscribe, Lock,
     addSubscriber, TakeNotification, EndStream, Unsubscribe, Poll, PollReturns,
     chanVars, orderVars, vars

----------------------------------------------------------------------------
(* Who is served.                                                          *)

(* Every step keeps the account of who had a turn.                         *)
LEMMA OverlookedStep ==
  TypeInv /\ FateInv /\ RoundInv /\ NobodyOverlooked /\ [Next]_vars => NobodyOverlooked'
<1> SUFFICES ASSUME TypeInv, FateInv, RoundInv, NobodyOverlooked, [Next]_vars,
                    NEW c \in Calls, report'[c] # "none"
             PROVE  {s \in Conns : fate'[c][s] # "none"} =
                      IF verdict'[c] = "error" THEN {} ELSE audience'[c]
  BY DEF NobodyOverlooked
<1>t. /\ fate \in [Calls -> [Conns -> Fate]] /\ report \in [Calls -> Report]
      /\ audience \in [Calls -> SUBSET Conns] /\ verdict \in [Calls -> Verdict]
      /\ subscribers \subseteq Conns
  BY DEF TypeInv, TypeOK
<1>1. CASE EndForward
  <2>1. cur \in Calls /\ UNCHANGED <<fate, verdict, audience>>
    BY <1>1 DEF EndForward, TypeInv, LoopInv, RangeDone, Busy
  <2>2. CASE c # cur
    BY <1>1, <1>t, <2>1, <2>2 DEF EndForward, NobodyOverlooked
  <2>3. CASE c = cur /\ loop = "return"
    BY <2>1, <2>3 DEF FateInv
  <2>4. CASE c = cur /\ RangeDone
    <3>1. /\ audience[c] = subscribers /\ verdict[c] # "error"
          /\ \A s \in Conns : fate[c][s] # "none" <=> s \in subscribers
      BY <2>4 DEF FateInv, RangeDone, Forwarding
    <3> QED BY <1>t, <2>1, <3>1
  <2> QED BY <1>1, <2>2, <2>3, <2>4 DEF EndForward
<1>2. CASE CheckPublication
  <2>1. report' = report /\ loop = "locked" /\ fate' = fate
    BY <1>2 DEF CheckPublication
  <2>2. c # cur
    BY <2>1 DEF FateInv, TypeInv, LoopInv
  <2> QED BY <1>2, <1>t, <2>1, <2>2 DEF CheckPublication, NobodyOverlooked
<1>3. ASSUME NEW answer \in {"allow", "deny", "error"}, EvaluateContentPolicy(answer)
      PROVE  {s \in Conns : fate'[c][s] # "none"} =
               IF verdict'[c] = "error" THEN {} ELSE audience'[c]
  <2>1. report' = report /\ loop = "policy" /\ fate' = fate /\ audience' = audience
    BY <1>3 DEF EvaluateContentPolicy
  <2>2. c # cur
    BY <2>1 DEF FateInv, TypeInv, LoopInv
  <2> QED BY <1>3, <1>t, <2>1, <2>2 DEF EvaluateContentPolicy, NobodyOverlooked
<1>4. ASSUME NEW s \in Conns, ForwardTo(s)
      PROVE  {t \in Conns : fate'[c][t] # "none"} =
               IF verdict'[c] = "error" THEN {} ELSE audience'[c]
  <2>1. report' = report /\ loop = "range" /\ UNCHANGED <<audience, verdict>>
    BY <1>4 DEF ForwardTo
  <2>2. c # cur
    BY <2>1 DEF FateInv, TypeInv, LoopInv
  <2>3. \A t \in Conns : fate'[c][t] = fate[c][t]
    BY <1>4, <2>2, ForwardFate
  <2> QED BY <2>1, <2>3 DEF NobodyOverlooked
<1>5. CASE UNCHANGED <<fate, report, audience, verdict>>
  BY <1>5 DEF NobodyOverlooked
<1> QED
  BY <1>1, <1>2, <1>3, <1>4, <1>5
     DEF Next, Tick, Send, Wake, Receive, Push, Stop, StopLoop, Subscribe, Lock,
         addSubscriber, TakeNotification, EndStream, Unsubscribe, Poll, PollReturns,
         obsVars, vars

(* Every step keeps a fate with those who are or were registered.          *)
LEMMA ServedStep == TypeInv /\ ServedInv /\ [Next]_vars => ServedInv'
<1> SUFFICES ASSUME TypeInv, ServedInv, [Next]_vars,
                    NEW c \in Calls, NEW s \in Conns, fate'[c][s] # "none"
             PROVE  handler'[s] \in {"active", "removing", "gone"}
  BY DEF ServedInv
<1>1. handler \in [Conns -> Handler]
  BY DEF TypeInv, TypeOK
<1>2. ASSUME NEW t \in Conns, ForwardTo(t)
      PROVE  handler'[s] \in {"active", "removing", "gone"}
  <2>1. handler' = handler /\ handler[t] \in {"active", "removing"}
    BY <1>2 DEF ForwardTo, TypeInv, DataInv, subVars
  <2>2. s = t \/ fate'[c][s] = fate[c][s]
    BY <1>2, ForwardFate
  <2> QED BY <2>1, <2>2 DEF ServedInv
<1>3. CASE fate' = fate /\ [\E t \in Conns : \/ Subscribe(t) \/ addSubscriber(t)
                                             \/ EndStream(t) \/ Unsubscribe(t)]_handler
  <2>1. handler[s] \in {"active", "removing", "gone"}
    BY <1>3 DEF ServedInv
  <2> QED BY <1>1, <1>3, <2>1 DEF Subscribe, addSubscriber, EndStream, Unsubscribe
<1> QED
  BY <1>2, <1>3 DEF Next, Tick, Send, Wake, Receive, CheckPublication,
     EvaluateContentPolicy, EndForward, Push, Stop, StopLoop, Subscribe, Lock,
     addSubscriber, TakeNotification, EndStream, Unsubscribe, Poll, PollReturns,
     subVars, obsVars, vars

(* Every step keeps the date of what was offered.                          *)
LEMMA DateStep == TypeInv /\ DateInv /\ [Next]_vars => DateInv'
<1> SUFFICES ASSUME TypeInv, DateInv, [Next]_vars PROVE DateInv'
  OBVIOUS
<1>t. note \in [Calls -> {Nil} \cup NotificationModel] /\ phase \in [Calls -> Phase]
  BY DEF TypeInv, TypeOK
<1>1. ASSUME NEW c \in Calls, Wake(c) PROVE DateInv'
  <2>1. note[c] \in NotificationModel
    BY <1>1 DEF Wake, TypeInv, DataInv
  <2>2. Dated(note[c]).NotificationDate = "now"
    BY <2>1 DEF Dated, NotificationModel
  <2> QED BY <1>1, <1>t, <2>2 DEF Wake, DateInv
<1>2. ASSUME NEW c \in Calls, Send(c) PROVE DateInv'
  BY <1>2, <1>t DEF Send, DateInv
<1>3. ASSUME NEW c \in Calls, Receive(c) PROVE DateInv'
  BY <1>3, <1>t DEF Receive, DateInv
<1>4. CASE Push
  BY <1>4, <1>t DEF Push, DateInv, TypeInv, LoopInv, Busy
<1>5. CASE UNCHANGED <<note, phase>>
  BY <1>5 DEF DateInv
<1> QED
  BY <1>1, <1>2, <1>3, <1>4, <1>5
     DEF Next, Tick, CheckPublication, EvaluateContentPolicy, ForwardTo, EndForward,
         Stop, StopLoop, Subscribe, Lock, addSubscriber, TakeNotification, EndStream,
         Unsubscribe, Poll, PollReturns, sendVars, vars

----------------------------------------------------------------------------
(* What they are served.                                                   *)

(* Once a subscriber has a fate for a call, the data it rests on is fixed. *)
LEMMA Stability ==
  ASSUME TypeInv, RoundInv, FateInv, ServedInv, [Next]_vars,
         NEW c \in Calls, NEW s \in Conns, fate[c][s] # "none"
  PROVE  note'[c] = note[c] /\ sub'[s] = sub[s] /\ verdict'[c] = verdict[c]
<1>t. /\ note \in [Calls -> {Nil} \cup NotificationModel]
      /\ sub \in [Conns -> {Nil} \cup Subscriber]
      /\ verdict \in [Calls -> Verdict]
  BY DEF TypeInv, TypeOK
<1>1. /\ phase[c] \notin {"unsent", "sleeping", "sending"}
      /\ handler[s] # "new"
      /\ c = cur => loop \notin {"locked", "policy"}
  BY DEF RoundInv, FateInv, ServedInv
<1>2. note'[c] = note[c]
  BY <1>t, <1>1
     DEF Next, Tick, Send, Wake, Receive, CheckPublication, EvaluateContentPolicy,
         ForwardTo, EndForward, Push, Stop, StopLoop, Subscribe, Lock,
         addSubscriber, TakeNotification, EndStream, Unsubscribe, Poll, PollReturns,
         sendVars, vars
<1>3. sub'[s] = sub[s]
  BY <1>t, <1>1
     DEF Next, Tick, Send, Wake, Receive, CheckPublication, EvaluateContentPolicy,
         ForwardTo, EndForward, Push, Stop, StopLoop, Subscribe, Lock,
         addSubscriber, TakeNotification, EndStream, Unsubscribe, Poll, PollReturns,
         subVars, vars
<1>4. verdict'[c] = verdict[c]
  BY <1>t, <1>1
     DEF Next, Tick, Send, Wake, Receive, CheckPublication, EvaluateContentPolicy,
         ForwardTo, EndForward, Push, Stop, StopLoop, Subscribe, Lock,
         addSubscriber, TakeNotification, EndStream, Unsubscribe, Poll, PollReturns,
         obsVars, vars
<1> QED BY <1>2, <1>3, <1>4

(* The conditions of the loop are those of the contract.                   *)
LEMMA SkippedIsNotEntitled ==
  ASSUME TypeInv, FateInv, loop = "range", NEW s \in subscribers
  PROVE  Skipped(note[cur], hasAccess, sub[s]) <=> ~Entitled(cur, s)
<1>1. /\ note[cur] \in NotificationModel /\ sub[s] \in Subscriber
      /\ verdict[cur] \in {"allow", "deny"}
      /\ hasAccess <=> verdict[cur] = "allow"
  BY DEF TypeInv, TypeOK, DataInv, LoopInv, Busy, FateInv
<1>2. /\ note[cur].SubscriptionType \in TypeName
      /\ note[cur].IsE2ETest \in BOOLEAN
      /\ sub[s].monitoring \in BOOLEAN
      /\ sub[s].acceptedTypes \subseteq TypeName
      /\ sub[s].subscriberOptions.ReceiveInternalUnstable \in BOOLEAN
  BY <1>1 DEF NotificationModel, Subscriber, NotificationSubscriptionOptions
<1>3. matchesSubType(note[cur], sub[s]) <=>
        \/ note[cur].Type = ContentDeleteType /\ note[cur].SubscriptionType = ""
        \/ \E t \in sub[s].acceptedTypes :
             ToLower[t] = ToLower[note[cur].SubscriptionType]
  BY <1>2, ToLowerAssumption DEF matchesSubType
<1> QED BY <1>1, <1>2, <1>3 DEF Skipped, Entitled

(* Every step keeps the contract.                                          *)
LEMMA DeliveryStep ==
  TypeInv /\ RoundInv /\ FateInv /\ ServedInv /\ DeliveryContract /\ [Next]_vars
    => DeliveryContract'
<1> SUFFICES ASSUME TypeInv, RoundInv, FateInv, ServedInv, DeliveryContract,
                    [Next]_vars, NEW c \in Calls, NEW s \in Conns
             PROVE  /\ fate'[c][s] \in {"sent", "failed"} => Entitled(c, s)'
                    /\ fate'[c][s] = "skipped" => ~Entitled(c, s)'
  BY DEF DeliveryContract
<1>1. fate[c][s] # "none" => Entitled(c, s)' = Entitled(c, s)
  BY Stability DEF Entitled
<1>2. ASSUME NEW t \in Conns, ForwardTo(t), c = cur, s = t
      PROVE  /\ fate'[c][s] \in {"sent", "failed"} => Entitled(c, s)'
             /\ fate'[c][s] = "skipped" => ~Entitled(c, s)'
  <2>1. Entitled(c, s)' = Entitled(c, s)
    BY <1>2 DEF ForwardTo, Entitled, sendVars, subVars
  <2>2. fate'[c][s] = "skipped" <=> Skipped(note[cur], hasAccess, sub[s])
    BY <1>2 DEF ForwardTo, SubscriberSend, TypeInv, TypeOK
  <2>3. loop = "range" /\ s \in subscribers
    BY <1>2 DEF ForwardTo
  <2> QED BY <2>1, <2>2, <2>3, <1>2, SkippedIsNotEntitled
<1>3. ASSUME NEW t \in Conns, ForwardTo(t), ~(c = cur /\ s = t)
      PROVE  fate'[c][s] = fate[c][s]
  BY <1>3, ForwardFate
<1>4. CASE fate'[c][s] = fate[c][s]
  BY <1>1, <1>4 DEF DeliveryContract
<1> QED
  BY <1>2, <1>3, <1>4
     DEF Next, Tick, Send, Wake, Receive, CheckPublication,
         EvaluateContentPolicy, EndForward, Push, Stop, StopLoop, Subscribe, Lock,
         addSubscriber, TakeNotification, EndStream, Unsubscribe, Poll, PollReturns,
         obsVars, vars

(* The two builders give a subscriber what it may see.                     *)
LEMMA MessageWellFormed ==
  ASSUME NEW n \in NotificationModel, n.NotificationDate = "now",
         NEW s \in Conns, NEW r \in Subscriber
  PROVE  WellFormed(MessageTo(n, s, r), n, s, r)
<1> DEFINE c == CreateNotificationResponse(n, r.subscriberOptions)
           b == buildStandardNotificationMsg(c)
           m == buildMonitorNotificationMsg(c, s)
<1>1. /\ c.ID = n.ID /\ c.SubscriberID = Nil /\ c.LastModified = n.LastModified
      /\ c.PublishReference = n.PublishReference /\ c.NotificationDate = "now"
      /\ c.Type = IF /\ n.Type = ContentCreateType
                     /\ ~r.subscriberOptions.ReceiveAdvancedNotifications
                  THEN ContentUpdateType ELSE n.Type
      /\ DOMAIN c = {"ID", "Type", "SubscriberID", "PublishReference",
                     "LastModified", "NotificationDate"}
  BY DEF CreateNotificationResponse
<1> HIDE DEF c
<1>2. /\ b.ID = c.ID /\ b.Type = c.Type /\ b.SubscriberID = c.SubscriberID
      /\ b.PublishReference = "" /\ b.LastModified = 0 /\ b.NotificationDate = ""
  BY <1>1, Zenon DEF buildStandardNotificationMsg
<1>3. /\ m.ID = c.ID /\ m.Type = c.Type /\ m.SubscriberID = s
      /\ m.PublishReference = c.PublishReference /\ m.LastModified = c.LastModified
      /\ m.NotificationDate = c.NotificationDate
  BY <1>1, Zenon DEF buildMonitorNotificationMsg
<1>4. MessageTo(n, s, r) = IF r.monitoring THEN m ELSE b
  BY DEF MessageTo, c
<1> HIDE DEF m, b
<1> QED
  BY <1>1, <1>2, <1>3, <1>4
     DEF WellFormed, ContentCreateType, ContentUpdateType

(* Every step keeps the messages on the channels well formed.              *)
LEMMA WireStep ==
  /\ TypeInv /\ RoundInv /\ FateInv /\ ServedInv /\ DateInv /\ SentIsEnqueued
  /\ WireForm /\ [Next]_vars
  => WireForm'
<1> SUFFICES ASSUME TypeInv, RoundInv, FateInv, ServedInv, DateInv, SentIsEnqueued,
                    WireForm, [Next]_vars, NEW s \in Conns, NEW i \in DOMAIN inbox'[s]
             PROVE  WellFormed(inbox'[s][i].msg, note'[inbox'[s][i].call], s, sub'[s])
  BY DEF WireForm
<1>1. ASSUME i \in DOMAIN inbox[s], inbox'[s][i] = inbox[s][i]
      PROVE  WellFormed(inbox'[s][i].msg, note'[inbox'[s][i].call], s, sub'[s])
  <2>1. inbox[s][i] \in Message
    BY <1>1 DEF TypeInv, TypeOK
  <2>2. inbox[s][i].call \in Calls
    BY <2>1 DEF Message
  <2>3. fate[inbox[s][i].call][s] # "none"
    BY <1>1, <2>2 DEF SentIsEnqueued
  <2> QED BY <1>1, <2>2, <2>3, Stability DEF WireForm
<1>2. CASE inbox' = inbox
  BY <1>1, <1>2
<1>3. ASSUME NEW t \in Conns, ForwardTo(t), ForwardedTo(t)
      PROVE  WellFormed(inbox'[s][i].msg, note'[inbox'[s][i].call], s, sub'[s])
  <2>1. CASE ~(s = t /\ i = Len(inbox[s]) + 1)
    <3>1. i \in DOMAIN inbox[s] /\ inbox'[s][i] = inbox[s][i]
      BY <1>3, <2>1, ForwardInbox
    <3> QED BY <1>1, <3>1
  <2>2. CASE s = t /\ i = Len(inbox[s]) + 1
    <3>1. /\ cur \in Calls /\ note[cur] \in NotificationModel
          /\ sub[s] \in Subscriber /\ phase[cur] = "received"
      BY <1>3, <2>2 DEF ForwardTo, TypeInv, TypeOK, DataInv, LoopInv, Busy
    <3>2. note[cur].NotificationDate = "now"
      BY <3>1 DEF DateInv
    <3>3. WellFormed(MessageTo(note[cur], s, sub[s]), note[cur], s, sub[s])
      BY <3>1, <3>2, MessageWellFormed
    <3>4. MessageFor(s).call = cur /\ MessageFor(s).msg = MessageTo(note[cur], s, sub[s])
      BY DEF MessageFor
    <3>5. inbox'[s][i] = MessageFor(s)
      <4>1. inbox \in [Conns -> Seq(Message)] /\ MessageFor(s) \in Message
        BY <1>3, <2>2, ForwardedIsMessage DEF TypeInv, TypeOK
      <4>2. inbox'[s] = Append(inbox[s], MessageFor(s))
        BY <1>3, <2>2, <4>1 DEF ForwardedTo, Enqueue
      <4> QED BY <2>2, <4>1, <4>2
    <3>6. note' = note /\ sub' = sub
      BY <1>3 DEF ForwardTo, sendVars, subVars
    <3> QED BY <3>3, <3>4, <3>5, <3>6
  <2> QED BY <2>1, <2>2
<1>4. ASSUME NEW t \in Conns, ForwardTo(t), ~ForwardedTo(t) PROVE inbox' = inbox
  BY <1>4, ForwardOutcome DEF NotForwardedTo
<1> QED
  BY <1>2, <1>3, <1>4
     DEF Next, Tick, Send, Wake, Receive, CheckPublication,
         EvaluateContentPolicy, EndForward, Push, Stop, StopLoop, Subscribe, Lock,
         addSubscriber, TakeNotification, EndStream, Unsubscribe, Poll, PollReturns,
         chanVars, vars

----------------------------------------------------------------------------
(* The invariant, and what follows from it.                                *)

(* The inductive invariant holds of every reachable state.                 *)
THEOREM Invariance == Spec => []IInv
<1>1. Init => IInv
  <2> SUFFICES ASSUME Init PROVE IInv
    OBVIOUS
  <2>1. TypeInv /\ LockInv /\ RoundInv /\ FateInv
    BY TypeInit, LockInit, RoundInit, FateInit
  <2>2. ServedInv /\ DateInv /\ SentIsEnqueued /\ SameOrder /\ WireForm
    BY DEF Init, ServedInv, DateInv, SentIsEnqueued, SameOrder, WireForm
  <2>3. NobodyOverlooked /\ DeliveryContract
    BY DEF Init, NobodyOverlooked, DeliveryContract
  <2> QED BY <2>1, <2>2, <2>3 DEF IInv, TypeInv
<1>2. IInv /\ [Next]_vars => IInv'
  BY TypeStep, LockStep, RoundStep, FateStep, ServedStep, DateStep, SentStep,
     OrderStep, OverlookedStep, DeliveryStep, WireStep DEF IInv, TypeInv
<1> QED BY <1>1, <1>2, PTL DEF Spec

(* Every subscriber is sent exactly what it is entitled to.                *)
THEOREM DeliveryContractHolds == Spec => []DeliveryContract
<1>1. IInv => DeliveryContract
  BY DEF IInv
<1> QED BY <1>1, Invariance, PTL

(* Everybody who was registered had a turn, and nobody else.               *)
THEOREM NobodyOverlookedHolds == Spec => []NobodyOverlooked
<1>1. IInv => NobodyOverlooked
  BY DEF IInv
<1> QED BY <1>1, Invariance, PTL

(* What was counted as sent is what was put on the channels.               *)
THEOREM SentIsEnqueuedHolds == Spec => []SentIsEnqueued
<1>1. IInv => SentIsEnqueued
  BY DEF IInv
<1> QED BY <1>1, Invariance, PTL

(* All subscribers see the notifications in one order, each at most once.  *)
THEOREM SameOrderHolds == Spec => []SameOrder
<1>1. IInv => SameOrder
  BY DEF IInv
<1> QED BY <1>1, Invariance, PTL

(* Monitoring fields reach monitors only, CREATE the entitled only.        *)
THEOREM WireFormHolds == Spec => []WireForm
<1>1. IInv => WireForm
  BY DEF IInv
<1> QED BY <1>1, Invariance, PTL

(* Between two notifications, and after Stop, nothing is half done.        *)
THEOREM StopIsCleanHolds == Spec => []StopIsClean
<1>1. IInv => StopIsClean
  <2> SUFFICES ASSUME IInv, loop \in {"select", "stopped"},
                      NEW c \in Calls, turn[c] # 0
               PROVE  phase[c] = "recorded" /\ report[c] # "none"
    BY DEF StopIsClean
  <2>1. phase[c] \in {"received", "recorded"}
    BY DEF IInv, TypeOK, Phase, RoundInv
  <2>2. cur = Nil /\ c # Nil
    BY IdentityAssumption DEF IInv, LoopInv, Busy
  <2>3. phase[c] = "recorded"
    BY <2>1, <2>2 DEF IInv, LoopInv
  <2> QED BY <2>3 DEF IInv, FateInv
<1> QED BY <1>1, Invariance, PTL
=============================================================================
