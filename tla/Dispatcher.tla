----------------------------- MODULE Dispatcher -----------------------------
(***************************************************************************)
(* dispatch.Dispatcher and the goroutines that meet in it:                 *)
(*                                                                         *)
(*  - one goroutine per call of Send, which sleeps for the delay and then  *)
(*    offers its notification on the unbuffered channel "inbound";         *)
(*  - the one goroutine in Start, which takes a notification at a time,    *)
(*    forwards it to the subscribers under the read lock and pushes it to  *)
(*    the history;                                                         *)
(*  - one request handler per connection, which calls Subscribe, reads the *)
(*    subscriber's channel and calls Unsubscribe when the stream ends;     *)
(*  - the readers of Subscribers() (the /__stats endpoint);                *)
(*  - the caller of Stop.                                                  *)
(*                                                                         *)
(* Identifiers.  A member of Calls is one call of Send, a member of Conns  *)
(* one subscription request, which is also the identity of the subscriber  *)
(* made for it (a random UUID in the code).                                *)
(*                                                                         *)
(* A definition marked "Mutant" is used by no other: it is the definition  *)
(* that follows it with a plausible mistake in it, which some property     *)
(* below must notice.                                                      *)
(***************************************************************************)
EXTENDS Notifications, History, FiniteSets

CONSTANTS
  Calls,              \* the calls of Send
  Conns,              \* the subscription requests
  Pollers,            \* the clients of /__stats
  Inputs,             \* the notifications the message handler can send
  Requests,           \* the subscribers that requests can ask for
  Delay,              \* the configured delay, in ticks
  notificationBuffer, \* capacity of a subscriber's channel
  HistorySize,        \* the size given to NewHistory
  Loop                \* the goroutine in Start, as a holder of the lock

ASSUME InputsAssumption ==
  Inputs \subseteq {n \in NotificationModel : n.NotificationDate = ""}
ASSUME RequestsAssumption == Requests \subseteq Subscriber
ASSUME DelayAssumption == Delay \in Nat
ASSUME BufferAssumption == notificationBuffer \in Nat
ASSUME HistorySizeAssumption == HistorySize \in Nat
ASSUME IdentityAssumption ==
  /\ Nil \notin Calls /\ Nil \notin Conns
  /\ Nil \notin NotificationModel /\ Nil \notin Requests
  /\ Loop \notin Pollers

VARIABLES
  (* the calls of Send *)
  note,        \* the notification of a call, Nil before the call
  phase,       \* how far it has come
  sleep,       \* ticks its goroutine still sleeps
  sinceLast,   \* ticks since the loop took a notification, Delay if long ago
  (* the loop in Start *)
  loop,        \* where it is
  cur,         \* the call whose notification it holds
  hasAccess,   \* the local variable of forwardToSubscribers
  history,     \* inMemoryHistory.notifications
  stopper,     \* the caller of Stop
  (* the subscribers *)
  subscribers, \* the map d.subscribers
  handler,     \* where a request handler is
  sub,         \* the subscriber it made
  inbox,       \* every message ever put on its channel
  taken,       \* how many of them the handler has taken off again
  (* d.lock *)
  readers,     \* holders of the read lock
  blocked,     \* goroutines in RLock that wait for the announced writer
  announced,   \* the writer that owns the lock or waits for the readers
  polling,     \* the pollers inside Subscribers()
  (* observations: written, never read by the code's own steps *)
  round,       \* how many notifications the loop has taken
  turn,        \* in which round a call was taken, 0 before
  audience,    \* who was subscribed when a call was forwarded
  verdict,     \* what the policy agent answered for a call
  fate,        \* what the forwarding loop did with a subscriber for a call
  report       \* the log line that ended the forwarding of a call

sendVars  == <<note, phase, sleep>>
loopVars  == <<loop, cur, hasAccess>>
subVars   == <<handler, sub>>
chanVars  == <<inbox, taken>>
lockVars  == <<readers, blocked, announced>>
obsVars   == <<audience, verdict, fate, report>>
orderVars == <<round, turn, sinceLast>>

vars == <<note, phase, sleep, sinceLast, loop, cur, hasAccess, history, stopper,
          subscribers, handler, sub, inbox, taken, readers, blocked, announced,
          polling, round, turn, audience, verdict, fate, report>>

Phase   == {"unsent", "sleeping", "sending", "received", "recorded"}
LoopAt  == {"select", "locked", "policy", "range", "return", "push", "stopped"}
Handler == {"new", "adding", "active", "removing", "gone", "failed"}
Verdict == {"none", "allow", "deny", "error"}
Fate    == {"none", "sent", "failed", "skipped"}
Report  == {"none", "processed", "error"}

(* The loop is inside forwardToSubscribers and has been granted the lock.  *)
Forwarding == loop \in {"policy", "range", "return"}

Message == [call : Calls, msg : NotificationResponse(Conns)]

(* The messages that are on a subscriber's channel now.                    *)
Buffered(s) == Len(inbox[s]) - taken[s]

With(c, f) == {s \in Conns : fate[c][s] = f}

TypeOK ==
  /\ note \in [Calls -> {Nil} \cup NotificationModel]
  /\ phase \in [Calls -> Phase]
  /\ sleep \in [Calls -> 0..Delay]
  /\ sinceLast \in 0..Delay
  /\ loop \in LoopAt
  /\ cur \in {Nil} \cup Calls
  /\ hasAccess \in BOOLEAN
  /\ history \in Seq(NotificationModel)
  /\ stopper \in {"idle", "waiting", "done"}
  /\ subscribers \in SUBSET Conns
  /\ handler \in [Conns -> Handler]
  /\ sub \in [Conns -> {Nil} \cup Subscriber]
  /\ inbox \in [Conns -> Seq(Message)]
  /\ taken \in [Conns -> Nat]
  /\ \A s \in Conns : Buffered(s) \in 0..notificationBuffer
  /\ readers \in SUBSET ({Loop} \cup Pollers)
  /\ blocked \in SUBSET ({Loop} \cup Pollers)
  /\ announced \in {Nil} \cup Conns
  /\ polling \in SUBSET Pollers
  /\ round \in Nat
  /\ turn \in [Calls -> Nat]
  /\ audience \in [Calls -> SUBSET Conns]
  /\ verdict \in [Calls -> Verdict]
  /\ fate \in [Calls -> [Conns -> Fate]]
  /\ report \in [Calls -> Report]

Init ==
  /\ note = [c \in Calls |-> Nil]
  /\ phase = [c \in Calls |-> "unsent"]
  /\ sleep = [c \in Calls |-> 0]
  /\ sinceLast = Delay
  /\ loop = "select"
  /\ cur = Nil
  /\ hasAccess = FALSE
  /\ history = <<>>
  /\ stopper = "idle"
  /\ subscribers = {}
  /\ handler = [s \in Conns |-> "new"]
  /\ sub = [s \in Conns |-> Nil]
  /\ inbox = [s \in Conns |-> <<>>]
  /\ taken = [s \in Conns |-> 0]
  /\ readers = {}
  /\ blocked = {}
  /\ announced = Nil
  /\ polling = {}
  /\ round = 0
  /\ turn = [c \in Calls |-> 0]
  /\ audience = [c \in Calls |-> {}]
  /\ verdict = [c \in Calls |-> "none"]
  /\ fate = [c \in Calls |-> [s \in Conns |-> "none"]]
  /\ report = [c \in Calls |-> "none"]

----------------------------------------------------------------------------
(* sync.RWMutex.  A writer first excludes the other writers and is then    *)
(* announced: readers that come later wait for it, and it waits for the    *)
(* readers that are inside.  Its Unlock lets in all the readers that       *)
(* waited, before another writer can be announced.                         *)

RLock(r) ==
  /\ IF announced = Nil
     THEN readers' = readers \cup {r} /\ UNCHANGED blocked
     ELSE blocked' = blocked \cup {r} /\ UNCHANGED readers
  /\ UNCHANGED announced

RUnlock(r) ==
  /\ readers' = readers \ {r}
  /\ UNCHANGED <<blocked, announced>>

Lock(s) ==
  /\ handler[s] \in {"adding", "removing"}
  /\ announced = Nil
  /\ announced' = s
  /\ UNCHANGED <<sendVars, orderVars, loopVars, history, stopper, subscribers,
                 subVars, chanVars, readers, blocked, polling, obsVars>>

(* The critical section of a writer, which no reader can be inside of.     *)
Locked(s) == announced = s /\ readers = {}

Unlock ==
  /\ announced' = Nil
  /\ readers' = blocked
  /\ blocked' = {}

----------------------------------------------------------------------------
(* Send and its goroutine.                                                 *)

Send(c) ==
  /\ phase[c] = "unsent"
  /\ \E n \in Inputs : note' = [note EXCEPT ![c] = n]
  /\ phase' = [phase EXCEPT ![c] = "sleeping"]
  /\ sleep' = [sleep EXCEPT ![c] = Delay]
  /\ UNCHANGED <<orderVars, loopVars, history, stopper, subscribers, subVars,
                 chanVars, lockVars, polling, obsVars>>

(* A tick of real time; it passes for everyone.                            *)
Tick ==
  /\ sinceLast < Delay \/ \E c \in Calls : sleep[c] > 0
  /\ sleep' = [c \in Calls |-> IF sleep[c] > 0 THEN sleep[c] - 1 ELSE 0]
  /\ sinceLast' = IF sinceLast < Delay THEN sinceLast + 1 ELSE Delay
  /\ UNCHANGED <<note, phase, round, turn, loopVars, history, stopper,
                 subscribers, subVars, chanVars, lockVars, polling, obsVars>>

(* n.NotificationDate = time.Now().Format(...), when the sleep is over.    *)
Dated(n) == [n EXCEPT !.NotificationDate = "now"]

Wake(c) ==
  /\ phase[c] = "sleeping"
  /\ sleep[c] = 0
  /\ note' = [note EXCEPT ![c] = Dated(note[c])]
  /\ phase' = [phase EXCEPT ![c] = "sending"]
  /\ UNCHANGED <<sleep, orderVars, loopVars, history, stopper, subscribers,
                 subVars, chanVars, lockVars, polling, obsVars>>

----------------------------------------------------------------------------
(* The loop in Start.                                                      *)

(* The rendezvous on "inbound", then the call of RLock.                    *)
Receive(c) ==
  /\ loop = "select"
  /\ phase[c] = "sending"
  /\ loop' = "locked"
  /\ cur' = c
  /\ phase' = [phase EXCEPT ![c] = "received"]
  /\ round' = round + 1
  /\ turn' = [turn EXCEPT ![c] = round + 1]
  /\ sinceLast' = 0
  /\ RLock(Loop)
  /\ UNCHANGED <<note, sleep, hasAccess, history, stopper, subscribers, subVars,
                 chanVars, polling, obsVars>>

(* RLock returned; the publications are checked.                           *)
CheckPublication ==
  /\ loop = "locked"
  /\ Loop \in readers
  /\ audience' = [audience EXCEPT ![cur] = subscribers]
  /\ IF PublicationFails(note[cur])
     THEN loop' = "return" /\ verdict' = [verdict EXCEPT ![cur] = "error"]
     ELSE loop' = "policy" /\ UNCHANGED verdict
  /\ UNCHANGED <<sendVars, orderVars, cur, hasAccess, history, stopper,
                 subscribers, subVars, chanVars, lockVars, polling, fate, report>>

(* Mutant: the missing return after a failed evaluation.                   *)
EvaluatedDespiteError(answer) ==
  /\ loop' = "range"
  /\ hasAccess' = (answer = "allow" \/ (answer = "error" /\ hasAccess))

Evaluated(answer) ==
  IF answer = "error"
  THEN loop' = "return" /\ UNCHANGED hasAccess
  ELSE loop' = "range" /\ hasAccess' = (answer = "allow")

(* EvaluateContentPolicy returns.  The agent is not part of this code: it  *)
(* may allow, deny or fail for any notification.                           *)
EvaluateContentPolicy(answer) ==
  /\ loop = "policy"
  /\ verdict' = [verdict EXCEPT ![cur] = answer]
  /\ Evaluated(answer)
  /\ UNCHANGED <<sendVars, orderVars, cur, history, stopper, subscribers, subVars,
                 chanVars, lockVars, polling, audience, fate, report>>

(* Mutant: one message too many.                                           *)
HasRoomAtLimit(s) == Buffered(s) <= notificationBuffer

HasRoom(s) == Buffered(s) < notificationBuffer

(* What the loop has for a subscriber at this moment.                      *)
MessageFor(s) == [call |-> cur, msg |-> MessageTo(note[cur], s, sub[s])]

Enqueue(s) == inbox' = [inbox EXCEPT ![s] = Append(@, MessageFor(s))]

(* Mutant: the newest message is read first.                               *)
SubscriberSendInFront(s) ==
  IF HasRoom(s)
  THEN /\ fate' = [fate EXCEPT ![cur][s] = "sent"]
       /\ inbox' = [inbox EXCEPT ![s] = <<MessageFor(s)>> \o @]
  ELSE fate' = [fate EXCEPT ![cur][s] = "failed"] /\ UNCHANGED inbox

(* Mutant: a select without the default case.                              *)
SubscriberSendBlocking(s) ==
  HasRoom(s) /\ fate' = [fate EXCEPT ![cur][s] = "sent"] /\ Enqueue(s)

(* Mutant: the error of Send is ignored.                                   *)
SubscriberSendUnchecked(s) ==
  /\ fate' = [fate EXCEPT ![cur][s] = "sent"]
  /\ IF HasRoom(s) THEN Enqueue(s) ELSE UNCHANGED inbox

(* The Send method of a subscriber: a full channel is ErrSubLagging.       *)
SubscriberSend(s) ==
  IF HasRoom(s)
  THEN fate' = [fate EXCEPT ![cur][s] = "sent"] /\ Enqueue(s)
  ELSE fate' = [fate EXCEPT ![cur][s] = "failed"] /\ UNCHANGED inbox

(* One turn of the loop over the map.  Go visits the keys in any order and *)
(* looks at the map itself, not at a copy.                                 *)
ForwardTo(s) ==
  /\ loop = "range"
  /\ s \in subscribers
  /\ fate[cur][s] = "none"
  /\ IF Skipped(note[cur], hasAccess, sub[s])
     THEN fate' = [fate EXCEPT ![cur][s] = "skipped"] /\ UNCHANGED inbox
     ELSE SubscriberSend(s)
  /\ UNCHANGED <<sendVars, orderVars, loopVars, history, stopper, subscribers,
                 subVars, taken, lockVars, polling, audience, verdict, report>>

(* Mutant: an error of Send ends the loop.                                 *)
RangeDoneWhenLagging ==
  /\ loop = "range"
  /\ \/ With(cur, "failed") # {}
     \/ \A s \in subscribers : fate[cur][s] # "none"

RangeDone ==
  /\ loop = "range"
  /\ \A s \in subscribers : fate[cur][s] # "none"

(* Mutant: a failed send counts as a sent one.                             *)
ProcessedIfTried ==
  \/ subscribers = {}
  \/ With(cur, "sent") \cup With(cur, "failed") # {}
  \/ Cardinality(subscribers) = Cardinality(With(cur, "skipped"))

(* The condition on the counters sent and skipped for the success line.    *)
Processed ==
  \/ subscribers = {}
  \/ With(cur, "sent") # {}
  \/ Cardinality(subscribers) = Cardinality(With(cur, "skipped"))

(* Mutant: the early returns do not give the lock back.                    *)
EndForwardLocked ==
  /\ loop = "return" \/ RangeDone
  /\ report' = [report EXCEPT ![cur] = IF Processed THEN "processed" ELSE "error"]
  /\ IF loop = "return" THEN UNCHANGED lockVars ELSE RUnlock(Loop)
  /\ loop' = "push"
  /\ UNCHANGED <<sendVars, orderVars, cur, hasAccess, history, stopper,
                 subscribers, subVars, chanVars, polling, audience, verdict, fate>>

(* The deferred calls of forwardToSubscribers, last one first: the log     *)
(* line, computed from the three counters, and RUnlock.                    *)
EndForward ==
  /\ loop = "return" \/ RangeDone
  /\ report' = [report EXCEPT ![cur] = IF Processed THEN "processed" ELSE "error"]
  /\ RUnlock(Loop)
  /\ loop' = "push"
  /\ UNCHANGED <<sendVars, orderVars, cur, hasAccess, history, stopper,
                 subscribers, subVars, chanVars, polling, audience, verdict, fate>>

Push ==
  /\ loop = "push"
  /\ history' \in Pushed(history, note[cur], HistorySize)
  /\ phase' = [phase EXCEPT ![cur] = "recorded"]
  /\ loop' = "select"
  /\ cur' = Nil
  /\ UNCHANGED <<note, sleep, orderVars, hasAccess, stopper, subscribers, subVars,
                 chanVars, lockVars, polling, obsVars>>

(* Stop offers a value on the unbuffered stopChan and waits.               *)
Stop ==
  /\ stopper = "idle"
  /\ stopper' = "waiting"
  /\ UNCHANGED <<sendVars, orderVars, loopVars, history, subscribers, subVars,
                 chanVars, lockVars, polling, obsVars>>

(* Mutant: Stop is taken between forwarding and recording.                 *)
StopTakenBeforePush == loop \in {"select", "push"} /\ stopper = "waiting"

StopTaken == loop = "select" /\ stopper = "waiting"

(* Mutant: a "break" instead of the "return" leaves the select only.       *)
StopLoopBreak ==
  /\ StopTaken
  /\ loop' = "select"
  /\ stopper' = "done"
  /\ UNCHANGED <<sendVars, orderVars, cur, hasAccess, history, subscribers,
                 subVars, chanVars, lockVars, polling, obsVars>>

StopLoop ==
  /\ StopTaken
  /\ loop' = "stopped"
  /\ stopper' = "done"
  /\ UNCHANGED <<sendVars, orderVars, cur, hasAccess, history, subscribers,
                 subVars, chanVars, lockVars, polling, obsVars>>

----------------------------------------------------------------------------
(* The request handlers.                                                   *)

(* Subscribe makes the subscriber; uuid.NewV4 may fail.                    *)
Subscribe(s) ==
  /\ handler[s] = "new"
  /\ \/ /\ \E r \in Requests : sub' = [sub EXCEPT ![s] = r]
        /\ handler' = [handler EXCEPT ![s] = "adding"]
     \/ /\ handler' = [handler EXCEPT ![s] = "failed"]
        /\ UNCHANGED sub
  /\ UNCHANGED <<sendVars, orderVars, loopVars, history, stopper, subscribers,
                 chanVars, lockVars, polling, obsVars>>

(* Mutant: the map is written to without the lock.                         *)
addSubscriberUnlocked(s) ==
  /\ handler[s] = "adding"
  /\ announced # s
  /\ subscribers' = subscribers \cup {s}
  /\ handler' = [handler EXCEPT ![s] = "active"]
  /\ UNCHANGED <<sendVars, orderVars, loopVars, history, stopper, sub, chanVars,
                 lockVars, polling, obsVars>>

addSubscriber(s) ==
  /\ handler[s] = "adding"
  /\ Locked(s)
  /\ subscribers' = subscribers \cup {s}
  /\ handler' = [handler EXCEPT ![s] = "active"]
  /\ Unlock
  /\ UNCHANGED <<sendVars, orderVars, loopVars, history, stopper, sub, chanVars,
                 polling, obsVars>>

(* The handler takes a message off the channel, to write it to the client. *)
TakeNotification(s) ==
  /\ handler[s] = "active"
  /\ Buffered(s) > 0
  /\ taken' = [taken EXCEPT ![s] = @ + 1]
  /\ UNCHANGED <<sendVars, orderVars, loopVars, history, stopper, subscribers,
                 subVars, inbox, lockVars, polling, obsVars>>

(* Mutant: the missing "defer Unsubscribe".                                *)
EndStreamForgotten(s) ==
  /\ handler[s] = "active"
  /\ handler' = [handler EXCEPT ![s] = "gone"]
  /\ UNCHANGED <<sendVars, orderVars, loopVars, history, stopper, subscribers, sub,
                 chanVars, lockVars, polling, obsVars>>

(* The stream ends: the client left, or a write failed, or the service is  *)
(* shutting down.  What is still on the channel is never read.             *)
EndStream(s) ==
  /\ handler[s] = "active"
  /\ handler' = [handler EXCEPT ![s] = "removing"]
  /\ UNCHANGED <<sendVars, orderVars, loopVars, history, stopper, subscribers, sub,
                 chanVars, lockVars, polling, obsVars>>

(* Mutant: the map is deleted from without the lock.                       *)
UnsubscribeUnlocked(s) ==
  /\ handler[s] = "removing"
  /\ announced # s
  /\ subscribers' = subscribers \ {s}
  /\ handler' = [handler EXCEPT ![s] = "gone"]
  /\ UNCHANGED <<sendVars, orderVars, loopVars, history, stopper, sub, chanVars,
                 lockVars, polling, obsVars>>

Unsubscribe(s) ==
  /\ handler[s] = "removing"
  /\ Locked(s)
  /\ subscribers' = subscribers \ {s}
  /\ handler' = [handler EXCEPT ![s] = "gone"]
  /\ Unlock
  /\ UNCHANGED <<sendVars, orderVars, loopVars, history, stopper, sub, chanVars,
                 polling, obsVars>>

(* Subscribers(), called again and again by a poller of /__stats.          *)
Poll(r) ==
  /\ r \notin polling
  /\ polling' = polling \cup {r}
  /\ RLock(r)
  /\ UNCHANGED <<sendVars, orderVars, loopVars, history, stopper, subscribers,
                 subVars, chanVars, obsVars>>

(* Mutant: the missing "defer RUnlock" of Subscribers.                     *)
PollReturnsLocked(r) ==
  /\ r \in polling
  /\ r \in readers
  /\ polling' = polling \ {r}
  /\ UNCHANGED <<sendVars, orderVars, loopVars, history, stopper, subscribers,
                 subVars, chanVars, lockVars, obsVars>>

PollReturns(r) ==
  /\ r \in polling
  /\ r \in readers
  /\ polling' = polling \ {r}
  /\ RUnlock(r)
  /\ UNCHANGED <<sendVars, orderVars, loopVars, history, stopper, subscribers,
                 subVars, chanVars, obsVars>>

----------------------------------------------------------------------------
Next ==
  \/ Tick
  \/ \E c \in Calls : Send(c) \/ Wake(c) \/ Receive(c)
  \/ CheckPublication
  \/ \E answer \in {"allow", "deny", "error"} : EvaluateContentPolicy(answer)
  \/ \E s \in Conns : ForwardTo(s)
  \/ EndForward
  \/ Push
  \/ Stop
  \/ StopLoop
  \/ \E s \in Conns : \/ Subscribe(s) \/ Lock(s) \/ addSubscriber(s)
                      \/ TakeNotification(s) \/ EndStream(s) \/ Unsubscribe(s)
  \/ \E r \in Pollers : Poll(r) \/ PollReturns(r)

Spec == Init /\ [][Next]_vars

(* Fairness.  Goroutines that can run do run, and time passes (weak        *)
(* fairness).  Senders blocked on a channel are served in the order they   *)
(* came, a select that finds both channels ready picks one at random, and  *)
(* writers of a RWMutex queue up: an operation that is offered again and   *)
(* again is taken in the end (strong fairness).  The policy agent answers. *)
(* Nothing is assumed of the clients: no fairness on TakeNotification.     *)
Fairness ==
  /\ WF_vars(Tick)
  /\ \A c \in Calls : WF_vars(Wake(c)) /\ SF_vars(Receive(c))
  /\ WF_vars(CheckPublication)
  /\ WF_vars(\E answer \in {"allow", "deny", "error"} :
                EvaluateContentPolicy(answer))
  /\ WF_vars(\E s \in Conns : ForwardTo(s))
  /\ WF_vars(EndForward)
  /\ WF_vars(Push)
  /\ SF_vars(StopLoop)
  /\ \A s \in Conns : /\ SF_vars(Lock(s))
                      /\ WF_vars(addSubscriber(s))
                      /\ WF_vars(Unsubscribe(s))
  /\ \A r \in Pollers : WF_vars(PollReturns(r))

LiveSpec == Spec /\ Fairness

----------------------------------------------------------------------------
(* Properties.                                                             *)

(* Who is owed a notification, once the agent has answered.                *)
Entitled(c, s) ==
  LET n == note[c]
      r == sub[s]
      typeless == n.Type = ContentDeleteType /\ n.SubscriptionType = ""
  IN  /\ verdict[c] \in {"allow", "deny"}
      /\ n.IsE2ETest => r.monitoring
      /\ ~n.IsE2ETest =>
           /\ verdict[c] = "allow"
           /\ typeless \/ \E t \in r.acceptedTypes :
                            ToLower[t] = ToLower[n.SubscriptionType]
           /\ n.Type = RelatedContentType
                => r.subscriberOptions.ReceiveInternalUnstable

(* A subscriber is sent, or is told to lag behind on, exactly the          *)
(* notifications it is entitled to; it is skipped for the others only.     *)
(* In particular the answer of the policy agent for one notification is    *)
(* never used for another, and a failed evaluation reaches nobody          *)
(* (forwardToSubscribers).                                                 *)
DeliveryContract ==
  \A c \in Calls, s \in Conns :
    /\ fate[c][s] \in {"sent", "failed"} => Entitled(c, s)
    /\ fate[c][s] = "skipped" => ~Entitled(c, s)

(* When forwardToSubscribers returns after an answer of the agent, every   *)
(* subscriber that was registered when it got the lock, and nobody else,   *)
(* has had its turn: a lagging subscriber does not end the loop, and       *)
(* nobody comes or goes meanwhile.  After an error nobody has.             *)
NobodyOverlooked ==
  \A c \in Calls :
    report[c] # "none" =>
      {s \in Conns : fate[c][s] # "none"} =
        IF verdict[c] = "error" THEN {} ELSE audience[c]

(* The channel of a subscriber holds one message for each notification     *)
(* that was counted as sent to it, and no other.                           *)
SentIsEnqueued ==
  \A c \in Calls, s \in Conns :
    fate[c][s] = "sent" <=> \E i \in DOMAIN inbox[s] : inbox[s][i].call = c

(* All subscribers see the notifications in the one order in which Start   *)
(* took them, each at most once, whatever the order of the calls of Send.  *)
SameOrder ==
  \A s \in Conns : \A i, j \in DOMAIN inbox[s] :
    i < j => turn[inbox[s][i].call] < turn[inbox[s][j].call]

(* The form of a notification n that a subscriber (id s, data r) may see.  *)
WellFormed(m, n, s, r) ==
  /\ m.ID = n.ID
  /\ IF r.monitoring
     THEN /\ m.SubscriberID = s
          /\ m.PublishReference = n.PublishReference
          /\ m.LastModified = n.LastModified
          /\ m.NotificationDate = "now"
     ELSE /\ m.SubscriberID = Nil
          /\ m.PublishReference = ""
          /\ m.LastModified = 0
          /\ m.NotificationDate = ""
  /\ m.Type # n.Type =>
       /\ n.Type = ContentCreateType /\ m.Type = ContentUpdateType
       /\ ~r.subscriberOptions.ReceiveAdvancedNotifications
  /\ m.Type = ContentCreateType => r.subscriberOptions.ReceiveAdvancedNotifications

(* What reaches a client: a standard subscriber never sees a monitoring    *)
(* field, a monitor sees all of them and its own identifier; a CREATE only *)
(* goes to holders of the advanced policy (CreateNotificationResponse and  *)
(* the two Send methods).                                                  *)
WireForm ==
  \A s \in Conns : \A i \in DOMAIN inbox[s] :
    WellFormed(inbox[s][i].msg, note[inbox[s][i].call], s, sub[s])

(* The monitoring log line is truthful: "Failed to send" means that no     *)
(* channel got the notification although somebody was there to get it, and *)
(* success means that it reached somebody or that nobody was owed it.      *)
ReportTruthful ==
  \A c \in Calls :
    /\ report[c] = "error" =>
         /\ audience[c] # {}
         /\ \A s \in Conns : \A i \in DOMAIN inbox[s] : inbox[s][i].call # c
    /\ report[c] = "processed" =>
         \/ \E s \in audience[c] : \E i \in DOMAIN inbox[s] : inbox[s][i].call = c
         \/ \A s \in audience[c] : verdict[c] # "error" /\ ~Entitled(c, s)

(* The history is the HistorySize most recently modified notifications of  *)
(* all that were pushed to it, newest first: an entry is dropped only for  *)
(* entries at least as recent (inMemoryHistory.Push).                      *)
HistoryKeepsNewest ==
  LET recorded == {c \in Calls : phase[c] = "recorded"} IN
  /\ SortedByTimestamp(history)
  /\ Len(history) =
       IF Cardinality(recorded) < HistorySize THEN Cardinality(recorded)
                                              ELSE HistorySize
  /\ \A c \in recorded :
       \/ \E i \in DOMAIN history : history[i] = note[c]
       \/ \A i \in DOMAIN history :
            history[i].LastModified >= note[c].LastModified

(* Stop does not cut a notification in half: once Start has returned every *)
(* notification it took was reported on and recorded.                      *)
StopIsClean ==
  loop \in {"select", "stopped"} =>
    \A c \in Calls : turn[c] # 0 => phase[c] = "recorded" /\ report[c] # "none"

(* The set of subscribers does not change under forwardToSubscribers.      *)
AudienceIsFixed == [][Forwarding => subscribers' = subscribers]_vars

(* After Unsubscribe returned nothing is put on the subscriber's channel.  *)
SilentAfterUnsubscribe ==
  [][\A s \in Conns : handler[s] = "gone" => inbox'[s] = inbox[s]]_vars

(* After Stop returned the dispatcher does nothing any more: goroutines of *)
(* Send that wake up later find nobody to take their notification, and the *)
(* channels and the history stay as they are.                              *)
SilentAfterStop ==
  [][stopper = "done" => inbox' = inbox /\ history' = history]_vars

(* What others can see of the dispatcher.  A notification is seen without  *)
(* its date, a subscriber once it is in the map, and a message from the    *)
(* end of forwardToSubscribers on: what the loop has put on a channel      *)
(* before is left out until then.                                          *)
noteBar ==
  [c \in Calls |-> IF note[c] = Nil THEN Nil
                   ELSE [note[c] EXCEPT !.NotificationDate = ""]]
pendingBar == {c \in Calls : phase[c] # "unsent" /\ report[c] = "none"}
memberBar ==
  [s \in Conns |-> IF handler[s] \in {"active", "removing", "gone"}
                   THEN sub[s] ELSE Nil]
Visible(s) ==
  [i \in 1..(IF loop = "range" /\ fate[cur][s] = "sent"
             THEN Len(inbox[s]) - 1 ELSE Len(inbox[s])) |-> inbox[s][i].call]
gotBar  == [s \in Conns |-> Visible(s)]
openBar == loop # "stopped"

B == INSTANCE Broadcast WITH
  note <- noteBar, pending <- pendingBar, member <- memberBar,
  members <- subscribers, got <- gotBar, open <- openBar

(* The dispatcher is an atomic broadcast: what Send, Subscribe,            *)
(* Unsubscribe, Stop and the loop of Start do with a lock, two unbuffered  *)
(* and many buffered channels amounts to the steps of Broadcast.           *)
ImplementsBroadcast == B!Spec

(* What the comment on NewDispatcher says of the delay: it is the least    *)
(* time between two notifications that are sent out.                       *)
MinimumDelayBetweenSends == [][round' # round => sinceLast = Delay]_vars

(* A notification that was handed to Send is forwarded and recorded,       *)
(* however slow the clients are, unless the dispatcher is stopped.         *)
EverySendIsRecorded ==
  \A c \in Calls :
    phase[c] = "sleeping" ~> (phase[c] = "recorded" \/ loop = "stopped")

(* Subscribe and Unsubscribe return, although the lock is taken for        *)
(* reading by every notification and by pollers that never cease.          *)
SubscribeReturns   == \A s \in Conns : handler[s] = "adding" ~> handler[s] = "active"
UnsubscribeReturns == \A s \in Conns : handler[s] = "removing" ~> handler[s] = "gone"

(* Stop returns, whatever is still waiting to be sent.                     *)
StopReturns == stopper = "waiting" ~> stopper = "done"
=============================================================================
