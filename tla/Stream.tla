------------------------------- MODULE Stream -------------------------------
(***************************************************************************)
(* SubHandler.listenForNotifications: the life of one push stream, from    *)
(* the first heartbeat to the return of the handler.                       *)
(*                                                                         *)
(* The handler waits for one of three things: a notification on the        *)
(* subscriber's channel, the heartbeat timer, the end of its context.      *)
(* When several are ready, select picks any.  A write takes as long as the *)
(* client takes to read, without a deadline, and may fail; meanwhile time  *)
(* passes, the channel fills up, the timer fires and the context ends.     *)
(*                                                                         *)
(* The timer is that of Go before 1.23 (go.mod says 1.21): when it expires *)
(* it leaves a tick in the one-place channel timer.C, where the tick stays *)
(* even if the timer is reset.                                             *)
(***************************************************************************)
EXTENDS Naturals

CONSTANTS
  Period,             \* heartbeatPeriod, in units of time
  notificationBuffer, \* capacity of the subscriber's channel
  MaxNotifications    \* bound on the notifications of a behaviour

ASSUME PeriodAssumption == Period \in Nat \ {0}
ASSUME BufferAssumption == notificationBuffer \in Nat \ {0}
ASSUME MaxAssumption == MaxNotifications \in Nat

VARIABLES
  pc,       \* where the handler is
  left,     \* time until the timer expires, 0 when it is not running
  tick,     \* there is a value in timer.C
  queued,   \* messages on the subscriber's channel
  sent,     \* messages ever put there
  written,  \* messages written to the client
  client,   \* reads, is stalled (a write to it blocks), or is gone
  ctxDone,  \* the context is cancelled (client gone, or shutdown)
  quiet     \* time since the last write ended, at most Period (observation)

vars == <<pc, left, tick, queued, sent, written, client, ctxDone, quiet>>

Pc == {"hello",       \* writing the first heartbeat
       "select",
       "notification",\* writing a notification
       "drain",       \* in "<-timer.C" after timer.Stop returned false
       "heartbeat",   \* writing a heartbeat
       "done"}

TypeOK ==
  /\ pc \in Pc
  /\ left \in 0..Period
  /\ tick \in BOOLEAN
  /\ queued \in 0..notificationBuffer
  /\ sent \in 0..MaxNotifications
  /\ written \in Nat
  /\ client \in {"reads", "stalled", "gone"}
  /\ ctxDone \in BOOLEAN
  /\ quiet \in 0..Period

Init ==
  /\ pc = "hello"
  /\ left = Period
  /\ tick = FALSE
  /\ queued = 0
  /\ sent = 0
  /\ written = 0
  /\ client = "reads"
  /\ ctxDone = FALSE
  /\ quiet = 0

----------------------------------------------------------------------------
(* The surroundings.                                                       *)

(* Time passes, and the timer, when it runs out, leaves a tick.            *)
Elapse ==
  /\ left > 0 \/ quiet < Period
  /\ left' = IF left > 0 THEN left - 1 ELSE 0
  /\ tick' = (tick \/ left = 1)
  /\ quiet' = IF quiet < Period THEN quiet + 1 ELSE Period
  /\ UNCHANGED <<pc, queued, sent, written, client, ctxDone>>

(* Mutant: one message too many.                                           *)
HasRoomAtLimit == queued <= notificationBuffer

HasRoom == queued < notificationBuffer

(* The dispatcher puts a message on the channel, unless it is full.        *)
Notify ==
  /\ sent < MaxNotifications
  /\ HasRoom
  /\ queued' = queued + 1
  /\ sent' = sent + 1
  /\ UNCHANGED <<pc, left, tick, written, client, ctxDone, quiet>>

(* The client stops reading, and what the connection can hold is full; it  *)
(* reads again; or the connection is closed.                               *)
Stall  == client = "reads" /\ client' = "stalled"
Resume == client = "stalled" /\ client' = "reads"
Leave  == client # "gone" /\ client' = "gone"

Client ==
  /\ Stall \/ Resume \/ Leave
  /\ UNCHANGED <<pc, left, tick, queued, sent, written, ctxDone, quiet>>

(* http.Server sees that the client is gone, or it is shut down and calls  *)
(* what RegisterOnShutdown got.                                            *)
Cancel ==
  /\ ~ctxDone
  /\ ctxDone' = TRUE
  /\ UNCHANGED <<pc, left, tick, queued, sent, written, client, quiet>>

----------------------------------------------------------------------------
(* The handler.                                                            *)

Reset == left' = Period

(* Mutant: the tick of the timer that was stopped too late stays.          *)
StopTimerOnly ==
  /\ pc' = "select"
  /\ Reset

(* if !timer.Stop() { <-timer.C }; timer.Reset.  Stop returns false when   *)
(* the timer has expired, and the handler goes on to drain its channel.    *)
StopTimer ==
  IF left > 0 THEN pc' = "select" /\ Reset
              ELSE pc' = "drain" /\ UNCHANGED left

WriteFails ==
  /\ pc \in {"hello", "notification", "heartbeat"}
  /\ pc' = "done"
  /\ UNCHANGED <<left, tick, queued, sent, written, client, ctxDone, quiet>>

HelloWritten ==
  /\ pc = "hello"
  /\ client # "stalled"
  /\ pc' = "select"
  /\ quiet' = 0
  /\ UNCHANGED <<left, tick, queued, sent, written, client, ctxDone>>

TakeNotification ==
  /\ pc = "select"
  /\ queued > 0
  /\ queued' = queued - 1
  /\ pc' = "notification"
  /\ UNCHANGED <<left, tick, sent, written, client, ctxDone, quiet>>

NotificationWritten ==
  /\ pc = "notification"
  /\ client # "stalled"
  /\ written' = written + 1
  /\ quiet' = 0
  /\ StopTimer
  /\ UNCHANGED <<tick, queued, sent, client, ctxDone>>

Drain ==
  /\ pc = "drain"
  /\ tick
  /\ tick' = FALSE
  /\ pc' = "select"
  /\ Reset
  /\ UNCHANGED <<queued, sent, written, client, ctxDone, quiet>>

TakeTick ==
  /\ pc = "select"
  /\ tick
  /\ tick' = FALSE
  /\ pc' = "heartbeat"
  /\ UNCHANGED <<left, queued, sent, written, client, ctxDone, quiet>>

(* Mutant: the timer is not started again after a heartbeat.               *)
HeartbeatWrittenOnce ==
  /\ pc = "heartbeat"
  /\ client # "stalled"
  /\ quiet' = 0
  /\ pc' = "select"
  /\ UNCHANGED <<left, tick, queued, sent, written, client, ctxDone>>

(* Mutant: the timer is stopped, and its channel drained, here too.        *)
HeartbeatWrittenStopping ==
  /\ pc = "heartbeat"
  /\ client # "stalled"
  /\ quiet' = 0
  /\ StopTimer
  /\ UNCHANGED <<tick, queued, sent, written, client, ctxDone>>

HeartbeatWritten ==
  /\ pc = "heartbeat"
  /\ client # "stalled"
  /\ quiet' = 0
  /\ pc' = "select"
  /\ Reset
  /\ UNCHANGED <<tick, queued, sent, written, client, ctxDone>>

(* Mutant: the end of the context is not waited for.                       *)
ContextIgnored == FALSE /\ UNCHANGED vars

ContextDone ==
  /\ pc = "select"
  /\ ctxDone
  /\ pc' = "done"
  /\ UNCHANGED <<left, tick, queued, sent, written, client, ctxDone, quiet>>

Step ==
  \/ WriteFails \/ HelloWritten \/ TakeNotification \/ NotificationWritten
  \/ Drain \/ TakeTick \/ HeartbeatWritten \/ ContextDone

(* A write ends that the client does not hold up.                          *)
WriteEnds ==
  /\ client # "stalled"
  /\ HelloWritten \/ NotificationWritten \/ HeartbeatWritten \/ WriteFails

Next == Elapse \/ Notify \/ Client \/ Cancel \/ Step

Spec == Init /\ [][Next]_vars

(* Fairness.  Time passes, the handler's goroutine runs, and the server    *)
(* notices that a client is gone.  Select does not pass over a case that   *)
(* is ready again and again; a write does not outlast a client that reads  *)
(* again and again, or that is gone.  Nothing is assumed of the client: it *)
(* may stall for ever, and then nothing ends the write.                    *)
Fairness ==
  /\ WF_vars(Elapse)
  /\ WF_vars(client = "gone" /\ Cancel)
  /\ SF_vars(WriteEnds)
  /\ WF_vars(Drain)
  /\ SF_vars(TakeNotification)
  /\ SF_vars(TakeTick)
  /\ SF_vars(ContextDone)

LiveSpec == Spec /\ Fairness

----------------------------------------------------------------------------
(* Properties.                                                             *)

(* "<-timer.C" never blocks: whenever Stop reports that the timer expired  *)
(* its tick has not been taken yet.  Were it otherwise the stream would    *)
(* hang, deaf to its channel and to its context.                           *)
DrainNeverBlocks == pc = "drain" => tick

(* No tick outlives the timer it came from: while the timer runs timer.C   *)
(* is empty, so that no heartbeat is sent before its time.                 *)
NoStaleTick == left > 0 => ~tick

(* The context does not end a write, so all the promises of a stream are   *)
(* made to clients that do not stall for ever.                             *)
StalledForGood == <>[](client = "stalled")

(* The heartbeat never dies: a stream gets to its end, or writes again and *)
(* again even when nothing is sent to it.                                  *)
KeepsBeating == []<>(quiet = 0 \/ pc = "done") \/ StalledForGood

(* Once the client is gone or the context is done the handler returns,     *)
(* whatever else there is to select from, and also when the client had     *)
(* stalled a write before it left; its subscriber is then unsubscribed.    *)
HandlerReturns == (client = "gone" \/ ctxDone ~> pc = "done") \/ StalledForGood

(* Every message put on the channel is written, unless the stream ends.    *)
EveryMessageWritten ==
  \/ \A n \in 1..MaxNotifications : sent >= n ~> (written >= n \/ pc = "done")
  \/ StalledForGood
=============================================================================
