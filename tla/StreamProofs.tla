---------------------------- MODULE StreamProofs ----------------------------
(* The timer of a push stream, for every period, buffer and bound.         *)
EXTENDS Stream, TLAPS

(* While the handler may come to drain the timer, the timer either runs or *)
(* has left a tick; while a heartbeat is written it has done neither.      *)
TimerInv ==
  /\ tick => left = 0
  /\ pc \in {"hello", "select", "notification"} /\ left = 0 => tick
  /\ pc = "drain" => tick
  /\ pc = "heartbeat" => left = 0 /\ ~tick

IInv == TypeOK /\ TimerInv

(* The timer of a new stream runs, and every step keeps the invariant.     *)
THEOREM TimerInvariance == Spec => []IInv
<1> USE PeriodAssumption, BufferAssumption, MaxAssumption
<1>1. Init => IInv
  <2> SUFFICES ASSUME Init PROVE IInv
    OBVIOUS
  <2>1. tick \in BOOLEAN /\ ctxDone \in BOOLEAN
    BY Zenon DEF Init
  <2> QED BY <2>1 DEF Init, IInv, TypeOK, TimerInv, Pc
<1>2. IInv /\ [Next]_vars => IInv'
  <2> SUFFICES ASSUME IInv, [Next]_vars PROVE IInv'
    OBVIOUS
  <2> USE DEF IInv, TypeOK, TimerInv, Pc
  <2>1. CASE Elapse
    <3>1. tick' \in BOOLEAN
      BY <2>1, Zenon DEF Elapse
    <3>2. tick' <=> tick \/ left = 1
      BY <2>1, Zenon DEF Elapse
    <3>3. left' = 0 <=> left = 0 \/ left = 1
      BY <2>1 DEF Elapse
    <3>4. TimerInv'
      BY <2>1, <3>2, <3>3 DEF Elapse
    <3> QED BY <2>1, <3>1, <3>4 DEF Elapse
  <2>2. CASE Notify
    BY <2>2 DEF Notify, HasRoom
  <2>3. CASE Cancel
    BY <2>3 DEF Cancel
  <2>4. CASE WriteFails
    BY <2>4 DEF WriteFails
  <2>5. CASE HelloWritten
    BY <2>5 DEF HelloWritten
  <2>6. CASE TakeNotification
    BY <2>6 DEF TakeNotification
  <2>7. CASE NotificationWritten
    BY <2>7 DEF NotificationWritten, StopTimer, Reset
  <2>8. CASE Drain
    <3>1. ~tick' /\ tick' \in BOOLEAN
      BY <2>8, Zenon DEF Drain
    <3> QED BY <2>8, <3>1 DEF Drain, Reset
  <2>9. CASE TakeTick
    BY <2>9 DEF TakeTick
  <2>10. CASE HeartbeatWritten
    BY <2>10 DEF HeartbeatWritten, Reset
  <2>11. CASE ContextDone
    BY <2>11 DEF ContextDone
  <2>12. CASE Client
    BY <2>12 DEF Client, Stall, Resume, Leave
  <2>13. CASE UNCHANGED vars
    BY <2>13 DEF vars
  <2> QED
    BY <2>1, <2>2, <2>3, <2>4, <2>5, <2>6, <2>7, <2>8, <2>9, <2>10, <2>11, <2>12,
       <2>13
       DEF Next, Step
<1> QED BY <1>1, <1>2, PTL DEF Spec

(* The channel never holds more than notificationBuffer messages, and the  *)
(* timer never runs for longer than heartbeatPeriod.                       *)
THEOREM TypeCorrect == Spec => []TypeOK
<1>1. IInv => TypeOK
  BY DEF IInv
<1> QED BY <1>1, TimerInvariance, PTL

(* The handler never hangs in "<-timer.C".                                 *)
THEOREM DrainNeverBlocksHolds == Spec => []DrainNeverBlocks
<1>1. IInv => DrainNeverBlocks
  BY DEF IInv, TimerInv, DrainNeverBlocks
<1> QED BY <1>1, TimerInvariance, PTL

(* No heartbeat comes from a timer that was reset.                         *)
THEOREM NoStaleTickHolds == Spec => []NoStaleTick
<1>1. IInv => NoStaleTick
  BY DEF IInv, TypeOK, TimerInv, NoStaleTick
<1> QED BY <1>1, TimerInvariance, PTL
=============================================================================
