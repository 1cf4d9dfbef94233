--------------------------- MODULE ServiceProofs ---------------------------
(***************************************************************************)
(* Theorems about Service, for every number of requests, every set of      *)
(* keys, policies and queries, and however often the gateway changes its   *)
(* mind.                                                                   *)
(***************************************************************************)
EXTENDS Service, TLAPS

(* The part of TypeOK that is about one variable at a time.                *)
Types ==
  /\ pc \in [Requests -> Pc]
  /\ req \in [Requests -> {Nil} \cup Request]
  /\ client \in [Requests -> {"reads", "stalled", "gone"}]
  /\ subscribers \in SUBSET Requests
  /\ forwarding \in BOOLEAN
  /\ listening \in BOOLEAN
  /\ probe \in {"idle", "kafka", "gateway"}
  /\ main \in Main
  /\ calling \subseteq onShutdown /\ cancelled \subseteq onShutdown
  /\ seen \in [Requests -> Seen]

GateInv == policies \in [Keys -> SUBSET XPolicy]

(* Where a handler is while the dispatcher has its subscriber.             *)
Subscribed == {"register", "stream", "unsubscribe"}

(* A type that the deployment supports.                                    *)
Served(t) ==
  \/ t \in contentTypesIncludedInAll \cup {defaultSubscriptionType}
  \/ \E s \in contentTypesSupported : EqualFold(s, t)

(* What was seen of the gateway during a request covers what the gateway   *)
(* would answer now.                                                       *)
SeenInv(r) ==
  req[r] # Nil =>
    /\ policies[req[r].query.key] \in seen[r].held
    /\ req[r].query.key \in valid => seen[r].valid

(* How much of the admission a handler has behind it.                      *)
AdmittedInv(r) ==
  /\ req[r] = Nil <=> pc[r] \in {"new", "done"}
  /\ r \in subscribers <=> pc[r] \in Subscribed
  /\ pc[r] \in {"policies", "subscribe"} \cup Subscribed => seen[r].valid
  /\ pc[r] \in {"subscribe"} \cup Subscribed =>
       \E P \in seen[r].held : req[r].opts = OptionsOf(P)
  /\ pc[r] \in Subscribed => req[r].types # {} /\ \A t \in req[r].types : Served(t)

(* A stream is known to the server; once the shutdown has begun its cancel *)
(* is called, or it came too late for that.                                *)
CancelInv(r) ==
  pc[r] = "stream" =>
    /\ r \in onShutdown
    /\ main = "running" \/ seen[r].late \/ r \in calling \cup cancelled

(* srv.Shutdown returned only when no request was being served, and none   *)
(* is let in after that.                                                   *)
CloseInv == main = "close" => Active = {}

IInv == /\ Types /\ GateInv /\ CloseInv
        /\ \A r \in Requests : SeenInv(r) /\ AdmittedInv(r) /\ CancelInv(r)

----------------------------------------------------------------------------
(* What GetNotificationSubscriptionOptions makes of policies is not nil.   *)
LEMMA OptionsType ==
  ASSUME NEW P
  PROVE  OptionsOf(P) \in NotificationSubscriptionOptions /\ OptionsOf(P) # Nil
<1>1. OptionsOf(P) \in NotificationSubscriptionOptions
  <2>1. \A a, b \in BOOLEAN :
          [ReceiveAdvancedNotifications |-> a, ReceiveInternalUnstable |-> b]
            \in NotificationSubscriptionOptions
    BY DEF NotificationSubscriptionOptions
  <2>2. /\ ("ADVANCED_NOTIFICATIONS" \in P) \in BOOLEAN
        /\ ("INTERNAL_UNSTABLE" \in P) \in BOOLEAN
    OBVIOUS
  <2> QED BY <2>1, <2>2, Zenon DEF OptionsOf
<1> QED BY <1>1, RequestsAssumption

(* resolveSubType yields spellings that the deployment supports.           *)
LEMMA ResolvedServed ==
  ASSUME NEW asked \in SUBSET TypeName
  PROVE  /\ resolveSubType(asked) \in SUBSET TypeName
         /\ \A t \in resolveSubType(asked) : Served(t)
<1>1. ASSUME NEW u \in asked, NEW t \in Expanded(u)
      PROVE  t \in TypeName /\ Served(t)
  BY <1>1, ContentTypesAssumption DEF Expanded, Served, EqualFold
<1> QED BY <1>1, ContentTypesAssumption DEF resolveSubType, Served

(* A request as it arrives, with options and with types is a request.      *)
LEMMA RequestType ==
  /\ \A q \in Query : [query |-> q, opts |-> Nil, types |-> {}] \in Request
  /\ \A d \in Request : /\ d # Nil /\ d.query \in Query /\ d.query.key \in Keys
                        /\ d.query.type \in SUBSET TypeName
  /\ \A d \in Request, o \in NotificationSubscriptionOptions :
       /\ [d EXCEPT !.opts = o] \in Request
       /\ [d EXCEPT !.opts = o].query = d.query
       /\ [d EXCEPT !.opts = o].opts = o
  /\ \A d \in Request, T \in SUBSET TypeName :
       /\ [d EXCEPT !.types = T] \in Request
       /\ [d EXCEPT !.types = T].query = d.query
       /\ [d EXCEPT !.types = T].opts = d.opts
       /\ [d EXCEPT !.types = T].types = T
<1>1. \A d \in Request : d # Nil
  BY RequestsAssumption DEF Request
<1> QED BY <1>1 DEF Request, Query

(* More is seen of the gateway; a stream is seen to be late or not.        *)
Saw(w, b, H) == [w EXCEPT !.valid = b, !.held = H]
Late(w, b) == [w EXCEPT !.late = b]

(* The observations keep their form.                                       *)
LEMMA SeenType ==
  /\ Nothing \in Seen
  /\ \A w \in Seen, b \in BOOLEAN, H \in SUBSET (SUBSET XPolicy) :
       /\ Saw(w, b, H) \in Seen
       /\ Saw(w, b, H).valid = b
       /\ Saw(w, b, H).held = H
       /\ Saw(w, b, H).late = w.late
  /\ \A w \in Seen, b \in BOOLEAN :
       /\ Late(w, b) \in Seen
       /\ Late(w, b).valid = w.valid
       /\ Late(w, b).held = w.held
       /\ Late(w, b).late = b
<1>1. Nothing \in Seen
  BY DEF Nothing, Seen
<1>2. ASSUME NEW w \in Seen, NEW b \in BOOLEAN, NEW H \in SUBSET (SUBSET XPolicy)
      PROVE  /\ Saw(w, b, H) \in Seen
             /\ Saw(w, b, H).valid = b
             /\ Saw(w, b, H).held = H
             /\ Saw(w, b, H).late = w.late
  BY Zenon DEF Seen, Saw
<1>3. ASSUME NEW w \in Seen, NEW b \in BOOLEAN
      PROVE  /\ Late(w, b) \in Seen
             /\ Late(w, b).valid = w.valid
             /\ Late(w, b).held = w.held
             /\ Late(w, b).late = b
  BY Zenon DEF Seen, Late
<1> QED BY <1>1, <1>2, <1>3, Zenon

----------------------------------------------------------------------------
(* The steps of a handler.                                                 *)

(* A step leaves a request and its handler as they are.                    *)
Untouched(t) ==
  /\ pc'[t] = pc[t] /\ req'[t] = req[t] /\ seen'[t] = seen[t]
  /\ t \in subscribers' <=> t \in subscribers
  /\ t \in onShutdown' <=> t \in onShutdown

(* What is not touched stays admitted, whatever else happens, as long as   *)
(* the gateway and the end of the service stay as they are.                *)
LEMMA UntouchedKept ==
  ASSUME NEW t \in Requests, SeenInv(t), AdmittedInv(t), CancelInv(t),
         Untouched(t), UNCHANGED <<policies, valid, main, calling, cancelled>>
  PROVE  SeenInv(t)' /\ AdmittedInv(t)' /\ CancelInv(t)'
BY DEF Untouched, SeenInv, AdmittedInv, CancelInv

(* A return leaves the types, touches nobody else and ends the request.    *)
LEMMA ReturnKept ==
  ASSUME IInv, NEW r \in Requests, Return(r), subscribers' = subscribers \ {r},
         UNCHANGED <<gateVars, srvVars>>
  PROVE  IInv'
<1> USE DEF gateVars, srvVars, endVars
<1>1. /\ pc' = [pc EXCEPT ![r] = "done"] /\ req' = [req EXCEPT ![r] = Nil]
      /\ client' = [client EXCEPT ![r] = "reads"]
      /\ seen' = [seen EXCEPT ![r] = Nothing] /\ forwarding' = forwarding
  BY DEF Return, Goto
<1>2. Types
  BY DEF IInv
<1>3. Types' /\ GateInv'
  BY <1>1, <1>2, SeenType DEF Types, Pc, IInv, GateInv
<1>4. ASSUME NEW t \in Requests PROVE SeenInv(t)' /\ AdmittedInv(t)' /\ CancelInv(t)'
  <2>1. CASE t # r
    <3>1. Untouched(t)
      BY <1>1, <1>2, <2>1 DEF Types, Untouched
    <3> QED BY <3>1, UntouchedKept DEF IInv
  <2>2. CASE t = r
    <3>1. pc'[r] = "done" /\ req'[r] = Nil /\ r \notin subscribers'
      BY <1>1, <1>2 DEF Types
    <3> QED BY <2>2, <3>1 DEF SeenInv, AdmittedInv, CancelInv, Subscribed
  <2> QED BY <2>1, <2>2
<1>5. CloseInv'
  BY <1>1, <1>2 DEF IInv, CloseInv, Active, Types
<1> QED BY <1>3, <1>4, <1>5 DEF IInv

(* So does going on, with data that the next place of the handler asks for.*)
LEMMA ProceedKept ==
  ASSUME IInv, NEW r \in Requests, NEW where \in Pc \ {"new", "done", "stream"},
         NEW data \in Request, Proceed(r, where, data),
         pc[r] \notin {"new", "done"}, data.query = req[r].query,
         \A t \in Requests \ {r} : t \in subscribers' <=> t \in subscribers,
         subscribers' \in SUBSET Requests,
         r \in subscribers' <=> where \in Subscribed,
         where \in {"policies", "subscribe"} \cup Subscribed => seen[r].valid,
         where \in {"subscribe"} \cup Subscribed =>
           \E P \in seen[r].held : data.opts = OptionsOf(P),
         where \in Subscribed => data.types # {} /\ \A t \in data.types : Served(t),
         UNCHANGED <<gateVars, srvVars>>
  PROVE  IInv'
<1> USE DEF gateVars, srvVars, endVars
<1>1. /\ pc' = [pc EXCEPT ![r] = where] /\ req' = [req EXCEPT ![r] = data]
      /\ UNCHANGED <<client, seen, forwarding>>
  BY DEF Proceed, Goto
<1>2. Types
  BY DEF IInv
<1>3. Types' /\ GateInv'
  BY <1>1, <1>2 DEF Types, IInv, GateInv
<1>4. ASSUME NEW t \in Requests PROVE SeenInv(t)' /\ AdmittedInv(t)' /\ CancelInv(t)'
  <2>1. CASE t # r
    <3>1. Untouched(t)
      BY <1>1, <1>2, <2>1 DEF Types, Untouched
    <3> QED BY <3>1, UntouchedKept DEF IInv
  <2>2. CASE t = r
    <3>1. pc'[r] = where /\ req'[r] = data /\ data # Nil /\ seen' = seen
      BY <1>1, <1>2, RequestType DEF Types
    <3>2. req[r] # Nil /\ SeenInv(r)
      BY DEF IInv, AdmittedInv
    <3> QED BY <2>2, <3>1, <3>2 DEF SeenInv, AdmittedInv, CancelInv, Subscribed
  <2> QED BY <2>1, <2>2
<1>5. CloseInv'
  BY <1>1, <1>2 DEF IInv, CloseInv, Active, Types
<1> QED BY <1>3, <1>4, <1>5 DEF IInv

(* The arrival of a request: nothing is granted yet.                       *)
LEMMA ArriveStep ==
  ASSUME IInv, NEW r \in Requests, Arrive(r)
  PROVE  IInv'
<1> USE DEF gateVars, srvVars, endVars
<1>1. PICK q \in Queries :
        /\ req' = [req EXCEPT ![r] = [query |-> q, opts |-> Nil, types |-> {}]]
        /\ seen' = [seen EXCEPT ![r].valid = q.key \in valid,
                                ![r].held = {policies[q.key]}]
  BY DEF Arrive
<1>2. /\ pc[r] = "new" /\ pc' = [pc EXCEPT ![r] = "validate"] /\ main # "close"
      /\ UNCHANGED <<client, subscribers, forwarding, gateVars, srvVars>>
  BY DEF Arrive, Goto, Serving
<1> DEFINE d == [query |-> q, opts |-> Nil, types |-> {}]
           b == q.key \in valid
           H == {policies[q.key]}
           w == Saw(seen[r], b, H)
<1>3. q \in Query /\ q.key \in Keys /\ d \in Request /\ d # Nil /\ d.query = q
  BY QueriesAssumption, RequestType DEF Query
<1>4. Types /\ seen[r] \in Seen
  BY DEF IInv, Types
<1>5. b \in BOOLEAN /\ H \in SUBSET (SUBSET XPolicy)
  BY <1>3 DEF IInv, GateInv
<1>6. seen' = [seen EXCEPT ![r] = w]
  BY <1>1, <1>4 DEF Types, Saw
<1> HIDE DEF b, H, d
<1>7. w \in Seen /\ w.valid = b /\ w.held = H
  BY <1>4, <1>5, SeenType
<1> HIDE DEF w
<1>8. /\ seen'[r] = w /\ pc'[r] = "validate" /\ req'[r] = d
      /\ \A t \in Requests : t # r => Untouched(t)
  BY <1>1, <1>2, <1>4, <1>6 DEF Types, Untouched, d
<1>9. Types' /\ GateInv'
  BY <1>1, <1>2, <1>3, <1>4, <1>6, <1>7 DEF Types, Pc, IInv, GateInv, d
<1>10. ASSUME NEW t \in Requests PROVE SeenInv(t)' /\ AdmittedInv(t)' /\ CancelInv(t)'
  <2>1. CASE t # r
    BY <1>2, <1>8, <2>1, UntouchedKept DEF IInv
  <2>2. CASE t = r
    <3>1. SeenInv(r)'
      BY <1>2, <1>3, <1>7, <1>8 DEF SeenInv, b, H
    <3>2. r \notin subscribers'
      BY <1>2 DEF IInv, AdmittedInv, Subscribed
    <3> QED BY <1>3, <1>8, <2>2, <3>1, <3>2 DEF AdmittedInv, CancelInv, Subscribed
  <2> QED BY <2>1, <2>2
<1>11. CloseInv'
  BY <1>2 DEF CloseInv
<1> QED BY <1>9, <1>10, <1>11 DEF IInv

(* The questions to the gateway: an answer was true during the request.    *)
LEMMA AskStep ==
  ASSUME IInv, NEW r \in Requests,
         Validate(r) \/ GetNotificationSubscriptionOptions(r) \/ AskAborted(r)
  PROVE  IInv'
<1> USE DEF gateVars, srvVars, endVars
<1>1. /\ pc[r] \in {"validate", "policies"} /\ req[r] \in Request
      /\ r \notin subscribers
      /\ SeenInv(r) /\ req[r] # Nil
  BY DEF IInv, Types, Validate, GetNotificationSubscriptionOptions, AskAborted,
         AdmittedInv, Subscribed
<1>2. UNCHANGED <<subscribers, gateVars, srvVars>>
  BY DEF Validate, GetNotificationSubscriptionOptions, AskAborted
<1>3. CASE Return(r)
  BY <1>1, <1>2, <1>3, ReturnKept
<1>4. CASE req[r].query.key \in valid /\ Proceed(r, "policies", req[r])
  <2>1. seen[r].valid
    BY <1>1, <1>4 DEF SeenInv
  <2> QED
    BY <1>1, <1>2, <1>4, <2>1, ProceedKept DEF Pc, Subscribed, IInv, Types
<1>5. CASE pc[r] = "policies" /\ Proceed(r, "subscribe", WithOptions(r))
  <2> DEFINE P == policies[req[r].query.key]
             d == WithOptions(r)
  <2>1. d \in Request /\ d.query = req[r].query /\ d.opts = OptionsOf(P)
    BY <1>1, RequestType, OptionsType DEF WithOptions
  <2>2. P \in seen[r].held /\ seen[r].valid
    BY <1>1, <1>5 DEF SeenInv, IInv, AdmittedInv
  <2> HIDE DEF P, d
  <2>3. Proceed(r, "subscribe", d)
    BY <1>5 DEF d
  <2> QED
    BY <1>1, <1>2, <2>1, <2>2, <2>3, ProceedKept DEF Pc, Subscribed, IInv, Types
<1> QED
  BY <1>3, <1>4, <1>5 DEF Validate, GetNotificationSubscriptionOptions, AskAborted

(* Dispatcher.Subscribe is given options and types that are supported.     *)
LEMMA SubscribeStep ==
  ASSUME IInv, NEW r \in Requests, Subscribe(r)
  PROVE  IInv'
<1> USE DEF gateVars, srvVars, endVars
<1> DEFINE params == SubTypes(r)
           d == [req[r] EXCEPT !.types = params]
<1>1. /\ pc[r] = "subscribe" /\ req[r] \in Request /\ r \notin subscribers
      /\ seen[r].valid /\ \E P \in seen[r].held : req[r].opts = OptionsOf(P)
      /\ UNCHANGED <<gateVars, srvVars>>
  BY DEF IInv, Types, Subscribe, AdmittedInv, Subscribed
<1>2. params \in SUBSET TypeName /\ \A t \in params : Served(t)
  BY <1>1, RequestType, ResolvedServed DEF SubTypes
<1>3. /\ params # {} /\ Proceed(r, "register", d)
      /\ subscribers' = subscribers \cup {r}
  BY DEF Subscribe
<1> HIDE DEF params
<1>4. /\ d \in Request /\ d.query = req[r].query /\ d.opts = req[r].opts
      /\ d.types = params
  BY <1>1, <1>2, RequestType
<1> HIDE DEF d
<1>5. subscribers' \in SUBSET Requests
  BY <1>3 DEF IInv, Types
<1> QED BY <1>1, <1>2, <1>3, <1>4, <1>5, ProceedKept DEF Pc, Subscribed

(* Without a subscriber the handler returns.                               *)
LEMMA RefuseStep ==
  ASSUME IInv, NEW r \in Requests, RefuseTypes(r) \/ SubscribeFails(r)
  PROVE  IInv'
<1>1. pc[r] = "subscribe" /\ Return(r) /\ UNCHANGED <<subscribers, gateVars, srvVars>>
  BY DEF RefuseTypes, SubscribeFails
<1>2. r \notin subscribers
  BY <1>1 DEF IInv, AdmittedInv, Subscribed
<1> QED BY <1>1, <1>2, ReturnKept

(* A stream that begins during the shutdown is late, any other is known.   *)
LEMMA RegisterStep ==
  ASSUME IInv, NEW r \in Requests, RegisterOnShutdown(r)
  PROVE  IInv'
<1> USE DEF gateVars
<1> DEFINE b == main # "running"
           w == Late(seen[r], b)
<1>1. /\ pc[r] = "register" /\ pc' = [pc EXCEPT ![r] = "stream"]
      /\ onShutdown' = onShutdown \cup {r}
      /\ seen' = [seen EXCEPT ![r] = w]
      /\ UNCHANGED <<req, client, subscribers, forwarding, gateVars, listening, probe,
                     main, calling, cancelled>>
  BY DEF RegisterOnShutdown, Goto, Late, IInv, Types
<1>2. Types /\ seen[r] \in Seen /\ AdmittedInv(r) /\ SeenInv(r)
  BY DEF IInv, Types
<1>3. b \in BOOLEAN
  OBVIOUS
<1>4. /\ w \in Seen /\ w.valid = seen[r].valid /\ w.held = seen[r].held
      /\ w.late = b
  BY <1>2, <1>3, SeenType
<1> HIDE DEF w
<1>5. /\ seen'[r] = w /\ pc'[r] = "stream" /\ req'[r] = req[r]
      /\ \A t \in Requests : t # r => Untouched(t)
  BY <1>1, <1>2 DEF Types, Untouched
<1>6. Types' /\ GateInv'
  BY <1>1, <1>2, <1>4 DEF Types, Pc, IInv, GateInv
<1>7. ASSUME NEW t \in Requests PROVE SeenInv(t)' /\ AdmittedInv(t)' /\ CancelInv(t)'
  <2>1. CASE t # r
    BY <1>1, <1>5, <2>1, UntouchedKept DEF IInv
  <2>2. CASE t = r
    <3>1. SeenInv(r)' /\ AdmittedInv(r)'
      BY <1>1, <1>2, <1>4, <1>5 DEF SeenInv, AdmittedInv, Subscribed
    <3>2. CancelInv(r)'
      BY <1>1, <1>4, <1>5 DEF CancelInv
    <3> QED BY <2>2, <3>1, <3>2
  <2> QED BY <2>1, <2>2
<1>8. CloseInv'
  BY <1>1, <1>2 DEF IInv, CloseInv, Active, Types
<1> QED BY <1>6, <1>7, <1>8 DEF IInv

(* The end of a stream keeps what the request was admitted with.           *)
LEMMA EndStreamStep ==
  ASSUME IInv, NEW r \in Requests, EndStream(r) \/ WriteFails(r)
  PROVE  IInv'
<1> USE DEF gateVars, srvVars, endVars
<1>1. /\ pc[r] = "stream" /\ pc' = [pc EXCEPT ![r] = "unsubscribe"]
      /\ UNCHANGED <<req, client, subscribers, forwarding, gateVars, srvVars, seen>>
  BY DEF EndStream, WriteFails, Goto
<1>2. Types /\ AdmittedInv(r) /\ SeenInv(r)
  BY DEF IInv
<1>3. pc'[r] = "unsubscribe" /\ \A t \in Requests : t # r => Untouched(t)
  BY <1>1, <1>2 DEF Types, Untouched
<1>4. Types' /\ GateInv'
  BY <1>1, <1>2 DEF Types, Pc, IInv, GateInv
<1>5. ASSUME NEW t \in Requests PROVE SeenInv(t)' /\ AdmittedInv(t)' /\ CancelInv(t)'
  <2>1. CASE t # r
    BY <1>1, <1>3, <2>1, UntouchedKept DEF IInv
  <2>2. CASE t = r
    BY <1>1, <1>2, <1>3, <2>2 DEF SeenInv, AdmittedInv, CancelInv, Subscribed
  <2> QED BY <2>1, <2>2
<1>6. CloseInv'
  BY <1>1, <1>2 DEF IInv, CloseInv, Active, Types
<1> QED BY <1>4, <1>5, <1>6 DEF IInv

(* Whatever the gateway changes is seen by the requests it is about.       *)
LEMMA ChangeKeyStep ==
  ASSUME IInv, NEW k \in Keys, ChangeKey(k)
  PROVE  IInv'
<1> USE DEF srvVars, endVars
<1>1. PICK P \in SUBSET XPolicy : policies' = [policies EXCEPT ![k] = P]
  <2>1. CASE UNCHANGED policies
    <3>1. policies \in [Keys -> SUBSET XPolicy]
      BY DEF IInv, GateInv
    <3> QED BY <2>1, <3>1
  <2> QED BY <2>1 DEF ChangeKey
<1>2. /\ \A x : x # k => (x \in valid' <=> x \in valid)
      /\ UNCHANGED <<pc, req, client, subscribers, forwarding, srvVars>>
  BY DEF ChangeKey
<1>3. Types /\ policies \in [Keys -> SUBSET XPolicy]
  BY DEF IInv, GateInv
<1>4. policies'[k] = P /\ \A x \in Keys : x # k => policies'[x] = policies[x]
  BY <1>1, <1>3
<1> DEFINE about(t) == req[t] # Nil /\ req[t].query.key = k
           b(t) == seen[t].valid \/ k \in valid'
           H(t) == seen[t].held \cup {P}
<1>5. seen' = [t \in Requests |-> IF about(t) THEN Saw(seen[t], b(t), H(t)) ELSE seen[t]]
  <2>1. seen' = [r \in Requests |->
          IF req[r] # Nil /\ req[r].query.key = k
          THEN [seen[r] EXCEPT !.valid = @ \/ k \in valid', !.held = @ \cup {policies'[k]}]
          ELSE seen[r]]
    BY DEF ChangeKey
  <2> QED BY <1>4, <2>1, Zenon DEF Saw
<1>6. ASSUME NEW t \in Requests
      PROVE  /\ seen[t] \in Seen /\ b(t) \in BOOLEAN
             /\ H(t) \in SUBSET (SUBSET XPolicy)
  <2>1. seen[t] \in Seen
    BY <1>3 DEF Types
  <2>2. H(t) \in SUBSET (SUBSET XPolicy)
    BY <2>1 DEF Seen
  <2>3. b(t) \in BOOLEAN
    OBVIOUS
  <2> QED BY <2>1, <2>2, <2>3
<1> HIDE DEF b, H
<1>7. ASSUME NEW t \in Requests
      PROVE  /\ seen'[t] \in Seen /\ seen'[t].late = seen[t].late
             /\ ~about(t) => seen'[t] = seen[t]
             /\ about(t) => seen'[t].valid = b(t) /\ seen'[t].held = H(t)
  <2>1. CASE about(t)
    <3>1. seen'[t] = Saw(seen[t], b(t), H(t))
      BY <1>5, <2>1
    <3> QED BY <1>6, <2>1, <3>1, SeenType
  <2>2. CASE ~about(t)
    BY <1>5, <1>6, <2>2
  <2> QED BY <2>1, <2>2
<1>8. Types' /\ GateInv'
  <2>1. seen' \in [Requests -> Seen]
    BY <1>5, <1>7
  <2>2. GateInv'
    BY <1>1, <1>3 DEF GateInv
  <2> QED BY <1>2, <1>3, <2>1, <2>2 DEF Types
<1>9. ASSUME NEW t \in Requests PROVE SeenInv(t)' /\ AdmittedInv(t)' /\ CancelInv(t)'
  <2>1. SeenInv(t) /\ AdmittedInv(t) /\ CancelInv(t)
    BY DEF IInv
  <2>2. CASE about(t)
    <3>1. /\ seen'[t].valid <=> seen[t].valid \/ k \in valid'
          /\ seen'[t].held = seen[t].held \cup {P}
      BY <1>7, <2>2 DEF b, H
    <3>2. SeenInv(t)'
      BY <1>2, <1>4, <2>2, <3>1 DEF SeenInv
    <3>3. AdmittedInv(t)'
      BY <1>2, <2>1, <3>1 DEF AdmittedInv
    <3>4. CancelInv(t)'
      BY <1>2, <1>7, <2>1 DEF CancelInv
    <3> QED BY <3>2, <3>3, <3>4
  <2>3. CASE ~about(t)
    <3>1. seen'[t] = seen[t]
      BY <1>7, <2>3
    <3>2. req[t] # Nil => req[t].query.key \in Keys /\ req[t].query.key # k
      BY <1>3, <2>3, RequestType DEF Types
    <3>3. SeenInv(t)'
      BY <1>2, <1>4, <2>1, <3>1, <3>2 DEF SeenInv
    <3> QED BY <1>2, <2>1, <3>1, <3>3 DEF AdmittedInv, CancelInv
  <2> QED BY <2>2, <2>3
<1>10. CloseInv'
  BY <1>2 DEF IInv, CloseInv, Active
<1> QED BY <1>8, <1>9, <1>10 DEF IInv

(* The client, the dispatcher's loop, the readiness probe and the end of   *)
(* the service leave the requests where they are.                          *)
LEMMA OutsideStep ==
  ASSUME IInv,
         \/ \E r \in Requests : Client(r) \/ CallCancel(r)
         \/ forwardToSubscribers \/ forwardReturns \/ ListenFails
         \/ GTG \/ checkKafkaConsumerReachable \/ checkAPIGatewayService
         \/ requestStatusTimeout
         \/ Shutdown \/ ShutdownReturns \/ Timeout \/ Exit
  PROVE  IInv'
<1> USE DEF gateVars, srvVars, endVars
<1>1. /\ UNCHANGED <<pc, req, subscribers, policies, valid, onShutdown, seen>>
      /\ Types
  BY DEF IInv, Client, CallCancel, Forwarding,
     forwardToSubscribers, forwardReturns, ListenFails, GTG, checkKafkaConsumerReachable,
     checkAPIGatewayService, requestStatusTimeout, ProbeTo, Shutdown,
     ShutdownReturns, Timeout, Exit, End
<1>2. client' \in [Requests -> {"reads", "stalled", "gone"}]
  BY <1>1 DEF Types, Client, Leave, Stall, CallCancel, Forwarding,
     forwardToSubscribers, forwardReturns, ListenFails, GTG,
     checkKafkaConsumerReachable, checkAPIGatewayService, requestStatusTimeout,
     ProbeTo, Shutdown, ShutdownReturns, Timeout, Exit, End
<1>3. /\ probe' \in {"idle", "kafka", "gateway"} /\ main' \in Main
      /\ calling' \subseteq onShutdown /\ cancelled' \subseteq onShutdown
      /\ listening' \in BOOLEAN /\ forwarding' \in BOOLEAN
  BY <1>1 DEF Types, Main, Client, CallCancel, Forwarding,
     forwardToSubscribers, forwardReturns, ListenFails, GTG,
     checkKafkaConsumerReachable, checkAPIGatewayService, requestStatusTimeout,
     ProbeTo, Shutdown, ShutdownReturns, Timeout, Exit, End
<1>4. Types' /\ GateInv'
  BY <1>1, <1>2, <1>3 DEF Types, IInv, GateInv
<1>5. ASSUME NEW t \in Requests PROVE SeenInv(t)' /\ AdmittedInv(t)' /\ CancelInv(t)'
  <2>1. SeenInv(t)' /\ AdmittedInv(t)'
    BY <1>1 DEF IInv, SeenInv, AdmittedInv
  <2>2. t \in onShutdown =>
          \/ main' = "running" /\ main = "running"
          \/ main # "running" /\ (t \in calling \cup cancelled
                                   => t \in calling' \cup cancelled')
          \/ t \in calling'
    BY DEF Client, CallCancel, Forwarding,
     forwardToSubscribers, forwardReturns, ListenFails, GTG,
       checkKafkaConsumerReachable, checkAPIGatewayService, requestStatusTimeout,
       ProbeTo, Shutdown, ShutdownReturns, Timeout, Exit, End
  <2>3. CancelInv(t)'
    BY <1>1, <2>2 DEF IInv, CancelInv
  <2> QED BY <2>1, <2>3
<1>6. CloseInv'
  BY <1>1 DEF IInv, CloseInv, Active, Client, CallCancel, Forwarding,
     forwardToSubscribers, forwardReturns, ListenFails, GTG,
     checkKafkaConsumerReachable, checkAPIGatewayService, requestStatusTimeout,
     ProbeTo, Shutdown, ShutdownReturns, Timeout, Exit, End
<1> QED BY <1>4, <1>5, <1>6 DEF IInv

----------------------------------------------------------------------------
LEMMA InitInv == Init => IInv
<1> SUFFICES ASSUME Init PROVE IInv
  OBVIOUS
<1>1. Types
  BY SeenType DEF Init, Types, Pc, Main
<1>2. GateInv
  BY DEF Init, GateInv
<1>3. CloseInv
  BY DEF Init, CloseInv
<1>4. ASSUME NEW r \in Requests PROVE SeenInv(r) /\ AdmittedInv(r) /\ CancelInv(r)
  BY DEF Init, SeenInv, AdmittedInv, CancelInv, Subscribed
<1> QED BY <1>1, <1>2, <1>3, <1>4 DEF IInv

LEMMA NextInv == IInv /\ [Next]_vars => IInv'
<1> SUFFICES ASSUME IInv, [Next]_vars PROVE IInv'
  OBVIOUS
<1>1. ASSUME NEW r \in Requests, Unsubscribe(r) PROVE IInv'
  BY <1>1, ReturnKept DEF Unsubscribe
<1>2. CASE UNCHANGED vars
  BY <1>2 DEF vars, IInv, Types, GateInv, CloseInv, Active, SeenInv, AdmittedInv,
     CancelInv
<1>3. CASE Next
  <2>1. CASE \E r \in Requests :
               \/ Arrive(r) \/ Validate(r) \/ GetNotificationSubscriptionOptions(r)
               \/ AskAborted(r) \/ RefuseTypes(r) \/ SubscribeFails(r) \/ Subscribe(r)
               \/ RegisterOnShutdown(r) \/ EndStream(r) \/ WriteFails(r) \/ Unsubscribe(r)
    BY <1>1, <2>1, ArriveStep, AskStep, RefuseStep, SubscribeStep, RegisterStep,
       EndStreamStep
  <2>2. CASE \E k \in Keys \ {""} : ChangeKey(k)
    BY <2>2, ChangeKeyStep
  <2> QED BY <1>3, <2>1, <2>2, OutsideStep DEF Next
<1> QED BY <1>2, <1>3

(* The inductive invariant: the handlers' progress, what was seen of the   *)
(* gateway, and which streams the server will cancel.                      *)
THEOREM Invariance == Spec => []IInv
<1> QED BY InitInv, NextInv, PTL DEF Spec

(* The types, and that forwardToSubscribers dereferences options that are  *)
(* there: whoever HandleSubscription subscribes has them, and asked for at *)
(* least one type.                                                         *)
THEOREM TypeCorrect == Spec => []TypeOK
<1>1. IInv => TypeOK
  <2> SUFFICES ASSUME IInv PROVE TypeOK
    OBVIOUS
  <2>1. ASSUME NEW r \in subscribers
        PROVE  req[r] # Nil /\ req[r].opts # Nil /\ req[r].types # {}
    BY OptionsType DEF IInv, Types, AdmittedInv, Subscribed
  <2> QED BY <2>1 DEF IInv, Types, TypeOK
<1> QED BY <1>1, Invariance, PTL

(* HandleSubscription subscribes only whom the gateway let in during this  *)
(* request, with options it granted then and types the deployment serves.  *)
THEOREM AdmissionHolds == Spec => []Admission
<1>1. IInv => Admission
  BY DEF IInv, Types, AdmittedInv, Subscribed, Served, Admission
<1> QED BY <1>1, Invariance, PTL

(* Where srv.Shutdown returns by itself the dispatcher has no subscriber.  *)
THEOREM QuietEndHolds == Spec => []QuietEnd
<1>1. IInv => QuietEnd
  BY DEF IInv, Types, CloseInv, AdmittedInv, Active, Subscribed, QuietEnd
<1> QED BY <1>1, Invariance, PTL

(* srv.Shutdown gives up only for the gateway, for Kafka, for a client     *)
(* that does not read, for the policy agent, which keeps the lock from     *)
(* Subscribe and Unsubscribe, or for a stream that was registered too late.*)
THEOREM TimeoutHasCauseHolds == Spec => TimeoutHasCause
<1> DEFINE Cause == \/ probe # "idle"
                    \/ \E r \in Requests :
                         \/ pc[r] \in {"validate", "policies"} /\ client[r] # "gone"
                         \/ pc[r] \in {"subscribe", "unsubscribe"} /\ forwarding
                         \/ pc[r] = "stream" /\ (seen[r].late \/ client[r] = "stalled")
<1>1. ASSUME IInv, Timeout PROVE Cause
  <2>1. CASE probe # "idle"
    BY <2>1
  <2>2. CASE Active # {}
    <3>1. PICK r \in Requests : pc[r] \notin {"new", "done"}
      BY <2>2 DEF Active
    <3>2. ~Moving(r) /\ main = "shutdown" /\ CancelInv(r) /\ pc[r] \in Pc
      BY <1>1 DEF Timeout, End, IInv, Types
    <3>3. CASE pc[r] = "stream"
      BY <3>2, <3>3 DEF Moving, ContextDone, CancelInv
    <3>4. CASE pc[r] \in {"validate", "policies"}
      BY <3>2, <3>4 DEF Moving
    <3> QED BY <3>1, <3>2, <3>3, <3>4 DEF Moving, Pc
  <2> QED BY <1>1, <2>1, <2>2 DEF Timeout
<1>2. ASSUME [Next]_vars, main = "shutdown", main' = "timedOut" PROVE Timeout
  BY <1>2 DEF Next, vars, gateVars, srvVars, endVars, Arrive, Validate,
     GetNotificationSubscriptionOptions, AskAborted, RefuseTypes, SubscribeFails,
     Subscribe, RegisterOnShutdown, EndStream, WriteFails, Unsubscribe, ChangeKey,
     Client, CallCancel, Forwarding, forwardToSubscribers, forwardReturns,
     ListenFails, GTG,
     checkKafkaConsumerReachable, checkAPIGatewayService, requestStatusTimeout,
     ProbeTo, Shutdown, ShutdownReturns, Exit, End
<1>3. IInv /\ [Next]_vars => [main = "shutdown" /\ main' = "timedOut" => Cause]_vars
  BY <1>1, <1>2
<1> QED BY <1>3, Invariance, PTL DEF Spec, TimeoutHasCause
=============================================================================
