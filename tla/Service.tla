------------------------------ MODULE Service ------------------------------
(***************************************************************************)
(* SubHandler.HandleSubscription, from the arrival of a request to its     *)
(* end, the API gateway it asks, and the end of the service: the function  *)
(* that startService returns and http.Server.Shutdown.                     *)
(*                                                                         *)
(* The dispatcher appears as the set of subscribers, the step of Stop, and *)
(* the loop while it asks the policy agent, when it holds the lock and     *)
(* does not take the stop (module Dispatcher); the stream as the wait for  *)
(* the end of its context or a failed write (module Stream).  The          *)
(* gateway's opinion of a key changes at any time, also between the two    *)
(* questions a request asks about it.                                      *)
(***************************************************************************)
EXTENDS Notifications

CONSTANTS
  Requests,                  \* subscription requests
  Keys,                      \* API keys, "" for none
  Queries,                   \* what a request can ask for
  XPolicy,                   \* the policies that the gateway has for keys
  contentTypesIncludedInAll,
  contentTypesSupported,
  defaultSubscriptionType,
  MaxChanges                 \* bound on the changes of keys at the gateway

Query == [key : Keys, type : SUBSET TypeName]

ASSUME QueriesAssumption == Queries \subseteq Query
ASSUME ContentTypesAssumption ==
  /\ contentTypesIncludedInAll \subseteq TypeName
  /\ contentTypesSupported \subseteq TypeName
  /\ defaultSubscriptionType \in TypeName
ASSUME RequestsAssumption ==
  /\ Nil \notin NotificationSubscriptionOptions
  /\ Nil \notin [query : Query, types : SUBSET TypeName,
                opts : {Nil} \cup NotificationSubscriptionOptions]

VARIABLES
  (* the request handlers *)
  pc,          \* where a handler is
  req,         \* its request and its local variables, Nil when it has none
  client,      \* reads, has stalled a write of the stream, or is gone
  (* the dispatcher *)
  subscribers, \* its map
  forwarding,  \* its loop is in forwardToSubscribers, with the read lock
  (* the API gateway *)
  policiesURL, \* whether an endpoint for policies is configured
  valid,       \* the keys it accepts
  policies,    \* the policies of each key
  changes,     \* how often it changed its mind
  (* the server, the readiness probe and the end of the service *)
  listening,   \* ListenAndServe has not failed
  probe,       \* where the handler of /__gtg is
  main,        \* where the function is that ends the service
  onShutdown,  \* the requests whose cancel the server will call
  calling,     \* goroutines of the server that are about to call one
  cancelled,   \* requests whose cancel was called
  (* observations: what happened during a request *)
  seen

gateVars == <<policiesURL, valid, policies, changes>>
endVars  == <<main, onShutdown, calling, cancelled>>
srvVars  == <<listening, probe, endVars>>

vars == <<pc, req, client, subscribers, forwarding, policiesURL, valid, policies,
          changes, listening, probe, main, onShutdown, calling, cancelled, seen>>

Pc == {"new", "validate", "policies", "subscribe", "register", "stream",
       "unsubscribe", "done"}
Main == {"running", "shutdown", "timedOut", "close", "exited"}

(* subscriptionOptions and subscriptionParams are made on the way.         *)
Request == [query : Query, opts : {Nil} \cup NotificationSubscriptionOptions,
            types : SUBSET TypeName]

(* The key was valid at some time of the request, the sets of policies it  *)
(* had, and whether the stream was registered when the server had called   *)
(* what was registered already.                                            *)
Seen == [valid : BOOLEAN, held : SUBSET (SUBSET XPolicy), late : BOOLEAN]
Nothing == [valid |-> FALSE, held |-> {}, late |-> FALSE]

OptionsOf(P) ==
  [ReceiveAdvancedNotifications |-> "ADVANCED_NOTIFICATIONS" \in P,
   ReceiveInternalUnstable      |-> "INTERNAL_UNSTABLE" \in P]

Init ==
  /\ pc = [r \in Requests |-> "new"]
  /\ req = [r \in Requests |-> Nil]
  /\ client = [r \in Requests |-> "reads"]
  /\ subscribers = {}
  /\ forwarding = FALSE
  /\ policiesURL \in BOOLEAN
  /\ valid = Keys \ {""}
  /\ policies = [k \in Keys |-> {}]
  /\ changes = 0
  /\ listening = TRUE
  /\ probe = "idle"
  /\ main = "running"
  /\ onShutdown = {}
  /\ calling = {}
  /\ cancelled = {}
  /\ seen = [r \in Requests |-> Nothing]

----------------------------------------------------------------------------
(* HandleSubscription.                                                     *)

(* A step of a handler, not of the dispatcher's loop; there is none once   *)
(* the process has ended.                                                  *)
Goto(r, where) ==
  /\ main # "exited"
  /\ pc' = [pc EXCEPT ![r] = where]
  /\ UNCHANGED forwarding

(* The handler goes on with what it has found out ...                      *)
Proceed(r, where, data) ==
  /\ Goto(r, where)
  /\ req' = [req EXCEPT ![r] = data]
  /\ UNCHANGED <<client, seen>>

(* ... or returns; what becomes of its client is no longer followed.  The  *)
(* status code tells the client which early return it was, and nobody else.*)
Return(r) ==
  /\ Goto(r, "done")
  /\ req' = [req EXCEPT ![r] = Nil]
  /\ client' = [client EXCEPT ![r] = "reads"]
  /\ seen' = [seen EXCEPT ![r] = Nothing]

(* The server brings requests: one that was accepted before the shutdown   *)
(* may still do so during it.                                              *)
Serving == listening /\ main \in {"running", "shutdown"}

Arrive(r) ==
  /\ Serving
  /\ pc[r] = "new"
  /\ \E q \in Queries :
       /\ req' = [req EXCEPT ![r] = [query |-> q, opts |-> Nil, types |-> {}]]
       /\ seen' = [seen EXCEPT ![r].valid = q.key \in valid,
                               ![r].held = {policies[q.key]}]
  /\ Goto(r, "validate")
  /\ UNCHANGED <<client, subscribers, gateVars, srvVars>>

(* Mutant: what the gateway says of the key is logged only.                *)
ValidateUnchecked(r) ==
  /\ pc[r] = "validate"
  /\ IF req[r].query.key = "" THEN Return(r) ELSE Proceed(r, "policies", req[r])
  /\ UNCHANGED <<subscribers, gateVars, srvVars>>

(* KeyProcessor.Validate: no key (401), or the gateway's answer; the same  *)
(* status for a refusal of the gateway, 500 when it cannot be asked.       *)
Validate(r) ==
  /\ pc[r] = "validate"
  /\ LET key == req[r].query.key IN
     \/ key \in valid \ {""} /\ Proceed(r, "policies", req[r])
     \/ Return(r)
  /\ UNCHANGED <<subscribers, gateVars, srvVars>>

(* The local variables once the policies of the key are known.             *)
WithOptions(r) == [req[r] EXCEPT !.opts = OptionsOf(policies[req[r].query.key])]

(* Mutant: the missing return after a failed request for the policies.     *)
GetOptionsUnchecked(r) ==
  /\ pc[r] = "policies"
  /\ Proceed(r, "subscribe", WithOptions(r)) \/ Proceed(r, "subscribe", req[r])
  /\ UNCHANGED <<subscribers, gateVars, srvVars>>

(* PolicyProcessor.GetNotificationSubscriptionOptions.  The gateway may    *)
(* refuse or fail, also for a key it has just validated; without a URL a   *)
(* nil is dereferenced and the request ends without a response.            *)
GetNotificationSubscriptionOptions(r) ==
  /\ pc[r] = "policies"
  /\ \/ policiesURL /\ Proceed(r, "subscribe", WithOptions(r))
     \/ Return(r)
  /\ UNCHANGED <<subscribers, gateVars, srvVars>>

(* Mutant: the gateway is asked with a context of its own.                 *)
AskOnRegardless(r) == FALSE /\ UNCHANGED vars

(* The questions to the gateway carry the request's context: when the      *)
(* client is gone the one that is open fails, and the handler returns.     *)
AskAborted(r) ==
  /\ pc[r] \in {"validate", "policies"}
  /\ client[r] = "gone"
  /\ Return(r)
  /\ UNCHANGED <<subscribers, gateVars, srvVars>>

EqualFold(s, t) == ToLower[s] = ToLower[t]

(* What one value of the "type" parameter stands for; nothing if it is not *)
(* supported.                                                              *)
Expanded(t) ==
  IF ToLower[t] = "all" THEN contentTypesIncludedInAll
  ELSE {u \in {t} : \E s \in contentTypesSupported : EqualFold(u, s)}

(* The error of resolveSubType is the empty set here.                      *)
resolveSubType(asked) ==
  IF asked = {} THEN {defaultSubscriptionType} ELSE UNION {Expanded(t) : t \in asked}

SubTypes(r) == resolveSubType(req[r].query.type)

(* The error of resolveSubType (400) ...                                   *)
RefuseTypes(r) ==
  /\ pc[r] = "subscribe"
  /\ SubTypes(r) = {}
  /\ Return(r)
  /\ UNCHANGED <<subscribers, gateVars, srvVars>>

(* ... or of Dispatcher.Subscribe, which could not make a subscriber (500).*)
SubscribeFails(r) ==
  /\ pc[r] = "subscribe"
  /\ SubTypes(r) # {}
  /\ Return(r)
  /\ UNCHANGED <<subscribers, gateVars, srvVars>>

(* Dispatcher.Subscribe, once it has the lock.                             *)
Subscribe(r) ==
  /\ pc[r] = "subscribe"
  /\ SubTypes(r) # {}
  /\ ~forwarding
  /\ Proceed(r, "register", [req[r] EXCEPT !.types = SubTypes(r)])
  /\ subscribers' = subscribers \cup {r}
  /\ UNCHANGED <<gateVars, srvVars>>

(* Mutant: the server is not told of the stream.                           *)
RegisterForgotten(r) ==
  /\ pc[r] = "register"
  /\ Goto(r, "stream")
  /\ seen' = [seen EXCEPT ![r].late = main # "running"]
  /\ UNCHANGED <<req, client, subscribers, gateVars, srvVars>>

(* context.WithCancel and RegisterOnShutdown; the stream begins.           *)
RegisterOnShutdown(r) ==
  /\ pc[r] = "register"
  /\ Goto(r, "stream")
  /\ onShutdown' = onShutdown \cup {r}
  /\ seen' = [seen EXCEPT ![r].late = main # "running"]
  /\ UNCHANGED <<req, client, subscribers, gateVars, listening, probe, main, calling,
                 cancelled>>

(* Mutant: the context of the stream is not derived from the request's.    *)
ContextDoneByServer(r) == r \in cancelled

ContextDone(r) == client[r] = "gone" \/ r \in cancelled

(* listenForNotifications returns at the end of its context, which it does *)
(* not see while it is in a write (module Stream) ...                      *)
EndStream(r) ==
  /\ pc[r] = "stream"
  /\ ContextDone(r)
  /\ client[r] # "stalled"
  /\ Goto(r, "unsubscribe")
  /\ UNCHANGED <<req, client, subscribers, gateVars, srvVars, seen>>

(* ... or after a write that failed.                                       *)
WriteFails(r) ==
  /\ pc[r] = "stream"
  /\ Goto(r, "unsubscribe")
  /\ UNCHANGED <<req, client, subscribers, gateVars, srvVars, seen>>

(* Mutant: the missing "defer Unsubscribe".                                *)
UnsubscribeForgotten(r) ==
  /\ pc[r] = "unsubscribe"
  /\ Return(r)
  /\ UNCHANGED <<subscribers, gateVars, srvVars>>

(* The deferred Unsubscribe, once it has the lock.                         *)
Unsubscribe(r) ==
  /\ pc[r] = "unsubscribe"
  /\ ~forwarding
  /\ subscribers' = subscribers \ {r}
  /\ Return(r)
  /\ UNCHANGED <<gateVars, srvVars>>

(* The client closes the connection, at any time; or it stops reading from *)
(* its stream, not to begin again (a pause is a step that takes longer).   *)
Leave(r)  == client[r] # "gone" /\ client' = [client EXCEPT ![r] = "gone"]
Stall(r)  == /\ pc[r] = "stream" /\ client[r] = "reads"
             /\ client' = [client EXCEPT ![r] = "stalled"]

Client(r) ==
  /\ main # "exited"
  /\ pc[r] \notin {"new", "done"}
  /\ Leave(r) \/ Stall(r)
  /\ UNCHANGED <<pc, req, subscribers, forwarding, gateVars, srvVars, seen>>

(* A key is revoked or admitted again, or is given other policies.         *)
ChangeKey(k) ==
  /\ main # "exited"
  /\ changes < MaxChanges
  /\ changes' = changes + 1
  /\ \/ /\ valid' = IF k \in valid THEN valid \ {k} ELSE valid \cup {k}
        /\ UNCHANGED policies
     \/ /\ \E P \in SUBSET XPolicy \ {policies[k]} : policies' = [policies EXCEPT ![k] = P]
        /\ UNCHANGED valid
  /\ seen' = [r \in Requests |->
       IF req[r] # Nil /\ req[r].query.key = k
       THEN [seen[r] EXCEPT !.valid = @ \/ k \in valid', !.held = @ \cup {policies'[k]}]
       ELSE seen[r]]
  /\ UNCHANGED <<pc, req, client, subscribers, forwarding, policiesURL, srvVars>>

----------------------------------------------------------------------------
(* The dispatcher's loop takes a notification, gets the lock and asks the  *)
(* agent; nothing limits how long it waits for the answer.                 *)
Forwarding(from, to) ==
  /\ main # "exited"
  /\ forwarding = from
  /\ forwarding' = to
  /\ UNCHANGED <<pc, req, client, subscribers, gateVars, srvVars, seen>>

forwardToSubscribers == Forwarding(FALSE, TRUE)

(* The agent has answered or failed, and forwardToSubscribers returns.     *)
forwardReturns == Forwarding(TRUE, FALSE)

----------------------------------------------------------------------------
(* The server and the readiness probe.                                     *)

(* ListenAndServe fails, the port being taken: the error is logged, and    *)
(* the service goes on without its server.                                 *)
ListenFails ==
  /\ main = "running" /\ listening
  /\ probe = "idle" /\ \A r \in Requests : pc[r] = "new"
  /\ listening' = FALSE
  /\ UNCHANGED <<pc, req, client, subscribers, forwarding, gateVars, probe, endVars, seen>>

ProbeTo(where) ==
  /\ main # "exited"
  /\ probe' = where
  /\ UNCHANGED <<pc, req, client, subscribers, forwarding, gateVars, listening,
                 endVars, seen>>

(* HealthCheck.GTG asks Kafka, and if that answers well the gateway; its   *)
(* own answer, after an error of the one or whatever the other says, is    *)
(* the return to "idle".                                                   *)
GTG == Serving /\ probe = "idle" /\ ProbeTo("kafka")

checkKafkaConsumerReachable == probe = "kafka" /\ (ProbeTo("gateway") \/ ProbeTo("idle"))

checkAPIGatewayService == probe = "gateway" /\ ProbeTo("idle")

(* Mutant: an HTTP client without a timeout, like the one of the access    *)
(* package.                                                                *)
requestStatusNoTimeout == FALSE /\ UNCHANGED vars

(* The 15 seconds of the HTTP client in requestStatusCode are over.        *)
requestStatusTimeout == probe = "gateway" /\ ProbeTo("idle")

----------------------------------------------------------------------------
(* The end of the service.                                                 *)

Active == {r \in Requests : pc[r] \notin {"new", "done"}}

End(from, to) ==
  /\ main = from
  /\ main' = to
  /\ UNCHANGED <<pc, req, client, subscribers, forwarding, gateVars, listening, probe,
                 onShutdown, cancelled, seen>>

(* The signal, and the beginning of srv.Shutdown: the server starts a      *)
(* goroutine for each function that is registered at this moment.          *)
Shutdown ==
  /\ End("running", "shutdown")
  /\ calling' = onShutdown

CallCancel(r) ==
  /\ main # "exited"
  /\ r \in calling
  /\ calling' = calling \ {r}
  /\ cancelled' = cancelled \cup {r}
  /\ UNCHANGED <<pc, req, client, subscribers, forwarding, gateVars, listening, probe,
                 main, onShutdown, seen>>

(* srv.Shutdown returns when no request is being served.                   *)
ShutdownReturns ==
  /\ Active = {} /\ probe = "idle"
  /\ End("shutdown", "close")
  /\ UNCHANGED calling

(* A handler that does not depend on the gateway, a client or the lock.    *)
(* The 30 seconds of the timeout are long for these steps, not for others. *)
Moving(r) ==
  \/ r \in calling
  \/ pc[r] = "register"
  \/ pc[r] \in {"subscribe", "unsubscribe"} /\ ~forwarding
  \/ pc[r] \in {"validate", "policies"} /\ client[r] = "gone"
  \/ pc[r] = "stream" /\ ContextDone(r) /\ client[r] # "stalled"

(* Mutant: a shutdown without a timeout.                                   *)
TimeoutNever == FALSE /\ UNCHANGED vars

(* srv.Shutdown gives up.                                                  *)
Timeout ==
  /\ Active # {} \/ probe # "idle"
  /\ \A r \in Requests : ~Moving(r)
  /\ End("shutdown", "timedOut")
  /\ UNCHANGED calling

(* consumer.Close, whose error is logged only, and Dispatcher.Stop, which  *)
(* the loop has to take; then main returns, with whatever is running.      *)
Exit ==
  /\ ~forwarding
  /\ End("close", "exited") \/ End("timedOut", "exited")
  /\ UNCHANGED calling

----------------------------------------------------------------------------
Next ==
  \/ \E r \in Requests :
       \/ Arrive(r) \/ Validate(r) \/ GetNotificationSubscriptionOptions(r)
       \/ AskAborted(r) \/ RefuseTypes(r) \/ SubscribeFails(r) \/ Subscribe(r)
       \/ RegisterOnShutdown(r) \/ EndStream(r) \/ WriteFails(r) \/ Unsubscribe(r)
       \/ Client(r) \/ CallCancel(r)
  \/ forwardToSubscribers \/ forwardReturns
  \/ \E k \in Keys \ {""} : ChangeKey(k)
  \/ ListenFails
  \/ GTG \/ checkKafkaConsumerReachable \/ checkAPIGatewayService
  \/ requestStatusTimeout
  \/ Shutdown \/ ShutdownReturns \/ Timeout \/ Exit

Spec == Init /\ [][Next]_vars

(* Fairness.  Goroutines that can run do run: the shutdown function, the   *)
(* calls of cancel, and a handler where it waits for nobody.  Whoever      *)
(* waits for the dispatcher's lock, or for its loop to take the stop, gets *)
(* there if it is free again and again (SubscribeReturns, StopReturns and  *)
(* UnsubscribeReturns of module Dispatcher).  The Kafka library returns    *)
(* from its check and from Close.  Nothing is assumed of the gateway and   *)
(* of the policy agent, which may never answer, nor of the clients.        *)
Fairness ==
  /\ WF_vars(ShutdownReturns \/ Timeout)
  /\ SF_vars(Exit)
  /\ WF_vars(checkKafkaConsumerReachable)
  /\ WF_vars(requestStatusTimeout)
  /\ \A r \in Requests :
       /\ WF_vars(CallCancel(r))
       /\ WF_vars(AskAborted(r) \/ RefuseTypes(r) \/ RegisterOnShutdown(r) \/ EndStream(r))
       /\ SF_vars(Subscribe(r) \/ Unsubscribe(r))

LiveSpec == Spec /\ Fairness
----------------------------------------------------------------------------
(* Properties.                                                             *)

(* The types; and a subscriber has options, which forwardToSubscribers     *)
(* dereferences.                                                           *)
TypeOK ==
  /\ pc \in [Requests -> Pc]
  /\ req \in [Requests -> {Nil} \cup Request]
  /\ client \in [Requests -> {"reads", "stalled", "gone"}]
  /\ subscribers \in SUBSET Requests
  /\ forwarding \in BOOLEAN
  /\ \A r \in subscribers : req[r] # Nil /\ req[r].opts # Nil /\ req[r].types # {}
  /\ listening \in BOOLEAN
  /\ probe \in {"idle", "kafka", "gateway"}
  /\ main \in Main
  /\ calling \subseteq onShutdown /\ cancelled \subseteq onShutdown
  /\ seen \in [Requests -> Seen]

(* Who is subscribed has been let in: the key was valid and had just the   *)
(* policies of the options at some time of this very request, though they  *)
(* may have changed between the questions or since; and the types are ones *)
(* that the deployment supports (HandleSubscription).                      *)
Admission ==
  \A r \in subscribers :
    /\ seen[r].valid
    /\ \E P \in seen[r].held : req[r].opts = OptionsOf(P)
    /\ \A t \in req[r].types :
         \/ t \in contentTypesIncludedInAll \cup {defaultSubscriptionType}
         \/ \E s \in contentTypesSupported : EqualFold(s, t)

(* When srv.Shutdown has not given up, the consumer is closed and the      *)
(* dispatcher stopped with no subscriber left in its map.                  *)
QuietEnd == main = "close" => subscribers = {}

(* Shutdown runs into its timeout only because somebody else lets a        *)
(* request wait: the gateway, Kafka, a client that has stalled, or the     *)
(* policy agent, whose answer the loop awaits with the lock that Subscribe *)
(* and Unsubscribe need; or because a stream was registered after the      *)
(* server had called what was registered.  A stream that was open and is   *)
(* read from is ended in time.                                             *)
TimeoutHasCause ==
  [][main = "shutdown" /\ main' = "timedOut" =>
       \/ probe # "idle"
       \/ \E r \in Requests :
            \/ pc[r] \in {"validate", "policies"} /\ client[r] # "gone"
            \/ pc[r] \in {"subscribe", "unsubscribe"} /\ forwarding
            \/ pc[r] = "stream" /\ (seen[r].late \/ client[r] = "stalled")]_vars

(* The policy agent leaves no question unanswered for good.                *)
AgentAnswers == []<>~forwarding

(* A client that leaves ends its request, however early it leaves, whether *)
(* the gateway answers or not and whether or not the client had stalled;   *)
(* no subscriber of it stays in the dispatcher's map.  It takes a policy   *)
(* agent that answers, for the lock.                                       *)
LeaverIsRemoved ==
  AgentAnswers => \A r \in Requests :
    client[r] = "gone" ~> (main = "exited" \/ (pc[r] = "done" /\ r \notin subscribers))

(* The readiness probe is answered also when the gateway, which lets       *)
(* subscription requests wait for ever, answers nobody.                    *)
ProbeReturns == probe # "idle" ~> (probe = "idle" \/ main = "exited")

(* srv.Shutdown ends, whatever the gateway, the clients, late requests and *)
(* the policy agent do, and also when there never was a server.  The whole *)
(* shutdown function returns unless the agent never answers, which its     *)
(* timeout does not guard against: Stop waits for the loop.                *)
ShutdownCompletes ==
  /\ main = "shutdown" ~> main # "shutdown"
  /\ AgentAnswers => (main = "shutdown" ~> main = "exited")

(* What README.md says of the "type" parameter: a request with an invalid  *)
(* type is answered with 400, so that it does not become a subscription.   *)
InvalidTypeRefused ==
  \A r \in subscribers : \A t \in req[r].query.type :
    ToLower[t] = "all" \/ \E s \in contentTypesSupported : EqualFold(s, t)
=============================================================================
