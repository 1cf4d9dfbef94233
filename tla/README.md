# A verification project for notifications-push

notifications-push reads publish events from a Kafka topic, turns each into a
notification and pushes it to every client that holds a stream open and is
entitled to see it. These TLA+ modules model that path, from the message handler
to the bytes of a stream, check it with TLC on small instances and prove every
safety property of the passing runs, the two refinements included, with TLAPS for
instances of any size. What is left to TLC alone is liveness.

`PROJECT.json` lists the components, the runs, the lines every definition
translates, the hazards of the code and the theorems. A definition whose comment
begins with *Mutant* is used by no other: it is the definition after it with a
plausible mistake, and some property must notice the exchange of the two.

## 1. The system

| component | state | operations | talks to |
|---|---|---|---|
| queue handler, mapper (`consumer/`) | configuration only | `HandleMessage`, `MapNotification` | called by the Kafka library; calls `Dispatcher.Send` |
| dispatcher (`dispatch/dispatcher.go`) | the map of subscribers, an RWMutex, the channels `inbound` and `stopChan` | `Start`, `Stop`, `Send`, `Subscribe`, `Unsubscribe`, `Subscribers` | subscribers, history, policy agent |
| subscribers (`dispatch/subscribers.go`) | a channel of 16 messages, accepted types, options | `Send`, the two wire formats | filled by the dispatcher, emptied by a stream |
| history (`dispatch/history.go`) | a slice under an RWMutex | `Push`, `Notifications` | pushed to by the dispatcher, read by `/__history` |
| push stream (`resources/push.go`) | a timer, a context, a connection | `HandleSubscription`, `listenForNotifications` | key and policy processors, dispatcher, HTTP server |
| key and policy processors (`access/`) | none | `Validate`, `GetNotificationSubscriptionOptions` | API gateway |
| policy agent client (`access/agent.go`) | none | `EvaluateContentPolicy` | Open Policy Agent |
| service (`push_service.go`, `app.go`) | the server, the consumer | start, shutdown | all of them |
| stats, health checks (`resources/`) | none | `Stats`, `Health`, `GTG` | dispatcher, Kafka, API gateway |

What is hard about it:

- *Many goroutines meet in the dispatcher.* Every `Send` is a goroutine that
  sleeps, every connection is a request handler that subscribes and unsubscribes,
  `/__stats` reads under the same lock, and one loop forwards, with the lock held
  during a call to a remote agent.
- *Partial failure.* A notification can fail in the publication check, at the
  agent, or at one subscriber of many; each must leave lock, counters, history
  and the other subscribers right.
- *Bounded queues and slow clients.* The loop must not wait for a client.
- *Overlapping conditions.* Test traffic, deletes without a type, related content
  and creations decide together who may see what and in which form.
- *A timer with a channel,* whose `Stop`, drain and `Reset` must be in step.
- *A slice that leaves its lock.*
- *Somebody else who does not answer.* The gateway client and the writes of a
  stream have no timeout; what ends them is a client that leaves, and a shutdown
  that gives up. The policy agent is asked without a timeout too, and with the lock
  held that every new and every leaving subscriber needs.

## 2. Modules

| module | models | properties |
|---|---|---|
| `Notifications` | the data and the pure functions of `dispatch` and `publication` | |
| `History` | append, sort, cut as functions of a list | |
| `Broadcast` | what package `dispatch` promises: an atomic broadcast | abstract specification |
| `Dispatcher` | the dispatcher and its goroutines | implements `Broadcast`; who gets what, in which order, form; lock; stop; liveness |
| `DispatcherProofs` | theorems about `Dispatcher` | the inductive invariant, deliveries, order, lock |
| `BroadcastProofs` | theorems about `Dispatcher` | the refinement of `Broadcast`, silence after a stop |
| `RecordProofs` | theorems about `Dispatcher` | the closing log line, the history |
| `HistoryStore` | what a history promises: atomic pushes | abstract specification |
| `HistorySlice` | `inMemoryHistory` in memory, and `/__history` | implements `HistoryStore`; answers |
| `HistoryProofs` | theorems about `HistorySlice` | |
| `Stream` | `listenForNotifications` | timer, heartbeat, termination |
| `StreamProofs` | theorems about `Stream` | |
| `Consumer` | `HandleMessage`, `MapNotification` | what can reach whom |
| `ConsumerProofs` | theorems about `Consumer` | |
| `Service` | `HandleSubscription`, the gateway clients, the readiness probe, the server and its shutdown | who is let in; how requests, streams and service end |
| `ServiceProofs` | theorems about `Service` | |
| `MC*` | instances for TLC | |

### Notifications

A notification is a record of what the code looks at. `APIURL`, `Title` and
`Standout` are copied through and left out; `EditorialDesk` only feeds the agent.
`LastModified` is the rank of a timestamp, 0 being everything `time.Parse`
refuses (the zero time). `ToLower` is a constant function on the spellings in
use. A subscriber's message is the record that is encoded, with "" or 0 for an
omitted field.

### Dispatcher

`Calls` are calls of `Send`, `Conns` subscription requests. An action is what the
code does between two points at which another goroutine can interfere:

| code | actions |
|---|---|
| `Send` and its goroutine | `Send`, `Tick` (time), `Wake`, and `Receive` (the rendezvous on `inbound`) |
| `Start`, `forwardToSubscribers` | `Receive`, `CheckPublication`, `EvaluateContentPolicy`, `ForwardTo` (one turn of the range), `EndForward` (the deferred log line and `RUnlock`), `Push`, `StopLoop` |
| `Stop` | `Stop`, `StopLoop` |
| request handler | `Subscribe`, `Lock`, `addSubscriber`, `TakeNotification`, `EndStream`, `Lock`, `Unsubscribe` |
| `/__stats` | `Poll`, `PollReturns` |
| `sync.RWMutex` | `RLock`, `RUnlock`, `Lock`, `Locked`, `Unlock`: an announced writer keeps new readers out and waits for the old ones; its unlock lets the waiting readers in first |

Nothing in the model makes the loop skip a subscriber or two goroutines exclude
each other except the lock: `ForwardTo` looks at the map as it is at that moment.
`round`, `turn`, `audience`, `verdict`, `fate`, `report` and `sinceLast` are
observations. The three counters of `forwardToSubscribers` are the sizes of the
sets of subscribers with a fate. `inbox` holds everything ever put on a channel
and `taken` how much of it was read, so that what is *on* the channel is the
difference.

`Broadcast` leaves all that out: a notification is pending from `Send` until it is
forwarded, in one step, to the members of that moment; `Join` and `Leave` are
steps of their own, and after `Stop` nothing is forwarded. Under the refinement
mapping (`B` in `Dispatcher`, with one definition `noteBar`, `pendingBar`,
`memberBar`, `gotBar`, `openBar` for each variable) the step that forwards is
`EndForward`, where the read lock is given back. Until then a message that the range has put on a channel
is not counted (`Visible`), so the turns of the range are stuttering steps;
`addSubscriber` and `Unsubscribe` are `Join` and `Leave`, `StopLoop` is `Stop`.
That these steps never fall into a range is what the lock is for, and what the
mutant of `ImplementsBroadcast`, an `Unsubscribe` without the lock, takes away. A
stop leaves pending what is still in its delay: such notifications are lost as a
whole, never in part.

### History, HistoryStore, HistorySlice

`History` says what a push does to a list; `sort.Sort` is not stable, so the
result is any ordered permutation. `HistoryStore` makes it one step.
`HistorySlice` is the slice in memory: backing arrays, an append in place or into a
larger array, a sort in which a swap is two writes, a cut that leaves the array
alone, and readers that hold a slice without holding the lock. The history has any
size (`HistorySize`; the service's default is 200). `sort.Sort` sees the entries
only through `Less` and `Swap` and ends with them in order. Up to 12 of them
(`maxInsertion`) it sorts by insertion: neighbours that are out of order are
swapped and nothing else. For longer slices it changes its method several times;
there every `Swap(i, j)` is allowed, in any order, so that nothing shown depends on
which the library makes. `Enlarged` is the growth that append asks for (twice, or
a quarter more and 192 from 256 on) and `Capacities` what the allocator may make of
it: for a `NotificationModel` of 184 bytes the first capacities, 1 to 16, come out
exactly, and the later ones rounded up by less than a quarter. An entry is read and written in one
step; a torn read of a single entry, which the data race allows too, is not shown.

### Stream

One stream: `hello` (first heartbeat), `select`, the writes, and `drain`, the
receive in `if !timer.Stop() { <-timer.C }`. The timer is that of Go before 1.23
(`go.mod` asks for 1.21): expiry leaves a tick in a channel of one place and
`Reset` does not remove it. Writes take arbitrary time and may fail. The client
reads, stalls (and perhaps resumes) or leaves; a write does not end while the
client stalls, and the context does not interrupt it, because the code sets no
deadline for a write.

### Consumer

A message is described by what the code asks of it (does the body parse, what
does the transaction id match, is there a UUID in the URI, is it allowlisted, the
headers, the payload, the list of publications with entries that are not UUIDs,
which the loop of `UnmarshalJSON` drops without an error). The properties join
`HandleMessage` with the conditions of `forwardToSubscribers`, for an agent that
allows everything. End-to-end test messages go to monitors, whatever their type
and without a policy, and the properties say so where it makes a difference.

### Service

A request goes through `Arrive`, `Validate`, `GetNotificationSubscriptionOptions`,
`RefuseTypes`, `SubscribeFails` or `Subscribe` (with `resolveSubType`),
`RegisterOnShutdown`, then `EndStream` or `WriteFails`, and `Unsubscribe`; every
early return is `Return`. Which status code goes with it is in the comments only:
nothing in the service depends on it. `req` holds the request and the local
variables of the handler, `seen` what was true of its key at some time of the
request. Between any two steps the gateway may change its mind about a key
(`ChangeKey`: its validity or its policies, which are sets of `XPolicy`), the
client may leave or stall (`Client`), or the service may be told to end. The
gateway may also never answer; its HTTP client has no timeout, but the questions
carry the context of the request, so that they end when the client leaves
(`AskAborted`).

Of the dispatcher, `Service` has the set of subscribers and `forwarding`: the loop
is in `forwardToSubscribers`, with the read lock, and asks the policy agent
(`forwardToSubscribers`, `forwardReturns`). Nothing limits that question.
Meanwhile `Subscribe` and `Unsubscribe` wait for the lock, and `Stop`, which
`Exit` stands for, waits for the loop. The stream is the wait for its context or
for a write that fails; `Dispatcher` and `Stream` have the rest.

`ListenFails` is a server that cannot listen: the error is logged and the service
runs on without it. The readiness probe (`GTG`) asks Kafka, then the gateway with
a timeout of its own (`requestStatusTimeout`); a shutdown waits for it like for
any other request. `Shutdown` starts one goroutine for each function that is
registered at that moment (`CallCancel`); a connection accepted before may still
bring a request, whose stream is then registered too late. `Timeout` is
srv.Shutdown giving up after 30 seconds. Time is not counted: the timeout is taken
to be long compared with the steps a handler takes by itself, so it does not come
while one of those is due (`Moving`). It may come while a request waits for the
gateway, or for the lock while the agent is being asked, while the probe is busy,
while a client has stalled its stream or a stream waits for its end. The other
endpoints are not requests here; of them only `/__stats` can wait for somebody,
and only for the lock, behind a handler that waits for it too. Types of a request
are a set (their order and number do not matter to `matchesSubType`).

## 3. Runs

| run | instance | result |
|---|---|---|
| `dispatcher` | 2 notifications out of 5 kinds, 2 subscribers out of 3 kinds, channels of 1, history of 1, a stop at any moment; symmetric calls and connections; 2.6 million states | 9 invariants, 3 action properties and the refinement of `Broadcast` hold |
| `dispatcher_live` | 2 notifications, 1 subscriber that may never read, 1 tireless poller, delay 1 | 4 liveness properties hold |
| `dispatcher_delay` | 2 notifications, delay 1 | `MinimumDelayBetweenSends` is violated |
| `history` | 4 pushes (2 of equal time, one without a time) into a history of 2, 2 readers; 2 entries are sorted by insertion, 3 by any swaps | type, refinement and answers hold |
| `history_last` | the same, no reader | `ContainsLastPushed` is violated |
| `history_create` | an update and a creation, 1 reader | `HistoryAnswers` is violated |
| `history_torn` | 4 pushes, 1 reader | `EachOnce` is violated |
| `stream` | period 2, channel of 2, 3 notifications, a client that may stall, resume and leave | 3 invariants, 3 liveness properties hold |
| `consumer` | 89 messages, 2 in a row, 12 kinds of subscriber | 5 invariants hold |
| `consumer_delete` | the same | `DeletesAsDocumented` is violated |
| `service` | 2 requests out of 3 kinds, a key, one change at the gateway, a loop that asks the agent, the probe, shutdown at any time; 0.19 million states | 3 invariants, 1 action property, 3 liveness properties hold |
| `service_type` | 1 request | `InvalidTypeRefused` is violated |

*Bounds.* Two notifications and two subscribers are the least with which an
answer could be used for the wrong notification, an order could differ and a
subscriber could be overlooked because of another; a channel of 1 is full after
the first; a history of 1 drops an entry at the second push. The main run has no
delay, because with the delay zero every order of waking is possible at once, and
no poller, because a reader more is covered by the lock's action; both are in the
liveness run. For the safety properties that are proved the bounds do not matter.
Four entries in a history of 2 visit every case of append (grow, in place after a
cut) and, with `maxInsertion` set to 2, both kinds of sort; the violations have
it at Go's 12. The allocator rounds up only from 32 entries on, which TLC does not
reach: that case is in the proofs alone. A stream of period 2 can
expire before, during and after a write. One change of a key can fall between any
two steps of a request; two requests are enough for one to be late while the other
is cancelled. One policy is enough to tell apart the options of a key at two times.
One key is enough, because handlers share nothing but the map of
subscribers and each has its own `req`; a request without types, which is given
the default type, is left out of the run. The publication lists are those that
`OnlyOneOrPink` tells apart: none, one, several with and without the pink one, each
before and after unreadable entries are dropped.
`CHECK_DEADLOCK FALSE` is in every configuration because the behaviours are
finite: all calls made, all streams ended.

*Fairness.* In `Dispatcher`: goroutines that can run do run, and time passes
(weak); what is offered again and again on a channel, in a select, or to the
writers of the lock is taken in the end (strong: channel waiters and writers
queue up in Go, and select picks at random); the agent answers. Nothing is assumed of clients.
In `Stream`: time passes, the handler runs, select does not pass over a ready case
for ever, the server notices that a client is gone, and a write ends, with or
without success, if its client reads again and again or is gone (strong). Nothing
is assumed of the client itself: the properties say *unless it stalls for good*
(`StalledForGood`), which is what the missing write timeout comes to.
In `Service`: the shutdown function, the calls of cancel and a handler that waits
for nobody make progress, the timeouts come, and the Kafka library returns (weak).
Whoever waits for the lock or for the loop gets it if it is free again and again
(strong: this is what `SubscribeReturns`, `UnsubscribeReturns` and `StopReturns`
show of `Dispatcher`). The gateway need not answer, and clients need not read or
leave. Nor need the policy agent answer: that it does (`AgentAnswers`) is written
into the properties that depend on it. Without it srv.Shutdown still ends, by its
timeout, but the shutdown function does not return.

## 4. What disagrees with the documentation

1. `NewDispatcher`'s comment calls the delay a *minimum delay between*
   notifications. It delays each on its own: two that arrive together leave
   together (`dispatcher_delay`).
2. `History` is said to contain *the last x notifications pushed*. It keeps the x
   latest by `lastModified`, and may drop the one just pushed (`history_last`).
3. `/__history` panics, and so does not answer, while a `CREATE` is in the
   history, because it passes nil options (`history_create`).
4. `/__history` walks over the live slice after the lock is released; a push
   meanwhile can show a notification twice and hide another (`history_torn`).
5. The README has two rules for deletes. With an empty `Content-Type` they are
   documented to reach all subscribers; the allowlist drops them first. With any
   header other than JSON they are documented to have a type; the header of a
   content placeholder, which the delivery clusters allowlist, has none in the
   mapper's table, and such a delete goes to all. `DeletesAsDocumented`, that at
   least one of the rules is kept, is violated by two messages (`consumer_delete`).
6. The README promises a 400 for an invalid type; an invalid type beside a valid
   one is ignored (`service_type`).

Also seen, and left without a run: a deleted related content item whose header
names no type reaches nobody, since only a `DELETE` without a type is for all.

## 5. Proofs

All `*Proofs` modules are checked by TLAPS. The assumptions are those of the
modules, and TLC evaluates them in every run: types of the constants, `ToLower` is
idempotent and maps only "" to "", the types of the header table are among the
spellings in use, and `Nil` and `Loop` are told apart from other values. No size,
bound or number of entries is limited. The inductive invariants were checked by TLC on the instances of the runs before
they were proved.

**Dispatcher (`DispatcherProofs`).** The inductive invariant `IInv` is the
conjunction of the type invariant, the properties, and what they need:

- `DataInv`: who is past a step has the data made there, and the map of
  subscribers is exactly the set of handlers between `addSubscriber` and
  `Unsubscribe`;
- `LoopInv`: the loop holds a call exactly while it is busy with it;
- `LockInv`: the loop is among the readers for as long as it forwards; so no
  writer is in its critical section, and the map stays as it was when the lock
  was granted. `AudienceIsFixed` is immediate from this, and `NobodyOverlooked`
  rests on it;
- `RoundInv`: rounds number the calls in the order taken, the current one is the
  highest: a message appended now comes after all the others (`SameOrder`);
- `FateInv`, `ServedInv`: how far the forwarding of a call has come; in
  particular `hasAccess` is the answer for the *current* call whenever the range
  runs, which is what `DeliveryContract` needs, the variable itself being left
  over from the call before until then;
- `DateInv`: a notification is dated before it is offered to the loop
  (`WireForm` for monitors).

A finished call is stable: no later step changes its notification, verdict or
audience, nor the subscriber's data (`Stability`), so that the properties, which
speak of all calls ever made, are kept by the steps of other calls.

**Dispatcher implements Broadcast (`BroadcastProofs`).** `RefInv` adds to `IInv`
what the abstract step has to know: a call has a notification exactly from `Send`
on, and a connection in the map one of the requests (`AskedInv`); the range runs
only for a notification whose publication check succeeded (`PublicationInv`),
since an abstract `Forward` to nobody is how the other case is mapped; a send has
failed only where the channel was full to its capacity (`LagInv`); `Stop` has
returned exactly when the loop has ended (`StopInv`). Then, step by step: the
sleep and the waking change only the date, which the mapping leaves out; a turn of
the range appends a message of the current call, which is not visible yet, after
all visible ones (`SentIsLast`, from `RoundInv`), so it stutters; `EndForward` is
`Forward`, because every member of the audience has a fate and the fate is the one
`Entitled` says (`AddresseesServed`), and the audience is the map (`LockInv`).
`SilentAfterStop` follows from `StopInv`.

**Reports and history (`RecordProofs`).** The log line is chosen by counters, the
sizes of the sets of subscribers with a fate; `ProcessedMeans` turns equal sizes
of finite sets into equal sets, and `ReportInv` keeps the result for calls that
are over. For `HistoryKeepsNewest` the invariant is strengthened by `RoomInv`: as
long as the history has room, all that was recorded is in it. `PushKeepsNewest`
shows that append, any sort and cut keep both; a sort is a permutation, and that an
injective map of `1..n` to itself reaches every position is the pigeonhole
principle (`PermutationOnto`).

**History in memory (`HistoryProofs`).** The swaps of a long slice are arbitrary,
so the invariant cannot say where the new entry is. `CellsInv` says instead that
the cells of the slice, with the second half of a swap done in advance where one is
under way (`Held`), are a permutation of the list as the last push left it followed
by the new entry (`Arranged`). An exchange of two places keeps that (`Exchange`).
The sort ends where the cells are in order, and then they are a sort of the list
with the entry (`SortEnds`): that step is the push of `HistoryStore`, all others
stutter (`PushIsAtomic`). For `ReplyIsSnapshot`, `ReaderInv` says that a handler on
its way which no push has overlapped has in its array what it asked for, and that
Push, while it writes, writes to no such array: a handler begins between pushes
only, because of the lock; a push that begins in the array of a handler marks it;
one that allocates has an array no handler knows. The bound on the capacity in
`TypeOK` comes from append growing only a full array, of at most `HistorySize`
cells, to twice that and no more than a quarter on top (`CapacityBounds`).

**Stream (`StreamProofs`).** The invariant says where the tick is: the timer runs and its
channel is empty; or it has expired and the tick is there; or the tick was taken
and the handler is writing the heartbeat that it stands for. Since `drain` is
reached from a notification only, the third case is excluded there.

**Consumer (`ConsumerProofs`).** Every pair in `sent` is a message that was not
dropped and its notification (`IInv`); the properties are then about
`MapNotification` and the conditions of `forwardToSubscribers`. For
`PublicationDecides`, `DeletesFollowHeader` and `TypeOK` the loop of `UnmarshalJSON` has to be followed
through lists of any length. `SetInduction` is induction over the natural numbers
stated for a set instead of a predicate, so that the provers can use it; it comes
from the well-foundedness of `<`. With it `LoopEnds` shows that the recursive
function is defined, and `UnmarshalKeepsRead` that it keeps as many entries as can
be read, and only those.

**Service (`ServiceProofs`).** `SeenInv`: what was seen of the gateway during a
request covers what it would answer now, so an answer, when it comes, is about a
moment of this request. `AdmittedInv`: how much of the admission a handler has
behind it; the map of subscribers is exactly the handlers between `Subscribe` and
`Unsubscribe`. `Admission` and the options in `TypeOK` follow. `CancelInv`: a
stream is registered, and once the shutdown has begun its cancel is called or
about to be, unless it came late; a handler that does not move when `Timeout`
comes is therefore one of the cases of `TimeoutHasCause`: it waits for the gateway,
for the lock while the agent is asked, for a stalled client, or it came late. `CloseInv`: nothing
is let in after `srv.Shutdown` has returned (`QuietEnd`).

*Model-checked only:* the liveness properties (`EverySendIsRecorded`,
`SubscribeReturns`, `UnsubscribeReturns`, `StopReturns`; `KeepsBeating`,
`HandlerReturns`, `EveryMessageWritten`; `LeaverIsRemoved`, `ProbeReturns`,
`ShutdownCompletes`), because fairness and ENABLED are out of the prover's reach;
and the six disagreements of section 4, which are counterexamples.

## 6. What is not modelled

- `Service` does not follow notifications. In `Dispatcher` a stop may come at any
  moment, so what it does to a notification is shown there for every order of
  events that a shutdown can bring about.
- A crash and a restart. Nothing is persisted: subscribers, history and delayed
  notifications are gone, and the offsets are kept by the Kafka library.
- Kafka: a message is handled at most once here; redelivery means another call.
- JSON, regular expressions, log texts, status codes, HTTP headers: formatting and
  wiring. `createMessageHandler`, `createConsumer`, `createDispatcher` and
  `initRouter` appear as the constants of the modules.
- The policies of the agent: they are Rego code. All its answers are considered.
- `/__health`: three stateless checks, run by the fthealth library under a timeout
  of its own; the two it shares with `/__gtg` are modelled there.
- Command line, test helpers, the example client: no state.
- The functions registered with `RegisterOnShutdown` are never removed; the list
  grows with the requests ever served. `onShutdown` grows in the same way, and no
  behaviour depends on its size.

## 7. Plan

Done, in this order: `Notifications`, `History`, `Dispatcher` with its runs;
`HistoryStore` and `HistorySlice`; `Stream`; `Consumer`; the proofs of
`Dispatcher` and `Stream`; `Service`; `Broadcast` and the refinement; clients that
stall, a gateway that hangs, the probe and a server that does not listen;
publication lists.

Then the proofs of the safety properties: the refinement of `Broadcast` and
`SilentAfterStop`; `ReportTruthful` and `HistoryKeepsNewest`; `Service`; `Consumer`;
`HistorySlice` with the refinement of `HistoryStore`.

Left are proofs that go beyond the properties of the runs:

1. What the abstract specifications promise by themselves: in `Broadcast` a member
   is given each notification at most once and all members in the same order, in
   `HistoryStore` the list is in order and within its size. With the refinements
   these hold of the code too, without another look at its steps.
2. The safety side of the liveness properties: that whoever waits for the lock or
   for a channel waits for somebody who is not waiting for him.
