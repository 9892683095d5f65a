# A formal model of jsonrpc-client-rs

TLA+ modules, TLC configurations and TLAPS proofs for the JSON-RPC 2.0 client
library in `src/`. Everything below refers to the code by path and line.

## 1. The system

| Component | Where | State it keeps | Operations |
| --- | --- | --- | --- |
| `Client` future | `core/src/lib.rs:230-537` | id generator, map of waiting calls, one payload the sink refused, `shutting_down`, `fatal_error` | `poll`: `handle_messages` (leftover payload, server, incoming, outgoing, flush) or `handle_shutdown` (drain, close, result) |
| `ClientHandle` and its futures | `core/src/lib.rs:136-197` | an mpsc sender; per call a oneshot | `call_method`, `send_notification`, clone, drop |
| `Transport` | `core/src/lib.rs:200-218` | a sink and a stream, implemented elsewhere | `start_send`, `poll_complete`, `close`, `poll` |
| `SelectWithWeak` | `utils/src/select_weak.rs` | two streams, whose turn it is, whether the weak one has ended | `poll` |
| `Server`, `ServerHandle` | `core/src/server.rs` | handlers by name, channel of adds and removes, pending request futures | `add`, `remove`, `poll`, `process_request`, drop |
| `IdGenerator` | `core/src/id_generator.rs` | a counter | `next`, `next_int` |
| `Subscriber`, `Subscription`, `NotificationHandler` | `pubsub/src/lib.rs` | channel per notification, subscribers by id, the one future being driven | `subscribe`, stream poll, drop, handler poll |
| `HttpTransport`, `HttpHandle` | `http/src/lib.rs` | a request channel, one request in flight; per sink the future of one request | `standalone`, `shared`, `handle`, `send`, `io_pair`, the request-processing future |
| `ClientCreator` | `http/src/client_creator.rs` | none | `create` |
| `IpcTransport` | `ipc/src/lib.rs` | a framed connection (external) | `io_pair` |
| `jsonrpc_client!` | `core/src/macros.rs`, `example.rs` | none (code generation) | |

How they meet. Users hold clones of a `ClientHandle`, in any thread. A call is a
future that sends one `OutgoingMessage`, with the sending half of a oneshot
inside, through an `mpsc::channel(0)` to the `Client`, then waits for that
oneshot. The `Client` is one future in one task. It owns the receiving end of
that channel (the strong half of a `SelectWithWeak`), the channel the server
handler responds through (the weak half), the server handler and both halves of
the transport. Requests of the peer go to the handler inside the client's poll;
handlers finish in whatever task they like. `ServerHandle` talks to the default
handler through another channel. A `Subscriber` sits on top of a `ClientHandle`
and a `ServerHandle`. Over HTTP the transport of a client is a sink and a stream
made by `HttpHandle::io_pair`: `Sink::with` turns a payload into a request on an
unbounded channel to a tokio core, where one future sends the requests of all
handles, one at a time; each response comes back through a oneshot to the sink,
which puts it into the channel that is the stream.

What is hard. All concurrency is between tasks: users poll their futures, the
transport delivers, handlers finish and owners drop things between any two steps
of a poll of the client. A futures 0.1 task is woken only by a source it has
polled to `NotReady` since, so each early return is a potential lost wakeup.
Channels end when their last sender is dropped, so who owns a sender at each
moment decides when the client ends. The sink can be full, fail or be closing.
The client shuts down in several ways with work in every queue.

What makes each component correct:

* *Client*: a call gets its own answer and no other; a payload is sent once and
  in order; nothing is lost between the channel and the sink; a caller is never
  left waiting with nobody to complete it; the task never sleeps on work; the
  result is what happened; a clean end delivers everything; it does end.
* *SelectWithWeak*: neither stream starves; it ends with the strong stream.
* *Server*: a handler is never lost or duplicated and runs only while it is set;
  a request is answered once, when all of it is done, or not at all when it asks
  for nothing; no future is polled after it has finished, and none is forgotten.
* *PubSub*: one notification handler per name, subscriptions get the messages of
  their id in order, the last unsubscription frees the name.
* *HTTP*: requests of a client come back in order, once, and to their own client,
  whatever happens to those of others; nobody waits for a core that is gone; a
  client has no more than one request in the queue; with a timeout every request
  comes to an end; the core's thread ends with the last handle.

The hazards, each at its line with the properties that would catch it, are in
`PROJECT.json`.

## 2. The modules

| Module | Models | EXTENDS / INSTANCE |
| --- | --- | --- |
| `Task` | the futures 0.1 task: `pc` inside a poll, `woken`, `registered` (external) | |
| `Messages` | calls, notifications, requests, payloads, incoming messages | |
| `ClientHandle` | handles and their futures | `Task`, `Messages` |
| `Transport` | sink, stream and peer (external) | `Task`, `Messages` |
| `SelectWeak` | `SelectWithWeak::poll`, one action per outcome | |
| `Client` | the `Client` future, composed with all of the above | `ClientHandle`, `Transport`; INSTANCE `SelectWeak` |
| `PubSub` | `Subscriber`, `Subscription`, `NotificationHandler` for one notification method | INSTANCE `SelectWeak`, `MessageStream` |
| `RpcSession` | what a client promises its users, without ids, queues or wakeups | |
| `Server` | the default `Server` and `ServerHandle`, in the poll of the client that owns it | `Task` |
| `RpcService` | what a server promises the users of its handle and its peer, without channels, polls and tasks | |
| `MessageStream` | what a subscription promises its owner | |
| `HttpTransport` | handles, sinks, streams and the request-processing future, with the clients that own them | |
| `MCSelectWeak`, `MCClient`, `MCServer`, `MCHttp` | the same for TLC: producers, symmetry, small instances, what a comment says | |
| `SequenceLemmas` | lemmas: members, order and repetitions of queues | `SequenceTheorems`, `TLAPS` |
| `ClientProofs` | theorems about `Client`: types, ids, own answers | `Client`, `SequenceLemmas`, `TLAPS` |
| `ClientDeliveryProofs` | what becomes of a message, the end, wakeups | `ClientProofs` |
| `ClientSessionProofs` | `Client` implements `RpcSession` | `ClientDeliveryProofs` |
| `ServerProofs` | theorems about `Server`, and that it implements `RpcService` | `Server`, `SequenceLemmas`, `TLAPS` |
| `PubSubProofs` | theorems about `PubSub`, and that it implements `MessageStream` | `PubSub`, `SequenceLemmas`, `TLAPS` |
| `HttpProofs` | theorems about `HttpTransport` | `HttpTransport`, `SequenceLemmas`, `TLAPS` |
| `SelectWeakProofs` | theorem about the merge of `MCSelectWeak` | `MCSelectWeak`, `TLAPS` |

### State and actions against the code

*Task.* `Register(S)` is a poll of the sources in `S` that returned `NotReady`;
`Notify(s)` is an event there, which consumes the registration. `Poll` is enabled
at any time, because an executor may poll needlessly, but fairness forces it only
when `woken`. Registrations that can cause nothing but a superfluous poll are left
out: after `start_send` or `poll_complete` succeeded, and the ones a task leaves at
sources it no longer looks at.

*ClientHandle.* `fut[m]` is where the future of `m` is: `created` (owns a sender,
nothing sent), `queued` (the message is in the channel and the send has not
completed, the sender is still owned), `waiting` (for the oneshot). `mpsc::channel(0)`
gives every sender one slot of its own, so a first send never blocks; what holds the
future back is that its send completes only when its message has been received.
`oneshot[m]` is a value on its way to the future; a channel whose sending half was
dropped is the one for which `CompletionHeld` is false.

*Client.* `pc` names the next call an actor can race with:

| `pc` | action | code |
| --- | --- | --- |
| `idle` | `Poll` | `poll`, `should_shut_down` (527-529) |
| `leftover` | `SendLeftover` | `handle_messages` 328-330, `send_payload` |
| `server` | `PollServer` | `poll_server` (462-470) |
| `rx` | `HandleTransportRxPayload` (an item), `TransportRxDrained` | `poll_transport_rx`, `handle_transport_rx_payload`, `handle_response` |
| `outgoing` | `PollOutgoing` (an item, `NotReady` or the end), `OutgoingMustWait` | `poll_outgoing_messages`, `handle_client_payload` |
| `flush` | `Flush` | `poll_transport_tx` |
| `shutdown_rx` | the two `rx` actions, errors logged only | `handle_shutdown` 479-484 |
| `close` | `Close` | `handle_shutdown` 485-505 |
| `resolved` | `DropClient` | the executor drops the future |

`Return(res, next)` is the `?` of each part together with the `match` in `poll`
(529-533): on success the next part runs, `Shutdown` sets `shutting_down`, any other
error becomes `fatal_error`, and both go on to `handle_shutdown`. `pending_payload`
is the `Option` as a sequence of length at most one. `outgoing_payload_rx` is an
instance of `SelectWeak`; its weak stream never ends because the client owns
`server_response_tx`. Any implementation of `ServerHandler` is covered:
`process_request` may keep the sender to respond later, owe nothing, refuse with an error,
or fail quietly; the handler may end or fail at any time, and `PollServer` returns the kind
of its error: `Shutdown`, which the default `Server` returns at `server.rs:365` and `385` and
a notification handler at `pubsub/src/lib.rs:181`, ends the client without an error, any other
kind stands as `HandlerError`. `refused` is a history variable, the kinds of error with
which `process_request` has ended the service.

*Server.* `pc` covers the same poll as seen by the server, with `drain` and `futures`,
which are `Server::poll`, in the place of `server`. Of the client there is what the server
depends on: the sink (`transport_tx`, how much it has buffered), the payload it has refused,
which keeps `poll_outgoing_messages` from taking responses (405), and the closing phase
(`should_shut_down`), in which `handle_shutdown` still calls `process_request` but nobody
calls `Server::poll`. The payloads of the client's own calls (`TakeOther`) and its own reasons
to shut down (`ClientStops`, errors of `send_payload`) may come at any time and need
never come. An add is identified with the handler it carries. `Drive` is one poll of a request's future: its calls
run, the response waits in the channel, then it is done. The eager poll is the same
operator inside `process_request`. A batch is a set of calls, each with an outcome,
because `futures_unordered` collects them in any order.

*PubSub.* `sub[s]` follows one call of `subscribe`: `adding` (blocked on the server),
`added`, `calling` (the future exists), `sent`, `answered` or `refused`, then `live`,
`failed`, `exists` or `abandoned`; a live one is `dropped` in the end. The notification
handler takes an iteration of the loop in `NotificationHandler::poll` as a step:
`FirstPoll` and `LaterPoll` are `ready_for_next_connection` with a future, `TakeMessage`
is one message of the merged channels, `Finish` the two ways out of the poll with
`Ready`. Notifications are positions in `log`, what the peer has sent. There is one
handler, because nothing takes its name out of the server: the `remove` in its `drop`
is a future that nobody polls. What the handler needs of the client and the server is
reduced to sending a call, an answer, settling an add, and ending.

*HttpTransport.* `core` is the thread or task that runs the request-processing
future, `request_rx` its queue, `current` the request in `for_each`, `in_body` whether
the `TimeLimited` part is over. `response[p]` is the oneshot of request `p` and, once it
has a value, what the request came to. A client is a record: `with` and `in_flight` are
the state of `futures::sink::With`, `responses` the `mpsc::channel(0)` behind it (one
sender, so one slot), and the rest the part of `Client` that decides when sink and stream
are polled, in the same `pc` as above, without the server (its part of a poll does
nothing here). `PollWith` is one `With::poll`: it drives the request in flight, puts its
response into the channel, or registers where it must wait. It is part of every
`start_send`, `poll_complete` and `close`.

| action | code |
| --- | --- |
| `Build`, `create` | `standalone`, `shared`, `create_standalone_core`, `ClientCreator::create` |
| `io_pair`, `DropHandle`, `Send` | `io_pair`, drop of the last `HttpTransport` and `HttpHandle`, `HttpHandle::send` |
| `unbounded_send` | `send_fut` up to its first wait: the request is queued, or refused by a core that is gone |
| `TakeRequest`, `HeadArrives`, `BodyEnds`, `HttpFails`, `TimesOut` | the closure of `for_each` (361-380) and `TimeLimited::poll` |
| `Finish` | `response_tx.send`: whoever waits for the request is woken |
| `CoreEnds`, `CoreStops` | `for_each` ends with the last sender; the core is dropped or its thread panics |

*RpcService.* Adds and removes are pending, then have a result, and take effect at one
moment in between; a request meets the handlers of one moment. `Server!Service` maps
it to `Server`: the moment is the one in which `drain_handler_chan` takes the message, or
`process_request` reads the request. An add that panics is mapped to one that finds the
server gone, `server_add_panics` shows the difference.

*MessageStream.* Per subscription the positions it has read. `PubSub!Stream` maps it:
a subscription is attached while it is live and the handler has its sender.

*RpcSession.* Per call a phase, the set of calls the peer has answered, and whether
the client is up. `Client!Session` maps it to `Client`.

## 3. The runs

| Run | Question | Instance |
| --- | --- | --- |
| `select_weak` | Is the merge fair, and does it end with the strong stream? | 2 producers, queues of 2 |
| `client_core` | Ids, order, the completion channels, a clean end | 2 calls (symmetric), 1 notification, sink of 1, one repeated answer |
| `client_faults` | Nothing lost before the sink, the result, no lost wakeup | 1 call, 1 request, every fault of transport, peer, user and server handler |
| `client_live` | Does it implement `RpcSession` with its fairness; do calls and the client come to an end? | 2 calls, repeated answers, abandoned calls, broken sink |
| `server` | Handlers, requests, futures, wakeups; do adds, removes and requests come to an end; does it implement `RpcService`? | any 3 of 2 adds and a remove of one name, a batch of a method call, a notification and an invalid call, and a single request; a sink of 1 |
| `pubsub` | Order and completeness of a subscription (also as `MessageStream`), its buffer, the end of the handler, of the streams and of the client | 2 subscriptions, 2 ids, 3 notifications, no buffer, every fault |
| `http` | Order, ownership and end of requests and responses, wakeups, the end of the core | a client with 2 requests and 1 request of `HttpHandle::send`, with a timeout and every fault |
| `client_resolves_early`, `server_add_panics`, `pubsub_second`, `pubsub_late`, `http_body_stalls` | Does the code do what these comments say? No: see section 6 | a small instance that shows it |

Bounds. Every call, notification, request, add and remove happens at most once, so
their number bounds the queues and ids. A second call is what gives an id somebody to
be confused with, and what fills a sink of one; a notification is a payload without
an id between them. `MaxNoise` bounds the superfluous messages of the peer: one is
enough to hit a call that has ended, or to end the client. `MaxMessages` bounds the
notifications in `PubSub`: with three and no buffer the first fills the subscription's
channel, the second is held back by it, and the third waits behind. `MaxQueue` bounds the streams
of `MCSelectWeak`. `MaxActivities` bounds how many of the five adds, removes and requests
of `MCServer` users and peer begin in one behaviour: three, of any kind and in any order, so that
an add, a remove and the request that races with them meet, or two adds and a remove, or two
requests and a change of the handlers; `SinkCap = 1` makes the sink full with one payload.
Nothing else is bounded. In `http` the second request of the client
is what finds the sink busy, or its response the channel full; the request without a
client stands for all others that share the core, before, between or behind them.
The faults of a run are listed in its `Faults`; `client_core` leaves out those that
end the client in order to afford two calls, `client_faults` has one call, a response
in place of the notification to compete with it for the sink, and all of them. What
`WaitingIsSent` and `OnlyLeftoverIsLost` say of notifications is therefore exercised by
`client_core` (`WaitingIsSent`, `CleanEndDelivers`) and by the theorems, not by `client_faults`.
Symmetry is over calls only, and only in a safety run. Deadlock checking is off: once the client is dropped and its futures have ended, the system has stopped.

Fairness. A poll that has begun goes on (`PollStep`): it is sequential code. A woken
task is polled and a resolved future is dropped: that is what an executor does.
Users poll the futures they keep (section 2's `Send`, `Sent`, `Resolve`); they need
not drop handles or make calls. The transport writes what it has buffered and the
peer gives a first answer to each call (`PeerFairness`); without either, a call may
wait for ever and the library has no timeout for it. In `server` handlers
finish, the sink gets rid of what it has buffered, which is what lets a response through that
waits behind a refused payload, and a response that can be taken again and again is taken
(`SF` of `TakeResponse`): `SelectWithWeak` takes turns between the client's own messages and
the responses, which is what `select_weak` shows of it; all else of a poll is one `WF`, for at each
`pc` there is one thing to do. In `http` woken clients are polled and dropped when they have resolved, the core
drives its future and its timer; the HTTP server need not send the head of a response,
but a body it has begun ends (`FairSpec`). Without the last part (`CodeFairSpec`) a
request may take for ever, which is what `http_body_stalls` shows. In `pubsub` the peer answers, the handler's and the client's tasks are
polled, and owners read their subscriptions. No fairness is assumed of faults, of the
handler in `Client`, or of `Poll` while the task is not woken: the liveness runs therefore fail when a wakeup is lost.

Every property has a mutant: a definition of the model changed the way a plausible
bug would change the code, under which TLC finds the property violated.

## 4. What is proved

Every invariant a run checks, and the one action property, is a theorem
(`BoundedBypass` in `SelectWeakProofs`, the others below), and so are the safety parts
of the three refinements. The theorems hold for every value of the constants: any sets of
messages, subscriptions, handles and requests, any capacity, bound and buffer, any set of
faults. They rest on the named assumptions of the modules only: the kinds of messages are
disjoint, requests share no calls, each request has one owner, the "none" values are no
members of what they stand beside, the sink's capacity is positive, bounds and buffers are
natural numbers. Each proof has one step per
action of `Next` (or per group of actions that leave the invariant's variables alone), over
lemmas about the operators the actions share.

### Client

* `TypeCorrect`: `TypeOK` is inductive. Beyond types it says that the sink never exceeds
  its capacity, that at most one payload is kept for it, and that the weak stream never ends.
* `OwnAnswerHolds`, `IdsAgreeHolds`: `OwnAnswer` alone is not inductive: an answer with the
  right id and the wrong content would break it. The invariant is
  `OwnInv == TypeOK /\ IdsAgree /\ OwnAnswer`, where `IdsAgree` says that wherever an
  id travels (map, kept payload, sink, peer, answer) it is below `next_id` and stands
  for the same call. Taking a call adds one claim, with the fresh `next_id`; every
  other step moves or drops claims; `handle_response` completes the entry of the map
  whose id the answer carries, which by `IdsAgree` is the call the answer is for.
* `NoCallForgottenHolds`: `HeldInv` follows the completion channel from the moment of the
  send, when the future is still `queued`. It needs `OwnInv`: the entry that
  `HashMap::insert` replaces is nobody's, because `next_id` is fresh.
* `WaitingIsSentHolds`: `AllSent` adds that every id ever issued, and every notification
  reported sent, is on the wire (`delivered`, the sink, the kept payload). It needs that a
  payload is only taken when none is kept, and the capacity of the sink.
* `OnceAndInOrderHolds`: a payload is new to the wire only if its message is nowhere else.
  `MessagesOnce` says that a message of the users is not sent, in the channel or on the
  wire, one of them; `RequestsOnce` says the same of a request of the peer: not made, in the
  stream, with the handler, in the channel of responses, or on the wire. The ids come in order
  because `IdsAgree` keeps them below the next one. All steps but `PollOutgoing` leave a
  prefix of the wire (`WireShortens`).
* `ResultJustifiedHolds`, `OnlyLeftoverIsLostHolds`, `CleanEndDeliversHolds`: `ErrorInv` says
  that the error kept has happened, with the kind it had (a handler that failed with
  `Shutdown`, in its poll or for a request, is no `HandlerError`, and the other way round),
  `EndInv` that a client that shuts down either has an
  excuse (the stream or the handler has ended) or has no users left and has given everything
  to the sink, and that a resolved one has closed the sink. With `AllSent` this is what may
  be lost at the end.
* `NoLostWakeupHolds`: what the task hears of while it sleeps has been registered in the
  course of the poll before. `HeardSoFar` says, for each place inside a poll, which sources
  have nothing to do and are registered unless the task has been woken since; `WakeInv` adds
  the shutdown. It needs `EndInv`, for a user can drop the last sender while the client
  shuts down.
* `ClientImplementsSession`: `Spec => Session!Spec`. `AnswersInv` connects a response in the
  stream, and a value in a oneshot, with an answer of the peer to a payload it has received,
  which by `IdsAgree` is the one of the same call; `EndedInv` gives the ended futures their
  reason. That the peer's first reply to a call is `Serve`, once, is where the order of the
  wire is needed: no other payload has the same id or the same call. `Reject` ends a
  call that was not served since an unsent message is not on the wire.

### Server

* `TypeCorrect`: with `QueueInv`, a request is read once and has one future from then on. The
  part of `TypeOK` that matters is that no future stays among the pending ones after it has
  finished, except while a pass over them is under way or the client shuts down.
* `HandlerConservedHolds`: `HandlerInv` says which messages are in the channel, that a handler
  in the map was added under its name and not given back, and that one was given back to one
  operation only.
* `OnlySetHandlersRunHolds`: an action property, from `HandlerInv`.
* `AnsweredOnceWhenDoneHolds`: `CallInv` says how far the calls of a request are in each state
  of its future, `AnswerInv` that a request is in one place from the stream to the answers.
* `SleepsWithNothingToDoHolds`: `WakeInv`, built as in `Client`, with the futures still to be
  polled in the pass under way. Two parts of the client's poll decide it: `PayloadHeard` says that
  a payload is kept only behind a full sink the task is registered with, which is what
  a response may wait for, and `PhaseInv` keeps the parts of the serving poll and those of the
  closing one apart: while it closes the task hears of nothing but the sink (`CloseHeard`).
* `ServerImplementsService`: `Spec => Service!Spec`, with `Result` in the mapping: an add whose
  future panics has found the server gone.

### PubSub

* `TypeCorrect` and `UnsubscribedBeforeItGoesHolds`: one invariant, `HandlingInv`. `AddInv`
  says that one add at a time is on its way and one handler is made, `HeardInv` which
  subscriptions the handler has heard of, `RoomInv` that only the subscription
  `current_future` is parked for is over its buffer, `PhaseInv` where the handler is with the
  subscription it serves, from its `new` message to the call of `unsub_method`. What `AddInv`
  and `HeardInv` say together is stronger than one would wish: as long as its handler runs, one
  notification has one subscription (`pubsub_second` in section 6 is why). The theorems are
  about the code as it is.
* `InOrderWithoutGapsHolds`: the property is about what follows the first notification a
  subscription got. `GotInv` says it of any two places of what it got, and that what still
  waits comes after all of it; `MessagesInv` that the waiting ones are the last of the log.
* `SubscriptionIsStream`: `Spec => Stream!Spec`. A read takes the notification that is due:
  by `GotInv` it follows the last one that was read, with none of the same id between.

### HttpTransport

* `TypeCorrect`, client by client (`SaneClients`).
* `PendingIsHeldHolds`, `OneRequestEachHolds`, `NothingLostOrOvertakenHolds`,
  `FailsByItsOwnHolds`: one invariant, `HoldInv`. `CoreInv` says that what is pending is in the
  core, once, and one for each client; `ClientInv` that of the requests of a client only the
  one in flight is pending, that what it accepted is what it received, has in the channel
  and has in flight, in this order, and that a failed client has its reason.
* `NoLostWakeupHolds`: `WakeInv`, as in `Client`, for the places of a poll and the two ways in
  which the sink can hold the client back: a response that is missing, or no room for it.

### Only model-checked

* Liveness (`CallsResolve`, `ClientEnds`, `OpsResolve`, `RequestsAnswered`, `Unsubscribes`,
  `StreamsEnd`, `ClientReleased`, `CallsAnswered`, `CoreReleased`, `StrongEndFinishes`,
  `WeakServed`), and the fairness in the three refinements (`ImplementsFairSession`,
  `ImplementsFairService`, `ImplementsStreams`): they need `ENABLED` and temporal
  induction, which the provers do not have. Their safety parts are the theorems above.
* The five disagreements of section 6, which are counterexamples.

## 5. What is not modelled

* Contents: method names, parameters and results, and so the conversion of a result
  to the caller's type. The error arms of `handle_client_payload` (433-435, 446-450)
  cannot be reached, since parameters are JSON values by then.
* `ensure!` in `send_payload` (343) and the test in `poll_transport_tx` (513): where
  they are called `fatal_error` is always `None`.
* The wrap of the 64-bit ids.
* A stream that says something after it has ended or failed: it says the same again.
* Pings of the peer without end: `poll_transport_rx` would not leave its loop.
* Which error a server handler fails with, beyond whether it is `Shutdown`: all other
  kinds end the client in the same way and stand as `HandlerError`.
* Futures of `add` and `remove` are kept by their owners.
* In `PubSub`: a user who unsets the handler through a `ServerHandle` of their own; the
  wakeups of the handler's task; the send of a notification that has been received but
  whose future the server has not polled again (it owns a sender a little longer); the
  deadlock of `subscribe` when its thread is the one that drives the client; several
  notification methods, which share nothing but the `Subscriber`.
* IPC: connecting, and the framing of bytes into messages. Its `io_pair` is what
  `Transport` models, a sink with a buffer and a stream that may end or fail.
* HTTP: URIs, headers, TLS and connection reuse, which are contents or hyper's; how long
  a timeout is; the server handler of a client over HTTP, which never gets a request.
* `HttpTransport` is not shown to implement `Transport`. It would not exactly: its sink
  hands on a payload, and its response to the stream, inside a poll of the client, while
  `Transport` has them move in steps of its own, and its sink may refuse a payload only
  because a response has not been read. `NoLostWakeup` and `NothingLostOrOvertaken`
  are therefore stated again for it.
* `jsonrpc_client!` and the serialisation of parameters: they produce calls of
  `send_client_call`, and keep no state.

## 6. Disagreements with comments and docs

* `client_resolves_early`: `Client::new` says that the client resolves once its
  handles and futures are resolved (`core/src/lib.rs:272-273`). A waiting future
  owns no sender any more, so the client resolves with calls still waiting, which
  then fail with `Shutdown`.
* `server_add_panics`: the comment at `core/src/server.rs:247-249` takes a missing
  result of an add for impossible; a server dropped with the message in its channel
  runs into the `unreachable!()` of line 250.
* `pubsub_second`: `filter(|c| c.is_closed())` (`pubsub/src/lib.rs:128`) drops the
  channel of a handler that runs, so a second subscription to the same notification
  tries to set the handler again and fails, against the comment at line 250.
* `pubsub_late`: `NotificationHandler::drop` (262-268) drops the future of `remove`
  unpolled. The server keeps the handler, whose next notification fails with
  `Shutdown`, which ends the client.

* `http_body_stalls`: "Configure the timeout for RPC requests" (`http/src/lib.rs:233`).
  The timeout limits the wait for the head of the response only; while a body stalls, the
  request does not come back, and no request of any other handle is sent.

Also in the model, without a run of their own:

* An error of `close` is logged (`core/src/lib.rs:493`) and the client resolves with
  `Ok`, although 270-271 say that an error of the sink fails it. `CleanEndDelivers`
  excepts a broken sink.
* A request future that fails in its eager poll is stored as a ready future that nobody
  has polled (`core/src/server.rs:398`), which the comment at 394-395 wants to avoid; the
  error waits for an unrelated wakeup. `SleepsWithNothingToDo` excepts it.
* `pubsub/src/lib.rs:128` also keeps the channel of a handler that is gone, so a
  subscription made after the last one was dropped ends at once (`ReusesChan`).
* A subscribe call that fails or is abandoned leaves behind a notification handler that
  nobody will ever tell to go, and whose `ClientHandle` keeps the client from
  resolving. `ClientReleased` excepts it.

Not contradicted by any comment, but worth knowing:

* A server handler that ends sets `shutting_down` while its poll returns `NotReady`
  (464); the shutdown runs at the next poll, which nothing schedules. `NoLostWakeup`
  excepts that one sleep, in which the task is registered with all sources but the handler.
* While a client waits for its sink to close, `handle_shutdown` goes on to read requests and
  start handlers for them, but `Server::poll` runs no more: adds and removes that were
  accepted stay in their channel, and finished handlers unanswered, until the client is dropped.
  `SleepsWithNothingToDo` says that all this client sleeps for is the sink, `OpsResolve`
  that whoever waits is told in the end (or panics, see `server_add_panics`).
* A payload in `pending_payload` is not sent when the stream or the handler ends the
  client, although its notification may have been reported sent. `OnlyLeftoverIsLost`
  says that this is all that can be lost while the sink works.
* Over HTTP every response must be a JSON-RPC message, also that to a notification: an
  empty body ends the client. When the last handle of a client goes, the client waits for
  the response that is missing and resolves without reading it.
* `handle_removal` calls the method for unsubscribing with an empty array of parameters
  (`pubsub/src/lib.rs:303`): the id of the subscription is not sent.
* Notifications that arrive before the handler has taken the `NewSubscriber` message are
  dropped.
* The map entry of an abandoned call stays until the peer answers it.

## 7. Plan

Done: all modules of section 2, with the theorems of section 4: every invariant and action
property that is checked, and the safety part of every refinement.

Next, in this order:

1. `ClientServer`: `Client` with `Server` as its handler, `Server` shown to implement
   the handler `Client` allows.
2. A safety specification that `Transport` and `HttpTransport` both implement: a sink and a
   stream between which nothing is repeated or overtaken (section 5 says why the one is not the other).
