--------------------------- MODULE HttpTransport ----------------------------
(***************************************************************************)
(* The HTTP transport (http/src/lib.rs): one future on a tokio Core that   *)
(* sends one HTTP request at a time for everybody, and per HttpHandle a    *)
(* sink and a stream.  The sink is an mpsc sender behind Sink::with: each  *)
(* payload becomes a request whose response, once it is back, is put into  *)
(* the channel that is the stream.                                         *)
(*                                                                         *)
(* The Client that owns a sink and a stream (see Client) is reduced to the *)
(* order in which its poll uses them: start_send of the payload that was   *)
(* refused, the stream to its end, start_send of new messages,             *)
(* poll_complete; or, when it shuts down, the stream, then close.  Its     *)
(* server handler, which gets no requests over HTTP, is left out.          *)
(***************************************************************************)
EXTENDS Naturals, Sequences, SequencesExt, FiniteSets

CONSTANTS
  Handles,     \* HttpHandles that are turned into clients, each at most once
  Requests,    \* payloads, each sent at most once
  Owner,       \* the handle a request is sent by; NoHandle: HttpHandle::send
  NoHandle,
  HasTimeout,  \* HttpTransportBuilder::timeout was called
  Faults       \* the faults of this model

ASSUME OwnersAreHandles == Owner \in [Requests -> Handles \cup {NoHandle}]
ASSUME NoHandleIsNone == NoHandle \notin Handles
ASSUME HasTimeoutIsBoolean == HasTimeout \in BOOLEAN

VARIABLES
  core,        \* "starting", "failed", "running" or "stopped"
  handle,      \* an HttpTransport or an HttpHandle is alive besides the sinks
  request_rx,  \* the queue of the request processing future
  current,     \* the requests it is working on, as a sequence of at most one
  in_body,     \* the head of its response has arrived
  response,    \* by request: what its oneshot holds, see Values
  client       \* the clients, by handle

coreVars == <<core, request_rx, current, in_body>>
vars == <<core, handle, request_rx, current, in_body, response, client>>

\* "none": not sent yet; "pending": its sender is in the queue or with the
\* future; "gone": that was dropped without a value; "ok": a body that is one
\* JSON-RPC message; "bad": one that is not, say empty, or no UTF-8; "error":
\* the core was not listening, an HTTP status other than 200, an error of
\* hyper, or the timeout.
Values == {"none", "pending", "gone", "ok", "bad", "error"}
Bodies == {"ok", "bad"}

\* A Client between HttpHandle::io_pair and its drop: the state of its poll
\* and task (see Task), and of its sink and stream.
NewClient ==
  [pc |-> "idle", woken |-> TRUE, registered |-> {}, users |-> TRUE,
   todo |-> << >>, pending_payload |-> << >>, shutting_down |-> FALSE,
   failed |-> FALSE, result |-> "none",
   with |-> "empty",         \* sink::With: "empty", "process" or "buffered"
   in_flight |-> << >>,      \* the request it processes or buffers
   responses |-> << >>,      \* mpsc::channel(0)
   accepted |-> << >>,       \* history: what start_send has taken
   received |-> << >>]       \* history: what the stream has given
NoClient == [NewClient EXCEPT !.pc = "none", !.woken = FALSE]

Init ==
  /\ core = "starting"
  /\ handle = FALSE
  /\ request_rx = << >>
  /\ current = << >>
  /\ in_body = FALSE
  /\ response = [p \in Requests |-> "none"]
  /\ client = [h \in Handles |-> NoClient]

Gone(c) == c.pc \in {"none", "dropped"}

-----------------------------------------------------------------------------
(* HttpTransportBuilder::standalone and shared, HttpTransport::handle      *)

\* ClientCreator::create may fail, and so does the builder then; the caller
\* of standalone waits for the thread to say which.
create == {"running"} \cup (IF "creator_fails" \in Faults THEN {"failed"} ELSE {})
Build ==
  /\ core = "starting"
  /\ core' \in create
  /\ handle' = (core' = "running")
  /\ UNCHANGED <<request_rx, current, in_body, response, client>>

\* A handle is split into sink and stream by Client::new.
io_pair(h) ==
  /\ handle
  /\ client[h].pc = "none"
  /\ client' = [client EXCEPT ![h] = NewClient]
  /\ UNCHANGED <<coreVars, handle, response>>

DropHandle ==
  /\ handle
  /\ handle' = FALSE
  /\ UNCHANGED <<coreVars, response, client>>

-----------------------------------------------------------------------------
(* HttpHandle::send_fut: the request goes to the core at once, whenever    *)
(* its future is polled                                                    *)

unbounded_send(p) ==
  IF core = "running"
  THEN /\ request_rx' = Append(request_rx, p)
       /\ response' = [response EXCEPT ![p] = "pending"]
  ELSE /\ response' = [response EXCEPT ![p] = "error"]
       /\ UNCHANGED request_rx

\* HttpHandle::send, without a client.
Send(p) ==
  /\ handle
  /\ Owner[p] = NoHandle
  /\ response[p] = "none"
  /\ unbounded_send(p)
  /\ UNCHANGED <<core, handle, current, in_body, client>>

-----------------------------------------------------------------------------
(* The sink and the stream of a client, operators on its record            *)

Notify(c, s) ==
  [c EXCEPT !.woken = @ \/ s \in c.registered, !.registered = @ \ {s}]
Register(c, s) == [c EXCEPT !.registered = @ \cup {s}]

\* With::poll: the future of the request in flight is polled; its response
\* goes into the channel unless the last one is still there.
Responded(c) == c.with = "buffered" \/ (c.with = "process" /\ response[c.in_flight[1]] \in Bodies)
Unanswered(c) == c.with = "process" /\ response[c.in_flight[1]] = "pending"
\* (mutant) the sink fails when the core has gone, as its channel does.
FailsWithCore(c) == core = "stopped" \/ (c.with = "process" /\ response[c.in_flight[1]] = "error")
SinkFails(c) == c.with = "process" /\ response[c.in_flight[1]] \in {"error", "gone"}
SinkReady(c) == c.with = "empty" \/ (Responded(c) /\ c.responses = << >>)
SinkBlocked(c) == Unanswered(c) \/ (Responded(c) /\ c.responses # << >>)

\* (mutant) what the future gave is kept.
NotReset(c) == [c EXCEPT !.with = "empty"]
Put(c) == [c EXCEPT !.responses = @ \o c.in_flight]
Emptied(c) == [c EXCEPT !.with = "empty", !.in_flight = << >>]
PollWith(c) ==
  IF SinkFails(c) THEN Emptied(c)
  ELSE IF Unanswered(c) THEN Register(c, "oneshot")
  ELSE IF SinkBlocked(c) THEN Register([c EXCEPT !.with = "buffered"], "slot")
  ELSE IF Responded(c) THEN Notify(Emptied(Put(c)), "rx")
  ELSE c

\* A call of the client returned: it goes on, or handle_shutdown runs.
Goes(c, next) == [c EXCEPT !.pc = next]
Fails(c) == [c EXCEPT !.pc = "shutdown_rx", !.failed = TRUE]

\* Client::send_payload: start_send, which polls With before it takes p.
\* (mutant) it does not wait for the request in flight.
TakesMore(c) == ~SinkFails(c)
Takes(c) == SinkReady(c)
start_send(h, c, p, next) ==
  \/ /\ Takes(c)
     /\ unbounded_send(p)
     /\ client' = [client EXCEPT ![h] =
          Goes([PollWith(c) EXCEPT !.with = "process", !.in_flight = <<p>>,
                                   !.accepted = Append(@, p)], next)]
  \/ /\ ~Takes(c) /\ ~SinkFails(c)
     /\ client' = [client EXCEPT ![h] = Goes([PollWith(c) EXCEPT !.pending_payload = <<p>>], next)]
     /\ UNCHANGED <<request_rx, response>>
  \/ /\ SinkFails(c)
     /\ client' = [client EXCEPT ![h] = Fails(PollWith(c))]
     /\ UNCHANGED <<request_rx, response>>

-----------------------------------------------------------------------------
(* The poll of a client                                                    *)

Update(h, c) == client' = [client EXCEPT ![h] = c]

Poll(h) ==
  LET c == client[h] IN
    /\ c.pc = "idle"
    /\ Update(h, [c EXCEPT !.woken = FALSE,
                           !.pc = IF c.failed \/ c.shutting_down THEN "shutdown_rx" ELSE "leftover"])
    /\ UNCHANGED <<coreVars, handle, response>>

SendLeftover(h) ==
  LET c == client[h] IN
    /\ c.pc = "leftover"
    /\ IF c.pending_payload = << >>
       THEN Update(h, Goes(c, "rx")) /\ UNCHANGED <<request_rx, response>>
       ELSE start_send(h, [c EXCEPT !.pending_payload = << >>], c.pending_payload[1], "rx")
    /\ UNCHANGED <<core, current, in_body, handle>>

\* One response of the stream, or all of them have been taken.  The stream
\* does not end, as the client owns its sender.  Shutting down, the client
\* only logs an error, which ends the draining.
PollStream(h) ==
  LET c == client[h]
      p == c.responses[1]
      taken == Notify([c EXCEPT !.responses = Tail(@), !.received = Append(@, p)], "slot")
  IN
    /\ c.pc \in {"rx", "shutdown_rx"}
    /\ \/ /\ c.responses = << >>
          /\ Update(h, Goes(Register(c, "rx"), IF c.pc = "rx" THEN "outgoing" ELSE "close"))
       \/ /\ c.responses # << >> /\ response[p] = "ok"
          /\ Update(h, taken)
       \/ /\ c.responses # << >> /\ response[p] = "bad"
          /\ Update(h, IF c.pc = "rx" THEN Fails(taken) ELSE Goes(taken, "close"))
    /\ UNCHANGED <<coreVars, handle, response>>

PollOutgoing(h) ==
  LET c == client[h] IN
    /\ c.pc = "outgoing"
    /\ \/ /\ c.pending_payload # << >>
          /\ Update(h, Goes(c, "flush"))
          /\ UNCHANGED <<request_rx, response>>
       \/ /\ c.pending_payload = << >> /\ c.todo # << >>
          /\ start_send(h, [c EXCEPT !.todo = Tail(@)], Head(c.todo), "outgoing")
       \/ /\ c.pending_payload = << >> /\ c.todo = << >>
          /\ Update(h, IF c.users THEN Goes(Register(c, "strong"), "flush")
                       ELSE Goes([c EXCEPT !.shutting_down = TRUE], "shutdown_rx"))
          /\ UNCHANGED <<request_rx, response>>
    /\ UNCHANGED <<core, current, in_body, handle>>

\* (mutant) poll_complete is that of the channel only.
ChannelOnly(c) == c
Flushed(c) == PollWith(c)
Flush(h) ==
  LET c == client[h] IN
    /\ c.pc = "flush"
    /\ Update(h, IF SinkFails(c) THEN Fails(PollWith(c)) ELSE Goes(Flushed(c), "idle"))
    /\ UNCHANGED <<coreVars, handle, response>>

Close(h) ==
  LET c == client[h] IN
    /\ c.pc = "close"
    /\ Update(h, IF SinkBlocked(c) THEN Goes(PollWith(c), "idle")
                 ELSE [PollWith(c) EXCEPT !.pc = "resolved",
                                          !.result = IF c.failed THEN "error" ELSE "ok"])
    /\ UNCHANGED <<coreVars, handle, response>>

\* The sink goes, with its sender of requests and the future in flight; what
\* the core has of it stays there.
DropClient(h) ==
  LET c == client[h] IN
    /\ c.pc = "resolved" \/ (c.pc = "idle" /\ "client_dropped" \in Faults)
    /\ Update(h, [c EXCEPT !.pc = "dropped", !.woken = FALSE, !.registered = {}, !.todo = << >>,
                           !.pending_payload = << >>, !.with = "empty", !.in_flight = << >>,
                           !.responses = << >>])
    /\ UNCHANGED <<coreVars, handle, response>>

\* A user of the client calls, or the last one goes.
Call(p) ==
  LET h == Owner[p] IN
    /\ h \in Handles /\ ~Gone(client[h]) /\ client[h].users
    /\ response[p] = "none"
    /\ \A q \in {client[h].todo[i] : i \in DOMAIN client[h].todo} : q # p
    /\ ~Contains(client[h].pending_payload, p)
    /\ Update(h, Notify([client[h] EXCEPT !.todo = Append(@, p)], "strong"))
    /\ UNCHANGED <<coreVars, handle, response>>

LastUserGoes(h) ==
  /\ ~Gone(client[h]) /\ client[h].users
  /\ Update(h, Notify([client[h] EXCEPT !.users = FALSE], "strong"))
  /\ UNCHANGED <<coreVars, handle, response>>

-----------------------------------------------------------------------------
(* create_request_processing_future                                        *)

\* Client::request of hyper, limited by a Timeout if there is one.
TakeRequest ==
  /\ core = "running"
  /\ current = << >>
  /\ request_rx # << >>
  /\ current' = <<Head(request_rx)>>
  /\ request_rx' = Tail(request_rx)
  /\ in_body' = FALSE
  /\ UNCHANGED <<core, handle, response, client>>

\* response_tx.send: whoever waits hears of it; if nobody does, it is logged.
InFlight(h) == {client[h].in_flight[i] : i \in DOMAIN client[h].in_flight}
Finish(value) ==
  /\ current # << >>
  /\ response' = [response EXCEPT ![current[1]] = value]
  /\ current' = << >>
  /\ in_body' = FALSE
  /\ client' = [h \in Handles |-> IF current[1] \in InFlight(h) THEN Notify(client[h], "oneshot")
                                  ELSE client[h]]
  /\ UNCHANGED <<core, handle, request_rx>>

HeadArrives ==
  /\ current # << >> /\ ~in_body
  /\ in_body' = TRUE
  /\ UNCHANGED <<core, handle, request_rx, current, response, client>>

\* A status other than 200, or an error of hyper in head or body.
HttpFails == "http_error" \in Faults /\ Finish("error")

\* (mutant) the limit is set up, but not polled.
NoLimit == FALSE
Limited == HasTimeout
TimesOut == Limited /\ ~in_body /\ Finish("error")

BodyEnds ==
  /\ in_body
  /\ \/ Finish("ok")
     \/ "bad_body" \in Faults /\ Finish("bad")

\* Every sender is gone and the queue is empty: for_each resolves.
NoSender == ~handle /\ \A h \in Handles : Gone(client[h])
\* (mutant) the future holds a sender of its own.
NeverEnds == FALSE
CoreEnds ==
  /\ core = "running"
  /\ current = << >> /\ request_rx = << >>
  /\ NoSender
  /\ core' = "stopped"
  /\ UNCHANGED <<handle, request_rx, current, in_body, response, client>>

\* (mutant) nobody hears of it.
StopsSilently ==
  /\ core = "running" /\ "core_stops" \in Faults
  /\ core' = "stopped" /\ request_rx' = << >> /\ current' = << >> /\ in_body' = FALSE
  /\ UNCHANGED <<handle, response, client>>
\* The owner of the core drops it, or its thread panics (Timeout::new may).
CoreStops ==
  /\ "core_stops" \in Faults
  /\ core = "running"
  /\ core' = "stopped"
  /\ request_rx' = << >>
  /\ current' = << >>
  /\ in_body' = FALSE
  /\ response' = [p \in Requests |-> IF response[p] = "pending" THEN "gone" ELSE response[p]]
  /\ client' = [h \in Handles |-> IF Unanswered(client[h]) THEN Notify(client[h], "oneshot")
                                  ELSE client[h]]
  /\ UNCHANGED handle

-----------------------------------------------------------------------------

PollStep(h) ==
  SendLeftover(h) \/ PollStream(h) \/ PollOutgoing(h) \/ Flush(h) \/ Close(h)

Peer == HeadArrives \/ BodyEnds

Next ==
  \/ Build
  \/ DropHandle
  \/ \E h \in Handles : io_pair(h) \/ Poll(h) \/ PollStep(h) \/ DropClient(h) \/ LastUserGoes(h)
  \/ \E p \in Requests : Call(p) \/ Send(p)
  \/ TakeRequest \/ TimesOut \/ CoreEnds
  \/ Peer
  \/ HttpFails
  \/ CoreStops

Spec == Init /\ [][Next]_vars

\* Tasks that are woken are polled, the core drives its future and its timer.
CodeFairness ==
  /\ WF_vars(TakeRequest) /\ WF_vars(TimesOut) /\ WF_vars(CoreEnds)
  /\ \A h \in Handles :
       /\ WF_vars(PollStep(h))
       /\ WF_vars(client[h].woken /\ Poll(h))
       /\ WF_vars(client[h].pc = "resolved" /\ DropClient(h))

\* The HTTP server stops anywhere, or (FairSpec) only before it answers.
CodeFairSpec == Spec /\ CodeFairness
FairSpec == Spec /\ CodeFairness /\ WF_vars(BodyEnds)

-----------------------------------------------------------------------------
(* Properties                                                              *)

AtMostOne == {<< >>} \cup {<<p>> : p \in Requests}
ClientType ==
  [pc : {"none", "idle", "leftover", "rx", "outgoing", "flush", "shutdown_rx", "close",
         "resolved", "dropped"},
   woken : BOOLEAN, registered : SUBSET {"strong", "rx", "oneshot", "slot"}, users : BOOLEAN,
   todo : Seq(Requests), pending_payload : AtMostOne, shutting_down : BOOLEAN,
   failed : BOOLEAN, result : {"none", "ok", "error"},
   with : {"empty", "process", "buffered"}, in_flight : AtMostOne, responses : AtMostOne,
   accepted : Seq(Requests), received : Seq(Requests)]

TypeOK ==
  /\ core \in {"starting", "failed", "running", "stopped"}
  /\ handle \in BOOLEAN
  /\ request_rx \in Seq(Requests)
  /\ current \in AtMostOne
  /\ in_body \in BOOLEAN
  /\ response \in [Requests -> Values]
  /\ client \in [Handles -> ClientType]
  /\ \A h \in Handles : client[h].with = "empty" <=> client[h].in_flight = << >>

(* Between a sink that accepted requests and the stream that gives their   *)
(* responses nothing is lost, repeated or overtaken, as long as the client *)
(* has neither failed nor been dropped (io_pair: with, and_then).          *)
NothingLostOrOvertaken ==
  \A h \in Handles : LET c == client[h] IN
    ~Gone(c) /\ ~c.failed /\ c.result = "none" =>
      c.accepted = c.received \o c.responses \o c.in_flight

(* The queue of the core is unbounded, but no client has more than one     *)
(* request there: start_send waits for the response (With).                *)
InCore == {request_rx[i] : i \in DOMAIN request_rx} \cup {current[i] : i \in DOMAIN current}
OneRequestEach ==
  \A h \in Handles : Cardinality({p \in InCore : Owner[p] = h}) <= 1

(* A request is pending exactly as long as the core has it, and it is      *)
(* there once: whoever waits is answered, and no more than once.           *)
PendingIsHeld ==
  /\ \A p \in Requests : response[p] = "pending" <=> p \in InCore
  /\ Cardinality(InCore) = Len(request_rx) + Len(current)

(* A client fails by a request of its own only, whatever happens to those  *)
(* of others that share the core, and one that fails has a reason.         *)
FailsByItsOwn ==
  \A h \in Handles : client[h].failed =>
    \E p \in Requests : Owner[p] = h /\ response[p] \in {"error", "gone", "bad"}

(* A client that sleeps has nothing to do: it waits for new messages and   *)
(* for the stream, with at most the answer of a request missing; shutting  *)
(* down, it waits for that answer only.                                    *)
Waits(c) == Unanswered(c) /\ "oneshot" \in c.registered
NoLostWakeup ==
  \A h \in Handles : LET c == client[h] IN
    c.pc = "idle" /\ ~c.woken =>
      IF c.failed \/ c.shutting_down THEN Waits(c)
      ELSE /\ c.responses = << >> /\ "rx" \in c.registered
           /\ c.with = "empty" \/ Waits(c)
           /\ IF c.pending_payload = << >>
              THEN c.todo = << >> /\ c.users /\ "strong" \in c.registered
              ELSE Unanswered(c)

(* With a timeout, and bodies that come to an end, every request that was  *)
(* sent comes back, through the stream or as an error that ends its client,*)
(* whatever happens to the core and to the requests of others.             *)
CallsAnswered ==
  \A p \in Requests : response[p] # "none" ~>
    IF Owner[p] = NoHandle THEN response[p] # "pending"
    ELSE Contains(client[Owner[p]].received, p) \/ client[Owner[p]].pc = "dropped"

(* When every handle and client is gone, the future on the core ends, and  *)
(* the thread of standalone with it.                                       *)
CoreReleased == core = "running" /\ NoSender ~> core = "stopped"

(* http/src/lib.rs:233: "Configure the timeout for RPC requests."  The     *)
(* timeout ends with the head of the response: a body may take for ever.   *)
TimeoutCoversRequest ==
  \A p \in Requests : response[p] = "pending" ~> response[p] # "pending"
=============================================================================
