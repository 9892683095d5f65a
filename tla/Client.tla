------------------------------- MODULE Client -------------------------------
(***************************************************************************)
(* The Client future of the core crate (core/src/lib.rs:230-537), which    *)
(* multiplexes the calls and notifications of its handles, and the         *)
(* responses of its server handler, over one transport.                    *)
(*                                                                         *)
(* A poll of the future is a sequence of steps, one per call that a        *)
(* concurrent actor can race with: start_send, one item of transport_rx,   *)
(* one item of outgoing_payload_rx, poll_complete, close.  pc names the    *)
(* next one.  Users of the handles, the transport, the peer and the server *)
(* handler act between any two of them.                                    *)
(***************************************************************************)
EXTENDS ClientHandle, Transport

VARIABLES
  next_id,                  \* id_generator
  pending_client_requests,  \* the map from ids to the calls that wait
  pending_payload,          \* the Option as a sequence of at most one payload
  shutting_down,
  fatal_error,              \* the kind of the error, or "none"
  use_strong, weak_done,    \* outgoing_payload_rx (see SelectWeak) ...
  server_response_rx,       \* ... and its weak half
  server_handler,           \* "running", "ended" or the error its poll will return
  handling,                 \* requests the handler still owes a response
  refused,                  \* history: the errors of process_request that ended the service
  poll_result               \* what the future has resolved with, or "none"

\* The sources the Client future polls (core/src/lib.rs:235-256).
Sources == {"strong",   \* client_handle_rx, the strong half of outgoing_payload_rx
            "weak",     \* server_response_rx, its weak half
            "server",   \* server_handler
            "rx",       \* transport_rx
            "tx"}       \* transport_tx

mapVars == <<next_id, pending_client_requests>>
errorVars == <<shutting_down, fatal_error>>
selectFlags == <<use_strong, weak_done>>
handlerVars == <<server_handler, handling, refused>>
serverVars == <<server_response_rx, handlerVars>>
clientVars == <<mapVars, pending_payload, errorVars, selectFlags, serverVars,
                poll_result>>
vars == <<pc, taskVars, handleVars, transportVars, clientVars>>

\* The client owns server_response_tx, so the weak half never ends.
outgoing_payload_rx ==
  INSTANCE SelectWeak WITH strong <- client_handle_rx, strong_open <- StrongOpen,
                           weak <- server_response_rx, weak_open <- TRUE

\* The kinds of errors a ServerHandler returns, from poll or from
\* process_request: Shutdown, which Client::poll takes for an end, or any
\* other kind, for which HandlerError stands.
HandlerErrors == {"HandlerError", "Shutdown"}
FatalErrors == {"TransportError", "DeserializeError", "HandlerError"}

Init ==
  /\ TaskInit
  /\ HandleInit
  /\ TransportInit
  /\ next_id = 1
  /\ pending_client_requests = {}
  /\ pending_payload = << >>
  /\ shutting_down = FALSE
  /\ fatal_error = "none"
  /\ outgoing_payload_rx!SelectInit
  /\ server_handler = "running"
  /\ handling = {}
  /\ refused = {}
  /\ poll_result = "none"

should_shut_down == fatal_error # "none" \/ shutting_down

-----------------------------------------------------------------------------
(* Client::poll                                                            *)

\* The executor polls the task; nothing stops it from doing so needlessly.
Poll ==
  /\ pc = "idle"
  /\ pc' = IF should_shut_down THEN "shutdown_rx" ELSE "leftover"
  /\ woken' = FALSE
  /\ UNCHANGED <<registered, handleVars, transportVars, clientVars>>

\* A part of handle_messages returned: the next one runs, or Client::poll
\* keeps the error and goes on to handle_shutdown.
\* (mutant) the kind of the error is not looked at.
EveryErrorIsFatal(res, next) ==
  /\ pc' = IF res = "ok" THEN next ELSE "shutdown_rx"
  /\ fatal_error' = IF res = "ok" THEN fatal_error
                    ELSE IF res = "Shutdown" THEN "TransportError" ELSE res
  /\ UNCHANGED shutting_down
Return(res, next) ==
  /\ pc' = IF res = "ok" THEN next ELSE "shutdown_rx"
  /\ shutting_down' = (shutting_down \/ res = "Shutdown")
  /\ fatal_error' = IF res \in FatalErrors THEN res ELSE fatal_error

-----------------------------------------------------------------------------
(* send_payload, on the way to the step "next"                             *)

\* (mutant) a payload the sink has no room for is not kept.
NothingKept(p) == << >>
\* (mutant) it is kept behind the copy that was not taken out.
KeptTwice(p) == Append(pending_payload, p)
Kept(p) == <<p>>
\* (mutant) the leftover payload is cloned where it should be taken.
StillThere == pending_payload
Taken == << >>

send_payload(p, next) ==
  \/ /\ SinkReady
     /\ transport_tx' = Append(transport_tx, p)
     /\ pending_payload' = Taken
     /\ UNCHANGED registered
     /\ Return("ok", next)
  \/ /\ SinkFull
     /\ pending_payload' = Kept(p)
     /\ Register({"tx"})
     /\ UNCHANGED transport_tx
     /\ Return("ok", next)
  \/ /\ tx_broken
     /\ pending_payload' = << >>
     /\ UNCHANGED <<transport_tx, registered>>
     /\ Return("TransportError", next)

\* handle_messages first tries the payload a full sink refused earlier.
SendLeftover ==
  /\ pc = "leftover"
  /\ \/ /\ pending_payload = << >>
        /\ pc' = "server"
        /\ UNCHANGED <<transport_tx, pending_payload, registered, errorVars>>
     \/ \E p \in {pending_payload[i] : i \in DOMAIN pending_payload} :
           send_payload(p, "server")
  /\ UNCHANGED <<woken, handleVars, delivered, tx_broken, streamVars, peerVars,
                 mapVars, selectFlags, serverVars, poll_result>>

\* poll_server: an ended handler shuts the client down at its next poll, but
\* this one goes on; an error of the handler ends it here, as its kind says.
PollServer ==
  /\ pc = "server"
  /\ \/ /\ server_handler = "running"
        /\ Register({"server"})
        /\ Return("ok", "rx")
     \/ /\ server_handler = "ended"
        /\ shutting_down' = TRUE
        /\ pc' = "rx"
        /\ UNCHANGED <<registered, fatal_error>>
     \/ /\ server_handler \in HandlerErrors
        /\ UNCHANGED registered
        /\ Return(server_handler, "rx")
  /\ UNCHANGED <<woken, handleVars, transportVars, mapVars, pending_payload,
                 selectFlags, serverVars, poll_result>>

-----------------------------------------------------------------------------
(* poll_transport_rx, part of handle_messages at "rx" and of               *)
(* handle_shutdown at "shutdown_rx", where its errors are only logged      *)

\* One more item is drained after this one.
\* (mutant) one item per poll.
OneItemPerPoll == IF pc = "rx" THEN "outgoing" ELSE "close"
DrainOn == pc
AfterRx == IF pc = "rx" THEN "outgoing" ELSE "close"

RxReturn(res, next) ==
  \/ pc = "rx" /\ Return(res, next)
  \/ /\ pc = "shutdown_rx"
     /\ pc' = IF res = "ok" THEN next ELSE "close"
     /\ UNCHANGED errorVars

\* HashMap::remove, and the completion channel it held, if any.
\* (mutant) the oldest call waits for this response, whatever its id.
Oldest(id) ==
  {e \in pending_client_requests : \A f \in pending_client_requests : e.id <= f.id}
Removed(id) == {e \in pending_client_requests : e.id = id}

handle_response(msg) ==
  /\ pending_client_requests' = pending_client_requests \ Removed(msg.id)
  /\ \/ /\ Removed(msg.id) = {}
        /\ UNCHANGED oneshot
     \/ \E e \in Removed(msg.id) : Complete(e.body, msg.body)
  /\ RxReturn("ok", DrainOn)
  /\ UNCHANGED handlerVars

\* ServerHandler::process_request of any implementation: it keeps the
\* sender to respond later, owes nothing, refuses the request, or keeps a
\* future that has failed already, of which the task is not told.
process_request(r) ==
  /\ \/ /\ handling' = handling \cup {r}
        /\ RxReturn("ok", DrainOn)
        /\ UNCHANGED <<server_handler, refused>>
     \/ /\ RxReturn("ok", DrainOn)
        /\ UNCHANGED handlerVars
     \/ /\ "handler_rejects" \in Faults
        /\ \E kind \in HandlerErrors :
             /\ RxReturn(kind, DrainOn)
             /\ refused' = refused \cup (IF pc = "rx" THEN {kind} ELSE {})
        /\ UNCHANGED <<server_handler, handling>>
     \/ /\ "handler_error" \in Faults
        /\ server_handler = "running"
        /\ server_handler' \in HandlerErrors
        /\ RxReturn("ok", DrainOn)
        /\ UNCHANGED <<handling, refused>>
  /\ UNCHANGED <<oneshot, pending_client_requests>>

HandleTransportRxPayload ==
  /\ pc \in {"rx", "shutdown_rx"}
  /\ transport_rx # << >>
  /\ transport_rx' = Tail(transport_rx)
  /\ LET msg == Head(transport_rx) IN
       \/ msg.kind = "response" /\ handle_response(msg)
       \/ msg.kind = "request" /\ process_request(msg.body)
       \/ /\ msg.kind = "invalid"
          /\ RxReturn("DeserializeError", DrainOn)
          /\ UNCHANGED <<oneshot, pending_client_requests, handlerVars>>
  /\ UNCHANGED <<taskVars, handle, fut, client_handle_rx, sinkVars, rx_end,
                 peerVars, next_id, pending_payload, selectFlags,
                 server_response_rx, poll_result>>

\* NotReady, the end of the stream or its error.
TransportRxDrained ==
  /\ pc \in {"rx", "shutdown_rx"}
  /\ transport_rx = << >>
  /\ \/ /\ rx_end = "open"
        /\ Register({"rx"})
        /\ RxReturn("ok", AfterRx)
     \/ /\ rx_end = "eof"
        /\ UNCHANGED registered
        /\ RxReturn("Shutdown", AfterRx)
     \/ /\ rx_end = "error"
        /\ UNCHANGED registered
        /\ RxReturn("TransportError", AfterRx)
  /\ UNCHANGED <<woken, handleVars, transportVars, mapVars, pending_payload,
                 selectFlags, serverVars, poll_result>>

-----------------------------------------------------------------------------
(* poll_outgoing_messages                                                  *)

\* While a payload waits for the sink, no new message is taken.
\* (mutant) a waiting payload does not stop the loop.
Regardless == TRUE
MayTakeMessage == pending_payload = << >>

\* id_generator.next().  Its 64 bits do not run out in any run.
\* (mutant) the id of a call is used for the next one too.
IdKept == next_id
IdAfter == next_id + 1

\* HashMap::insert replaces the entry of an id.
add_new_call(c) ==
  pending_client_requests' =
    {e \in pending_client_requests : e.id # next_id} \cup {[id |-> next_id, body |-> c]}

TakeCall(c) ==
  /\ c \in Calls
  /\ next_id' = IdAfter
  /\ add_new_call(c)
  /\ send_payload([id |-> next_id, body |-> c], "outgoing")
  /\ UNCHANGED oneshot

\* The future of a notification is told before the payload is sent.
TakeNote(n) ==
  /\ n \in Notes
  /\ Complete(n, n)
  /\ send_payload([id |-> 0, body |-> n], "outgoing")
  /\ UNCHANGED mapVars

PollOutgoing ==
  /\ pc = "outgoing"
  /\ MayTakeMessage
  /\ \/ \E m \in Outgoing :
          /\ outgoing_payload_rx!TakeStrong(m)
          /\ TakeCall(m) \/ TakeNote(m)
     \/ \E r \in Requests :
          /\ outgoing_payload_rx!TakeWeak(r)
          /\ send_payload([id |-> 0, body |-> r], "outgoing")
          /\ UNCHANGED <<oneshot, mapVars>>
     \/ /\ outgoing_payload_rx!NotReady
        /\ Register({"strong", "weak"})
        /\ Return("ok", "flush")
        /\ UNCHANGED <<oneshot, mapVars, pending_payload, transport_tx>>
     \/ /\ outgoing_payload_rx!Finish
        /\ Return("Shutdown", "flush")
        /\ UNCHANGED <<oneshot, mapVars, pending_payload, transport_tx, registered>>
  /\ UNCHANGED <<woken, handle, fut, delivered, tx_broken, streamVars, peerVars,
                 handlerVars, poll_result>>

OutgoingMustWait ==
  /\ pc = "outgoing"
  /\ ~MayTakeMessage
  /\ pc' = "flush"
  /\ UNCHANGED <<taskVars, handleVars, transportVars, clientVars>>

\* poll_transport_tx, the last part of handle_messages.
Flush ==
  /\ pc = "flush"
  /\ \/ /\ tx_broken
        /\ UNCHANGED registered
        /\ Return("TransportError", "idle")
     \/ /\ SinkFlushing
        /\ Register({"tx"})
        /\ Return("ok", "idle")
     \/ /\ SinkFlushed
        /\ UNCHANGED registered
        /\ Return("ok", "idle")
  /\ UNCHANGED <<woken, handleVars, transportVars, mapVars, pending_payload,
                 selectFlags, serverVars, poll_result>>

-----------------------------------------------------------------------------
(* The rest of handle_shutdown, and the end of the future                  *)

\* close() has nothing more to do, or fails, which is only logged.
\* (mutant) the client does not wait for it.
ClosedAnyhow == TRUE
Closed == ~SinkFlushing

Close ==
  /\ pc = "close"
  /\ \/ /\ SinkFlushing
        /\ Register({"tx"})
        /\ pc' = "idle"
        /\ UNCHANGED <<fatal_error, poll_result>>
     \/ /\ Closed
        /\ poll_result' = IF fatal_error = "none" THEN "ok" ELSE fatal_error
        /\ fatal_error' = "none"
        /\ pc' = "resolved"
        /\ UNCHANGED registered
  /\ UNCHANGED <<woken, handleVars, transportVars, mapVars, pending_payload,
                 shutting_down, selectFlags, serverVars>>

\* The executor drops a future that has resolved; its owner may drop it
\* before that.  What it owns goes with it: both halves of
\* outgoing_payload_rx, the completion channels, the handler, the transport.
DropClient ==
  /\ pc = "resolved" \/ (pc = "idle" /\ "client_dropped" \in Faults)
  /\ pc' = "dropped"
  /\ pending_client_requests' = {}
  /\ pending_payload' = << >>
  /\ client_handle_rx' = << >>
  /\ server_response_rx' = << >>
  /\ handling' = {}
  /\ transport_tx' = << >>
  /\ transport_rx' = << >>
  /\ registered' = {}
  /\ woken' = FALSE
  /\ UNCHANGED <<handle, fut, oneshot, delivered, tx_broken, rx_end, peerVars,
                 next_id, errorVars, selectFlags, server_handler, refused, poll_result>>

-----------------------------------------------------------------------------
(* The server handler, in whatever task it does its work                   *)

HandlerRespond(r) ==
  /\ ~Dropped
  /\ r \in handling
  /\ handling' = handling \ {r}
  /\ server_response_rx' = Append(server_response_rx, r)
  /\ Notify("weak")
  /\ UNCHANGED <<server_handler, refused>>

HandlerStops(how) ==
  /\ ~Dropped
  /\ server_handler = "running"
  /\ \/ how = "ended" /\ "handler_ends" \in Faults
     \/ how \in HandlerErrors /\ "handler_error" \in Faults
  /\ server_handler' = how
  /\ Notify("server")
  /\ UNCHANGED <<handling, refused, server_response_rx>>

Handler ==
  \/ \E r \in Requests : HandlerRespond(r)
  \/ \E how \in {"ended"} \cup HandlerErrors : HandlerStops(how)

-----------------------------------------------------------------------------
(* A completion channel is held by its message in the channel or by its    *)
(* entry in the map.                                                       *)
CompletionHeld(m) ==
  \/ Contains(client_handle_rx, m)
  \/ \E e \in pending_client_requests : e.body = m

UserStep(m) ==
  \/ Invoke(m)
  \/ "bad_params" \in Faults /\ Reject(m)
  \/ Send(m)
  \/ Sent(m)
  \/ Resolve(m, CompletionHeld(m))
  \/ "abandon" \in Faults /\ Abandon(m)

User == (\E m \in Outgoing : UserStep(m)) \/ DropHandle

\* One step of a poll that has begun.
PollStep ==
  \/ SendLeftover
  \/ PollServer
  \/ HandleTransportRxPayload
  \/ TransportRxDrained
  \/ PollOutgoing
  \/ OutgoingMustWait
  \/ Flush
  \/ Close

Next ==
  \/ Poll
  \/ PollStep
  \/ DropClient
  \/ User /\ UNCHANGED <<pc, transportVars, clientVars>>
  \/ TransportNext /\ UNCHANGED <<pc, handleVars, clientVars>>
  \/ /\ Handler
     /\ UNCHANGED <<pc, handleVars, transportVars, mapVars, pending_payload,
                    errorVars, selectFlags, poll_result>>

\* What the code's schedule guarantees: a poll that has begun goes on to its
\* end, a woken task is polled, a resolved future is dropped.
ClientFairness ==
  /\ WF_vars(PollStep)
  /\ WF_vars(Poll /\ woken)
  /\ WF_vars(DropClient /\ pc = "resolved")

\* Users poll the futures they keep.
UserFairness ==
  \A m \in Outgoing : WF_vars(/\ Send(m) \/ Sent(m) \/ Resolve(m, CompletionHeld(m))
                             /\ UNCHANGED <<pc, transportVars, clientVars>>)

\* The sink gets rid of what it buffers, and the peer answers every call.
PeerFairness ==
  /\ WF_vars(Deliver /\ UNCHANGED <<pc, handleVars, clientVars>>)
  /\ \A k \in 1..Cardinality(Outgoing \cup Requests) :
       WF_vars(Reply(k) /\ UNCHANGED <<pc, handleVars, clientVars>>)

Spec == Init /\ [][Next]_vars
FairSpec == Spec /\ ClientFairness /\ UserFairness /\ PeerFairness

-----------------------------------------------------------------------------
(* Properties                                                              *)

TaskType ==
  /\ pc \in {"idle", "leftover", "server", "rx", "outgoing", "flush",
            "shutdown_rx", "close", "resolved", "dropped"}
  /\ woken \in BOOLEAN
  /\ registered \subseteq Sources
HandleType ==
  /\ handle \in BOOLEAN
  /\ fut \in [Outgoing -> FutureStates]
  /\ oneshot \in [Outgoing -> Outgoing \cup {NoValue}]
  /\ client_handle_rx \in Seq(Outgoing)
SinkType ==
  /\ transport_tx \in Seq(Payload) /\ Len(transport_tx) <= SinkCap
  /\ delivered \in Seq(Payload)
  /\ tx_broken \in BOOLEAN
  /\ pending_payload \in Seq(Payload) /\ Len(pending_payload) <= 1
StreamType ==
  /\ transport_rx \in Seq(Incoming)
  /\ rx_end \in {"open", "eof", "error"}
  /\ replied \subseteq Nat \ {0} /\ asked \subseteq Requests /\ noise \in 0..MaxNoise
StateType ==
  /\ next_id \in Nat \ {0}
  /\ pending_client_requests \subseteq [id : Nat \ {0}, body : Calls]
  /\ shutting_down \in BOOLEAN
  /\ fatal_error \in FatalErrors \cup {"none"}
  /\ poll_result \in FatalErrors \cup {"none", "ok"}
ServerType ==
  /\ use_strong \in BOOLEAN /\ weak_done = FALSE
  /\ server_response_rx \in Seq(Requests)
  /\ server_handler \in {"running", "ended"} \cup HandlerErrors
  /\ handling \subseteq Requests /\ refused \subseteq HandlerErrors
TypeOK ==
  TaskType /\ HandleType /\ SinkType /\ StreamType /\ StateType /\ ServerType

(* A call is answered with what the peer sent for this very call, in        *)
(* whatever order and however often the peer answers (the ids of           *)
(* handle_client_payload and the map of handle_response).                  *)
OwnAnswer == \A m \in Outgoing : oneshot[m] \in {m, NoValue}

(* Wherever an id travels (the map, the wire, an answer on its way back),  *)
(* it stands for the same call (IdGenerator::next, handle_client_payload). *)
Claims ==
  pending_client_requests
    \cup {p \in ToSet(delivered) \cup ToSet(transport_tx) \cup ToSet(pending_payload) :
            p.id # 0}
    \cup {[id |-> m.id, body |-> m.body] :
            m \in {x \in ToSet(transport_rx) : x.kind = "response" /\ x.id # 0}}
IdsAgree ==
  /\ \A p \in Claims : p.id < next_id
  /\ \A p, q \in Claims : p.id = q.id => p.body = q.body

(* While the client lives, a future that waits has its value or somebody   *)
(* holds its completion channel: no call fails with Shutdown before the    *)
(* client is gone (handle_client_payload, handle_response).                *)
NoCallForgotten ==
  \A m \in Outgoing :
     fut[m] = "waiting" /\ oneshot[m] = NoValue /\ ~Dropped => CompletionHeld(m)

\* Everything handed to the sink or kept for it, in that order.
Wire == delivered \o transport_tx \o pending_payload

(* Every payload, of a call, a notification or a response, reaches the     *)
(* sink at most once, and the calls reach it in the order in which they    *)
(* were taken from the channel, by their ids: the payload a full sink      *)
(* refused goes first (handle_messages, poll_outgoing_messages).           *)
OnceAndInOrder ==
  \A i, j \in DOMAIN Wire : i < j =>
     /\ Wire[i].body # Wire[j].body
     /\ Wire[i].id > 0 /\ Wire[j].id > 0 => Wire[i].id < Wire[j].id

OnWire(p) == \E i \in DOMAIN Wire : Wire[i] = p

(* A call waits for an answer, and a notification is reported sent, only   *)
(* if its payload has been given to the sink or is kept for it, whatever   *)
(* happens, as long as the sink works and the client has not gone.         *)
WaitingIsSent ==
  tx_broken \/ Dropped \/
    /\ \A e \in pending_client_requests : OnWire(e)
    /\ \A n \in Notes : oneshot[n] = n => OnWire([id |-> 0, body |-> n])

(* When the client ends because its users are gone, everything it took     *)
(* from them has reached the peer (handle_shutdown closes the sink first). *)
EndedByUsers ==
  /\ poll_result = "ok" /\ ~tx_broken
  /\ rx_end # "eof"
  /\ server_handler \notin {"ended", "Shutdown"} /\ "Shutdown" \notin refused
DeliveredBodies == {delivered[i].body : i \in DOMAIN delivered}
CleanEndDelivers ==
  EndedByUsers =>
    /\ \A id \in 1..(next_id - 1) : \E i \in DOMAIN delivered : delivered[i].id = id
    /\ \A n \in Notes : oneshot[n] = n => n \in DeliveredBodies

(* However the client ends, unless the sink fails, all that is lost of     *)
(* what it took from its users is the payload a full sink had refused      *)
(* (send_payload; handle_shutdown closes the sink, but does not retry).    *)
OnlyLeftoverIsLost ==
  pc = "resolved" /\ ~tx_broken =>
    LET safe == delivered \o pending_payload IN
      /\ \A id \in 1..(next_id - 1) : \E i \in DOMAIN safe : safe[i].id = id
      /\ \A n \in Notes : oneshot[n] = n => \E i \in DOMAIN safe : safe[i].body = n

(* What the future resolves with is what happened to it: Ok when the       *)
(* stream or the users ended, or when the handler did or said Shutdown, in *)
(* its poll or for a request; otherwise the error that did happen, of the  *)
(* transport, of a payload or of the handler (Client::poll, poll_server,   *)
(* handle_shutdown).                                                       *)
ResultJustified ==
  /\ poll_result = "ok" =>
       \/ ~StrongOpen
       \/ rx_end = "eof"
       \/ server_handler \in {"ended", "Shutdown"}
       \/ "Shutdown" \in refused
  /\ poll_result = "TransportError" => tx_broken \/ rx_end = "error"
  /\ poll_result = "DeserializeError" => noise > 0
  /\ poll_result = "HandlerError" =>
       server_handler = "HandlerError" \/ "HandlerError" \in refused

(* The client never sleeps while there is something it should do: between  *)
(* polls, unless it is queued for one, every source it serves is empty and *)
(* the task is registered there; what it leaves unserved is held back by   *)
(* a full sink or a sink that is being closed, which will wake it.  (An    *)
(* ended handler is an exception: poll_server notes it, and the task       *)
(* sleeps once more as one that serves, though not for the handler.)       *)
AsleepServing ==
  /\ transport_rx = << >> /\ rx_end = "open" /\ "rx" \in registered
  /\ transport_tx # << >> => "tx" \in registered
  /\ IF pending_payload = << >>
     THEN /\ client_handle_rx = << >> /\ StrongOpen /\ "strong" \in registered
          /\ server_response_rx = << >> /\ "weak" \in registered
     ELSE SinkFull
AsleepClosing == SinkFlushing /\ "tx" \in registered
NoLostWakeup ==
  pc = "idle" /\ ~woken =>
    IF should_shut_down
    THEN AsleepClosing \/ (server_handler = "ended" /\ AsleepServing)
    ELSE AsleepServing /\ "server" \in registered

(* Every call and notification comes to an end, if the peer answers what   *)
(* it receives: through its answer, or with Shutdown when the client goes  *)
(* (ClientHandle "for the requests to ever be resolved, the Client future  *)
(* has to be driven").                                                     *)
CallsResolve ==
  \A m \in Outgoing : fut[m] = "created" ~> fut[m] \in Resolved \cup {"abandoned"}

(* Once all handles and all futures that own a sender are gone the client  *)
(* goes too, although its own sender of responses stays.                   *)
ClientEnds == ~StrongOpen ~> Dropped

-----------------------------------------------------------------------------
(* What the users of the handles see of it                                 *)

\* The calls the peer has answered.
Served == {c \in Calls : \E i \in DOMAIN delivered :
                          delivered[i].body = c /\ delivered[i].id \in replied}

Session == INSTANCE RpcSession WITH
  phase <- [c \in Calls |-> IF fut[c] \in Unresolved THEN "open" ELSE fut[c]],
  served <- Served,
  up <- ~Dropped

(* A Client with its handles, its transport and a peer implements the      *)
(* session its users see: every call ends once, answered by its own answer *)
(* or with Shutdown after the client is gone, and it does end once the     *)
(* peer has answered it or the client is gone (ClientHandle and Client).   *)
ImplementsFairSession == Session!FairSpec
=============================================================================
