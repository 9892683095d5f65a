------------------------------- MODULE Server -------------------------------
(***************************************************************************)
(* The default server handler (core/src/server.rs): the handlers its       *)
(* ServerHandle adds and removes, and the futures of the requests that     *)
(* are being handled.                                                      *)
(*                                                                         *)
(* Server is polled by the Client that owns it, in the task of the Client. *)
(* pc names the part of a Client::poll that runs: "drain" and "futures"    *)
(* are Server::poll, "rx" is where the Client calls process_request, in    *)
(* "outgoing" it takes the responses out of the channel, unless the sink   *)
(* has refused a payload.  When it shuts down, it goes on to call          *)
(* process_request ("shutdown_rx") until the sink is closed ("close"), and *)
(* Server::poll runs no more.  Handlers run in any task, users hold clones *)
(* of the ServerHandle.                                                    *)
(*                                                                         *)
(* Of the Client (see Client for all of it) there is here what the server  *)
(* depends on.  The payloads of its own calls and the reasons of its own   *)
(* to shut down come at any time, and nothing ever makes them come.        *)
(***************************************************************************)
EXTENDS Task, Naturals, Sequences, SequencesExt

CONSTANTS
  Adds, Removes,   \* calls of ServerHandle::add and ServerHandle::remove
  Requests,        \* requests the peer makes, single or batch
  Calls,           \* the calls in them
  Content,         \* the calls of each request
  Name,            \* the method name of each add, remove and call
  Kind,            \* of each add "method" or "notification", of a call also "invalid"
  NoHandler,
  SinkCap,         \* the payloads the sink of the transport buffers
  Faults           \* "handler_error": the future of a handler may fail,
                   \* "eager_error": even in its first poll

Ops == Adds \cup Removes
Names == {Name[x] : x \in Ops \cup Calls}

ASSUME ContentIsCalls == Content \in [Requests -> SUBSET Calls]
ASSUME ContentIsDisjoint ==
  \A q, r \in Requests : q # r => Content[q] \cap Content[r] = {}
ASSUME KindsOfCalls ==
  /\ \A a \in Adds : Kind[a] \in {"method", "notification"}
  /\ \A c \in Calls : Kind[c] \in {"method", "notification", "invalid"}
ASSUME SinkCapIsPositive == SinkCap \in Nat \ {0}
ASSUME NoHandlerIsNone == NoHandler \notin Adds /\ Adds \cap Removes = {}

VARIABLES
  op,               \* the state of the future of each add and remove
  returned,         \* the handler a remove or a failed add gives back
  handle,           \* some ServerHandle is alive
  handler_chan,     \* the messages in the channel of the handles
  chan_taken,       \* the channel has ended and handler_chan is None
  handler_map,      \* the handler set for each name; a handler is its add
  pending_futures,  \* the requests with a future, in the order of their keys
  future,           \* of each request: "none", "handling", "sending", "failed", "done"
  run,              \* of each call: "none", "running", "ok", "error"
  handled_by,       \* the handler a call was given to, or NoHandler
  to_poll,          \* what this Server::poll has yet to poll
  transport_rx,     \* requests the Client has yet to read
  asked,            \* the requests the peer has made
  responses,        \* server_response_tx: requests whose response is queued
  answered,         \* the requests whose response the Client has taken, in order
  transport_tx,     \* how many payloads the sink has buffered
  pending_payload,  \* the Client keeps a payload the sink has refused
  should_shut_down  \* shutting_down or fatal_error of the Client is set

handleVars == <<op, returned, handle, handler_chan>>
mapVars == <<chan_taken, handler_map>>
futureVars == <<pending_futures, future, run, handled_by>>
peerVars == <<transport_rx, asked>>
responseVars == <<responses, answered>>
sinkVars == <<transport_tx, pending_payload>>
clientVars == <<sinkVars, should_shut_down>>
serverVars == <<mapVars, futureVars, to_poll>>
vars == <<pc, taskVars, handleVars, serverVars, peerVars, responseVars, clientVars>>

Init ==
  /\ TaskInit
  /\ op = [o \in Ops |-> "none"]
  /\ returned = [o \in Ops |-> NoHandler]
  /\ handle = TRUE
  /\ handler_chan = << >>
  /\ chan_taken = FALSE
  /\ handler_map = [n \in Names |-> NoHandler]
  /\ pending_futures = << >>
  /\ future = [r \in Requests |-> "none"]
  /\ run = [c \in Calls |-> "none"]
  /\ handled_by = [c \in Calls |-> NoHandler]
  /\ to_poll = << >>
  /\ transport_rx = << >>
  /\ asked = {}
  /\ responses = << >>
  /\ answered = << >>
  /\ transport_tx = 0 /\ pending_payload = FALSE
  /\ should_shut_down = FALSE

-----------------------------------------------------------------------------
(* ServerHandle::add and ServerHandle::remove: a future that sends one     *)
(* message, owns a sender until it is received, and waits for its result.  *)
(* "ok", "exists", "nohandler", "shutdown": what it resolves with.         *)

HandlesOpen == handle \/ \E o \in Ops : op[o] \in {"created", "queued"}
HandlesMayHaveGone == IF HandlesOpen' THEN UNCHANGED taskVars ELSE Notify("chan")

Become(o, state) == op' = [op EXCEPT ![o] = state]
GiveBack(o, h) == returned' = [returned EXCEPT ![o] = h]

CallHandle(o) ==
  /\ handle
  /\ op[o] = "none"
  /\ Become(o, "created")
  /\ UNCHANGED <<returned, handle, handler_chan, taskVars>>

\* An add that finds the channel closed gives its handler back.
SendOp(o) ==
  /\ op[o] = "created"
  /\ \/ /\ Dropped
        /\ Become(o, "shutdown")
        /\ GiveBack(o, IF o \in Adds THEN o ELSE NoHandler)
        /\ UNCHANGED <<handler_chan, taskVars>>
     \/ /\ ~Dropped
        /\ Become(o, "queued")
        /\ handler_chan' = Append(handler_chan, o)
        /\ Notify("chan")
        /\ UNCHANGED returned
  /\ UNCHANGED handle

\* The message was dropped with the server, and its result will not come:
\* remove maps that to Shutdown, add takes it for unreachable.
Cancel(o) ==
  /\ op[o] = "queued"
  /\ Dropped
  /\ Become(o, IF o \in Adds THEN "panicked" ELSE "shutdown")
  /\ UNCHANGED <<returned, handle, handler_chan, taskVars>>

DropHandle ==
  /\ handle
  /\ handle' = FALSE
  /\ UNCHANGED <<op, returned, handler_chan>>
  /\ HandlesMayHaveGone

User ==
  /\ (\E o \in Ops : CallHandle(o) \/ SendOp(o) \/ Cancel(o)) \/ DropHandle
  /\ UNCHANGED <<pc, serverVars, peerVars, responseVars, clientVars>>

-----------------------------------------------------------------------------
(* Client::poll as far as the server can tell, in the order of its parts;  *)
(* between the first and the next the server itself is polled.             *)

Poll ==
  /\ pc = "idle"
  /\ pc' = IF should_shut_down THEN "shutdown_rx" ELSE "leftover"
  /\ woken' = FALSE
  /\ UNCHANGED <<registered, handleVars, serverVars, peerVars, responseVars, clientVars>>

\* A part of handle_messages was fine and "next" follows, or it failed and
\* handle_shutdown does.
GoOn(next) == pc' = next /\ UNCHANGED should_shut_down
ShutDown == pc' = "shutdown_rx" /\ should_shut_down' = TRUE

\* Client::send_payload, in a step that sets off the wakers of "heard": the
\* sink takes the payload, refuses it for now, or fails.
send_payload(next, heard) ==
  \/ /\ transport_tx < SinkCap
     /\ transport_tx' = transport_tx + 1
     /\ pending_payload' = FALSE
     /\ registered' = registered \ heard
     /\ GoOn(next)
  \/ /\ transport_tx = SinkCap
     /\ pending_payload' = TRUE
     /\ registered' = (registered \ heard) \cup {"tx"}
     /\ UNCHANGED transport_tx
     /\ GoOn(next)
  \/ /\ pending_payload' = FALSE
     /\ registered' = registered \ heard
     /\ UNCHANGED transport_tx
     /\ ShutDown

\* (mutant) the kept payload is not tried again.
Forgotten == FALSE
Leftover == pending_payload

SendLeftover ==
  /\ pc = "leftover"
  /\ \/ Leftover /\ send_payload("drain", {})
     \/ ~Leftover /\ GoOn("drain") /\ UNCHANGED <<registered, sinkVars>>
  /\ UNCHANGED <<woken, handleVars, serverVars, peerVars, responseVars>>

\* A part of handle_messages fails for a reason that is none of the server's:
\* the sink, the stream, a payload nobody understands, no users any more.
ClientStops ==
  /\ pc \in {"rx", "outgoing", "flush"}
  /\ ShutDown
  /\ UNCHANGED <<taskVars, handleVars, serverVars, peerVars, responseVars, sinkVars>>

-----------------------------------------------------------------------------
(* Server::poll: drain_handler_chan, one message a step                    *)

\* Handlers::add
\* (mutant) the handler set before is replaced.
Overwrites(n) == TRUE
IsFree(n) == handler_map[n] = NoHandler
AddHandler(a) ==
  \/ /\ IsFree(Name[a])
     /\ handler_map' = [handler_map EXCEPT ![Name[a]] = a]
     /\ Become(a, "ok")
     /\ UNCHANGED returned
  \/ /\ ~IsFree(Name[a])
     /\ Become(a, "exists")
     /\ GiveBack(a, a)
     /\ UNCHANGED handler_map

\* Handlers::remove
\* (mutant) the handler is looked up, not taken out.
Left(n) == handler_map
TakenOut(n) == [handler_map EXCEPT ![n] = NoHandler]
RemoveHandler(d) ==
  /\ GiveBack(d, handler_map[Name[d]])
  /\ Become(d, IF handler_map[Name[d]] = NoHandler THEN "nohandler" ELSE "ok")
  /\ handler_map' = TakenOut(Name[d])

\* (mutant) the loop may stop before the channel is empty.
MayStop == TRUE
ChanEmpty == handler_chan = << >>

DrainHandlerChan ==
  /\ pc = "drain"
  /\ ~chan_taken /\ handler_chan # << >>
  /\ handler_chan' = Tail(handler_chan)
  /\ LET o == Head(handler_chan) IN
       (o \in Adds /\ AddHandler(o)) \/ (o \in Removes /\ RemoveHandler(o))
  /\ UNCHANGED <<pc, taskVars, handle, chan_taken, futureVars, to_poll, peerVars, responseVars,
                 clientVars>>

HandlerChanDrained ==
  /\ pc = "drain"
  /\ \/ chan_taken /\ UNCHANGED <<registered, chan_taken>>
     \/ /\ ~chan_taken /\ ChanEmpty
        /\ chan_taken' = ~HandlesOpen
        /\ IF HandlesOpen THEN Register({"chan"}) ELSE UNCHANGED registered
  /\ to_poll' = pending_futures
  /\ pc' = "futures"
  /\ UNCHANGED <<woken, handleVars, handler_map, futureVars, peerVars, responseVars, clientVars>>

-----------------------------------------------------------------------------
(* The future of a request.  It waits for its calls, puts the response, if *)
(* any, into the channel, and waits until the Client has taken it.         *)

HasFailed(r)   == \E c \in Content[r] : run'[c] = "error"
\* (mutant) one result is enough.
HasBegun(r)    == \E c \in Content[r] : run'[c] = "ok"
HasFinished(r) == \A c \in Content[r] : run'[c] = "ok"
\* A call with an output: everything but notifications.
HasOutput(r)   == \E c \in Content[r] : Kind[c] # "notification"

Registered(r) == registered' = registered \cup {r}
Respond(r) ==
  /\ responses' = Append(responses, r)
  /\ woken' = (woken \/ "weak" \in registered)
  /\ registered' = (registered \ {"weak"}) \cup {r}

\* What a poll of the future of r finds when it is in the state "from".
Drive(r, from, to) ==
  \/ /\ from = "handling" /\ HasFailed(r)
     /\ to = "failed"
     /\ UNCHANGED <<taskVars, responses>>
  \/ /\ from = "handling" /\ ~HasFailed(r) /\ ~HasFinished(r)
     /\ to = "handling"
     /\ Registered(r)
     /\ UNCHANGED <<woken, responses>>
  \/ /\ from = "handling" /\ HasFinished(r) /\ HasOutput(r)
     /\ to = "sending"
     /\ Respond(r)
  \/ /\ from = "handling" /\ HasFinished(r) /\ ~HasOutput(r)
     /\ to = "done"
     /\ UNCHANGED <<taskVars, responses>>
  \/ /\ from = "sending" /\ Contains(responses, r)
     /\ to = "sending"
     /\ Registered(r)
     /\ UNCHANGED <<woken, responses>>
  \/ /\ from = "sending" /\ ~Contains(responses, r)
     /\ to = "done"
     /\ UNCHANGED <<taskVars, responses>>
  \/ /\ from = "failed"
     /\ to = "failed"
     /\ UNCHANGED <<taskVars, responses>>

DriveStates == {"handling", "sending", "failed", "done"}

\* One future of the pass; the first one that fails ends it, and with it
\* the service of the Client.
PollFuture ==
  /\ pc = "futures"
  /\ to_poll # << >>
  /\ UNCHANGED <<handleVars, mapVars, pending_futures, run, handled_by, peerVars, answered, sinkVars>>
  /\ LET r == Head(to_poll) IN
       \E to \in DriveStates :
         /\ Drive(r, future[r], to)
         /\ future' = [future EXCEPT ![r] = to]
         /\ IF to = "failed" THEN ShutDown ELSE GoOn("futures")
  /\ to_poll' = Tail(to_poll)

\* The futures that were ready are removed, one key after the other.
\* (mutant) they stay.
AllStay(r) == TRUE
StillPending(r) == future[r] # "done"
RemoveFuture ==
  /\ pc = "futures"
  /\ to_poll = << >>
  /\ \E i \in DOMAIN pending_futures :
       /\ ~StillPending(pending_futures[i])
       /\ \A j \in 1..(i - 1) : StillPending(pending_futures[j])
       /\ pending_futures' = RemoveAt(pending_futures, i)
  /\ UNCHANGED <<pc, taskVars, handleVars, mapVars, future, run, handled_by, to_poll,
                 peerVars, responseVars, clientVars>>

FuturesPolled ==
  /\ pc = "futures"
  /\ to_poll = << >>
  /\ \A r \in ToSet(pending_futures) : StillPending(r)
  /\ pc' = "rx"
  /\ UNCHANGED <<taskVars, handleVars, serverVars, peerVars, responseVars, clientVars>>

-----------------------------------------------------------------------------
(* ServerHandler::process_request                                          *)

\* Handlers::handle_single_call: a handler of the right kind runs (and may
\* be done at once), anything else is settled here.
HandlerFor(c) ==
  LET h == IF Kind[c] = "invalid" THEN NoHandler ELSE handler_map[Name[c]]
  IN IF h # NoHandler /\ Kind[h] = Kind[c] THEN h ELSE NoHandler

Outcomes(c) ==
  IF HandlerFor(c) = NoHandler THEN {"ok"}
  ELSE {"running", "ok"} \cup (IF "eager_error" \in Faults THEN {"error"} ELSE {})

\* The eager poll of the new future.  One that fails in it is kept as a
\* future of the error, which nobody has polled.
process_request(r) ==
  /\ handled_by' = [c \in Calls |-> IF c \in Content[r] THEN HandlerFor(c) ELSE handled_by[c]]
  /\ \E out \in [Content[r] -> {"running", "ok", "error"}] :
       /\ \A c \in Content[r] : out[c] \in Outcomes(c)
       /\ run' = [c \in Calls |-> IF c \in Content[r] THEN out[c] ELSE run[c]]
  /\ \E to \in DriveStates :
       /\ Drive(r, "handling", to)
       /\ future' = [future EXCEPT ![r] = to]
       /\ pending_futures' = IF to = "done" THEN pending_futures
                             ELSE Append(pending_futures, r)

-----------------------------------------------------------------------------
(* The rest of handle_messages: poll_transport_rx, which handle_shutdown   *)
(* calls as well, poll_outgoing_messages and poll_transport_tx.            *)

ReadRequest ==
  /\ pc \in {"rx", "shutdown_rx"}
  /\ transport_rx # << >>
  /\ transport_rx' = Tail(transport_rx)
  /\ process_request(Head(transport_rx))
  /\ UNCHANGED <<pc, handleVars, mapVars, to_poll, asked, answered, clientVars>>

TransportRxDrained ==
  /\ pc = "rx"
  /\ transport_rx = << >>
  /\ Register({"rx"})
  /\ pc' = "outgoing"
  /\ UNCHANGED <<woken, handleVars, serverVars, peerVars, responseVars, clientVars>>

\* No message is taken while a payload waits for the sink.
MayTakeMessage == ~pending_payload

\* Taking a message out of the channel wakes the future that waits for it.
TakeResponse ==
  /\ pc = "outgoing"
  /\ MayTakeMessage
  /\ responses # << >>
  /\ answered' = Append(answered, Head(responses))
  /\ responses' = Tail(responses)
  /\ woken' = (woken \/ Head(responses) \in registered)
  /\ send_payload("outgoing", {Head(responses)})
  /\ UNCHANGED <<handleVars, serverVars, peerVars>>

\* A call or a notification of the Client's own users goes the same way.
TakeOther ==
  /\ pc = "outgoing"
  /\ MayTakeMessage
  /\ send_payload("outgoing", {})
  /\ UNCHANGED <<woken, handleVars, serverVars, peerVars, responseVars>>

\* (mutant) one message is taken in a poll.
OneTaken == TRUE
NoneLeft == responses = << >>

\* The loop of poll_outgoing_messages ends.  If a payload is kept, it leaves
\* the responses where they are, and no waker for them.
OutgoingDone ==
  /\ pc = "outgoing"
  /\ \/ ~MayTakeMessage /\ UNCHANGED registered
     \/ MayTakeMessage /\ NoneLeft /\ Register({"weak"})
  /\ pc' = "flush"
  /\ UNCHANGED <<woken, handleVars, serverVars, peerVars, responseVars, clientVars>>

Flush ==
  /\ pc = "flush"
  /\ IF transport_tx # 0 THEN Register({"tx"}) ELSE UNCHANGED registered
  /\ pc' = "idle"
  /\ UNCHANGED <<woken, handleVars, serverVars, peerVars, responseVars, clientVars>>

-----------------------------------------------------------------------------
(* handle_shutdown, and the end of the Client                              *)

\* The stream is empty, or an error of it ends the loop before.
ShutdownRxDone ==
  /\ pc = "shutdown_rx"
  /\ \/ transport_rx = << >> /\ Register({"rx"})
     \/ UNCHANGED registered
  /\ pc' = "close"
  /\ UNCHANGED <<woken, handleVars, serverVars, peerVars, responseVars, clientVars>>

\* The Client resolves when the sink has nothing left, or fails.
Close ==
  /\ pc = "close"
  /\ \/ transport_tx # 0 /\ Register({"tx"}) /\ pc' = "idle"
     \/ UNCHANGED registered /\ pc' = "resolved"
  /\ UNCHANGED <<woken, handleVars, serverVars, peerVars, responseVars, clientVars>>

\* The Client is dropped with the server once it has resolved, or by its
\* owner before that.
DropServer ==
  /\ pc \in {"idle", "resolved"}
  /\ pc' = "dropped"
  /\ handler_map' = [n \in Names |-> NoHandler]
  /\ handler_chan' = << >>
  /\ pending_futures' = << >>
  /\ transport_rx' = << >>
  /\ responses' = << >>
  /\ transport_tx' = 0
  /\ pending_payload' = FALSE
  /\ registered' = {}
  /\ woken' = FALSE
  /\ UNCHANGED <<op, returned, handle, chan_taken, future, run, handled_by, to_poll,
                 asked, answered, should_shut_down>>

-----------------------------------------------------------------------------
(* The peer, the sink and the handlers                                     *)

Ask(r) ==
  /\ ~Dropped
  /\ r \notin asked
  /\ asked' = asked \cup {r}
  /\ transport_rx' = Append(transport_rx, r)
  /\ Notify("rx")
  /\ UNCHANGED <<pc, handleVars, serverVars, responseVars, clientVars>>

\* The sink gets rid of a payload.
Deliver ==
  /\ transport_tx # 0
  /\ transport_tx' = transport_tx - 1
  /\ Notify("tx")
  /\ UNCHANGED <<pc, handleVars, serverVars, peerVars, responseVars, pending_payload,
                 should_shut_down>>

HandlerFinishes(r, c) ==
  /\ ~Dropped
  /\ c \in Content[r] /\ run[c] = "running"
  /\ \/ run' = [run EXCEPT ![c] = "ok"]
     \/ "handler_error" \in Faults /\ run' = [run EXCEPT ![c] = "error"]
  /\ Notify(r)
  /\ UNCHANGED <<pc, handleVars, mapVars, pending_futures, future, handled_by, to_poll,
                 peerVars, responseVars, clientVars>>

PollStep ==
  \/ SendLeftover
  \/ DrainHandlerChan
  \/ HandlerChanDrained
  \/ PollFuture
  \/ RemoveFuture
  \/ FuturesPolled
  \/ ReadRequest
  \/ TransportRxDrained
  \/ TakeResponse
  \/ OutgoingDone
  \/ Flush
  \/ ShutdownRxDone
  \/ Close

Next ==
  \/ Poll
  \/ PollStep
  \/ TakeOther
  \/ ClientStops
  \/ DropServer
  \/ User
  \/ Deliver
  \/ \E r \in Requests : Ask(r) \/ \E c \in Calls : HandlerFinishes(r, c)

Spec == Init /\ [][Next]_vars

\* The task goes on with a poll that has begun, polls when woken and drops
\* what has resolved; the Client takes turns between its own messages and
\* the responses (see SelectWeak); the sink gets rid of what it has buffered;
\* handlers finish, and users poll their futures.  There are finitely many of
\* these last two, so that no choice among them can be put off for ever.
Fairness ==
  /\ WF_vars(PollStep \/ (Poll /\ woken) \/ (DropServer /\ pc = "resolved"))
  /\ SF_vars(TakeResponse)
  /\ WF_vars(Deliver)
  /\ WF_vars(\E r \in Requests : \E c \in Content[r] : HandlerFinishes(r, c))
  /\ WF_vars(/\ \E o \in Ops : SendOp(o) \/ Cancel(o)
             /\ UNCHANGED <<pc, serverVars, peerVars, responseVars, clientVars>>)

FairSpec == Spec /\ Fairness

-----------------------------------------------------------------------------
(* Properties                                                              *)

Results == {"ok", "exists", "nohandler", "shutdown"}
PollPCs == {"idle", "leftover", "drain", "futures", "rx", "outgoing", "flush",
            "shutdown_rx", "close", "resolved", "dropped"}

TypeOK ==
  /\ pc \in PollPCs
  /\ woken \in BOOLEAN
  /\ registered \subseteq {"chan", "rx", "weak", "tx"} \cup Requests
  /\ op \in [Ops -> {"none", "created", "queued", "panicked"} \cup Results]
  /\ returned \in [Ops -> Adds \cup {NoHandler}]
  /\ handle \in BOOLEAN /\ chan_taken \in BOOLEAN
  /\ handler_chan \in Seq(Ops)
  /\ handler_map \in [Names -> Adds \cup {NoHandler}]
  \* a future that has finished is not polled again
  /\ pc # "futures" /\ ~should_shut_down => \A r \in ToSet(pending_futures) : future[r] # "done"
  /\ pending_futures \in Seq(Requests) /\ to_poll \in Seq(Requests)
  /\ future \in [Requests -> {"none"} \cup DriveStates]
  /\ run \in [Calls -> {"none", "running", "ok", "error"}]
  /\ handled_by \in [Calls -> Adds \cup {NoHandler}]
  /\ transport_rx \in Seq(Requests) /\ asked \subseteq Requests
  /\ responses \in Seq(Requests) /\ answered \in Seq(Requests)
  /\ transport_tx \in 0..SinkCap /\ pending_payload \in BOOLEAN
  /\ should_shut_down \in BOOLEAN

(* A handler is a value with one owner: in the channel, in the map, given  *)
(* back to the add that failed, or handed to the remove that took it out   *)
(* (Handlers::add, Handlers::remove, drain_handler_chan).                  *)
Owners(a) ==
  {o \in Ops : returned[o] = a}
    \cup {n \in Names : handler_map[n] = a}
    \cup (IF Contains(handler_chan, a) THEN {"chan"} ELSE {})
HandlerConserved ==
  \A a \in Adds :
    op[a] \in {"queued", "ok", "exists"} /\ ~Dropped => Cardinality(Owners(a)) = 1

(* A call is given to a handler only between its add and its remove.       *)
OnlySetHandlersRun ==
  [][\A c \in Calls : handled_by'[c] # handled_by[c] =>
       LET h == handled_by'[c] IN op[h] = "ok" /\ \A o \in Ops : returned[o] # h]_vars

(* A request is answered at most once, when all its calls are done, and    *)
(* not at all when it has only notifications (process_request).            *)
AnsweredOnceWhenDone ==
  LET out == answered \o responses IN
    /\ \A i, j \in DOMAIN out : out[i] = out[j] => i = j
    /\ \A i \in DOMAIN out : HasOutput(out[i]) /\ \A c \in Content[out[i]] : run[c] = "ok"

\* What the task leaves undone when it sleeps between two polls, and why.
Asleep == pc = "idle" /\ ~woken
Runs(r) ==
  /\ future[r] = "handling" /\ r \in registered
  /\ \E c \in Content[r] : run[c] = "running"
  /\ \A c \in Content[r] : run[c] # "error"
WaitsForClient(r) == future[r] = "sending" /\ r \in registered /\ Contains(responses, r)
SinkFull == pending_payload /\ transport_tx = SinkCap /\ "tx" \in registered
AsleepServing ==
  /\ chan_taken \/ (handler_chan = << >> /\ "chan" \in registered)
  /\ transport_rx = << >> /\ "rx" \in registered
  /\ SinkFull \/ (responses = << >> /\ "weak" \in registered)
  /\ \A r \in ToSet(pending_futures) : Runs(r) \/ WaitsForClient(r) \/ future[r] = "failed"
AsleepClosing == transport_tx # 0 /\ "tx" \in registered

(* The task sleeps only if nothing it could do waits for it.  While it     *)
(* serves, no message of a ServerHandle and no request waits, and a        *)
(* response only behind a payload the full sink has refused, of which the  *)
(* sink will tell (poll_outgoing_messages); a pending future waits for     *)
(* handlers that run, or for its response to be taken, and is registered   *)
(* there, or is an error that process_request kept without a poll.  While  *)
(* it shuts down, whatever is queued, it sleeps only for the sink to close *)
(* (handle_shutdown).                                                      *)
SleepsWithNothingToDo ==
  Asleep => IF should_shut_down THEN AsleepClosing ELSE AsleepServing

(* core/src/server.rs:247-249: "if the message is received, the only       *)
(* circumstance when receiving a result back would fail is if a panic      *)
(* occurs while adding the handler."  A server dropped with the message in *)
(* its channel is another one, and the future of the add panics.           *)
AddNeverPanics == \A a \in Adds : op[a] # "panicked"

(* A remove that is polled resolves, whatever becomes of the server; so    *)
(* does an add, unless the server is dropped with its message, when it     *)
(* panics and never resolves (see AddNeverPanics).  And what is in the     *)
(* channel is dealt with by the server itself, unless the Client shuts     *)
(* down or is dropped before (ServerHandle::add, remove and                *)
(* drain_handler_chan).  An add or a remove is made once, so that what     *)
(* holds of all again and again holds of each in the end.                  *)
Resolved(o) == op[o] \in Results \/ (o \in Adds /\ op[o] = "panicked" /\ Dropped)
OpsResolve ==
  /\ []<>(\A o \in Ops : op[o] = "none" \/ Resolved(o))
  /\ []<>(should_shut_down \/ Dropped \/ \A o \in Ops : op[o] # "queued")

(* A request with an output is answered, also behind a sink that is full   *)
(* again and again, unless a handler of it fails or the Client shuts down  *)
(* or is dropped (process_request, poll_outgoing_messages).                *)
Answered(r) == r \in ToSet(answered) \/ \E c \in Content[r] : run[c] = "error"
RequestsAnswered ==
  []<>(should_shut_down \/ Dropped \/ \A r \in asked : HasOutput(r) => Answered(r))

\* A user sees an operation as pending until it has its result.  An add that
\* panics is taken for one that found the server gone (see AddNeverPanics).
Result(o) ==
  CASE op[o] \in {"created", "queued"} -> "pending"
    [] op[o] = "panicked" -> "shutdown"
    [] OTHER -> op[o]

Service == INSTANCE RpcService WITH
  alive <- ~Dropped,
  op <- [o \in Ops |-> Result(o)],
  set <- handler_map,
  accepted <- {r \in Requests : future[r] # "none"}

(* The Server with its handle keeps what RpcService promises: adds and     *)
(* removes take effect at one moment between call and result, a batch      *)
(* meets one set of handlers, and requests are answered once (core/src/    *)
(* server.rs, drain_handler_chan and process_request).                     *)
ImplementsService == Service!Spec
ImplementsFairService == Service!FairService
=============================================================================
