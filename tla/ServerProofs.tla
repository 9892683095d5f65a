---------------------------- MODULE ServerProofs ----------------------------
(***************************************************************************)
(* Theorems about Server for any number of adds, removes, requests and     *)
(* calls: type correctness, what becomes of a handler, that requests are   *)
(* answered once, and that the task never sleeps with something to do.     *)
(***************************************************************************)
EXTENDS Server, SequenceLemmas, TLAPS

USE DEF vars, taskVars, handleVars, mapVars, futureVars, peerVars, responseVars, sinkVars, clientVars,
        serverVars, Ops

-----------------------------------------------------------------------------
(* The types, and where a request is                                       *)

\* A request is read once, and has a future from then on.
QueueInv ==
  /\ IsInjective(transport_rx)
  /\ \A r \in ToSet(transport_rx) : r \in asked /\ future[r] = "none"
  /\ \A r \in Requests \ asked : future[r] = "none"
  /\ \A r \in ToSet(pending_futures) : future[r] # "none"

RequestTypes ==
  /\ pending_futures \in Seq(Requests) /\ to_poll \in Seq(Requests)
  /\ future \in [Requests -> {"none"} \cup DriveStates]
  /\ run \in [Calls -> {"none", "running", "ok", "error"}]
  /\ handled_by \in [Calls -> Adds \cup {NoHandler}]
  /\ transport_rx \in Seq(Requests) /\ asked \subseteq Requests
  /\ responses \in Seq(Requests) /\ answered \in Seq(Requests)
TaskTypes ==
  /\ pc \in PollPCs
  /\ woken \in BOOLEAN
  /\ registered \subseteq {"chan", "rx", "weak", "tx"} \cup Requests
SinkTypes ==
  /\ transport_tx \in 0..SinkCap /\ pending_payload \in BOOLEAN
  /\ should_shut_down \in BOOLEAN
HandleTypes ==
  /\ op \in [Ops -> {"none", "created", "queued", "panicked"} \cup Results]
  /\ returned \in [Ops -> Adds \cup {NoHandler}]
  /\ handle \in BOOLEAN /\ chan_taken \in BOOLEAN
  /\ handler_chan \in Seq(Ops)
  /\ handler_map \in [Names -> Adds \cup {NoHandler}]
DoneLeaves ==
  pc # "futures" /\ ~should_shut_down => \A r \in ToSet(pending_futures) : future[r] # "done"

LEMMA TypeParts == TypeOK <=> RequestTypes /\ TaskTypes /\ SinkTypes /\ HandleTypes /\ DoneLeaves
  BY DEF TypeOK, RequestTypes, TaskTypes, SinkTypes, HandleTypes, DoneLeaves

LEMMA NameOf == \A x \in Ops \cup Calls : Name[x] \in Names
  BY DEF Names

\* The steps of the Client that are none of the server's, and of its sink.
ClientStep ==
  \/ SendLeftover
  \/ TakeOther
  \/ ClientStops
  \/ OutgoingDone
  \/ Flush
  \/ ShutdownRxDone
  \/ Close
  \/ Deliver

(* A payload that is sent: what the task registers with, and where the     *)
(* poll goes on.                                                           *)
LEMMA SendEffect ==
  ASSUME NEW next, NEW heard, send_payload(next, heard)
  PROVE  /\ GoOn(next) \/ ShutDown
         /\ \/ pc' = next /\ should_shut_down' = should_shut_down
            \/ pc' = "shutdown_rx" /\ should_shut_down'
         /\ registered \ heard \subseteq registered' /\ registered' \subseteq registered \cup {"tx"}
         /\ ~should_shut_down' /\ pending_payload' => transport_tx' = SinkCap /\ "tx" \in registered'
  BY DEF send_payload, GoOn, ShutDown

LEMMA ClientStepEffect ==
  ASSUME ClientStep
  PROVE  /\ UNCHANGED <<handleVars, serverVars, peerVars, responseVars>>
         /\ (pc' = "futures" <=> pc = "futures") /\ Dropped' = Dropped
         /\ should_shut_down => should_shut_down'
<1>1. CASE SendLeftover
  BY <1>1, SendEffect DEF SendLeftover, GoOn, Dropped
<1>2. CASE TakeOther
  BY <1>2, SendEffect DEF TakeOther, Dropped
<1>3. CASE ClientStops \/ OutgoingDone \/ Flush \/ ShutdownRxDone \/ Close \/ Deliver
  BY <1>3 DEF ClientStops, ShutDown, OutgoingDone, Flush, ShutdownRxDone, Close, Deliver, Dropped
<1> QED BY <1>1, <1>2, <1>3 DEF ClientStep

LEMMA SinkTypesKept == ASSUME SinkTypes, [Next]_vars PROVE SinkTypes'
<1>1. ASSUME NEW next, NEW heard, send_payload(next, heard) PROVE SinkTypes'
  <2>1. pending_payload' \in BOOLEAN /\ should_shut_down' \in BOOLEAN
    BY <1>1 DEF send_payload, GoOn, ShutDown, SinkTypes
  <2>2. transport_tx' \in 0..SinkCap
    BY <1>1, SinkCapIsPositive DEF send_payload, SinkTypes
  <2> QED BY <2>1, <2>2 DEF SinkTypes
<1>2. CASE SendLeftover \/ TakeResponse \/ TakeOther
  BY <1>1, <1>2 DEF SendLeftover, TakeResponse, TakeOther, GoOn, SinkTypes
<1>3. CASE ClientStops \/ PollFuture
  BY <1>3 DEF ClientStops, PollFuture, GoOn, ShutDown, SinkTypes
<1>4. CASE Deliver \/ DropServer
  <2>1. pending_payload' \in BOOLEAN /\ should_shut_down' \in BOOLEAN
    BY <1>4 DEF Deliver, DropServer, SinkTypes
  <2>2. transport_tx' \in 0..SinkCap
    BY <1>4, SinkCapIsPositive DEF Deliver, DropServer, SinkTypes
  <2> QED BY <2>1, <2>2 DEF SinkTypes
<1>5. CASE UNCHANGED clientVars
  BY <1>5 DEF SinkTypes
<1> QED BY <1>2, <1>3, <1>4, <1>5
        DEF Next, PollStep, Poll, DrainHandlerChan, HandlerChanDrained, RemoveFuture, FuturesPolled,
            ReadRequest, TransportRxDrained, OutgoingDone, Flush, ShutdownRxDone, Close, User, Ask,
            HandlerFinishes

(* The handlers and their users.                                           *)
LEMMA HandleTypesKept == ASSUME HandleTypes, TaskTypes, [Next]_vars PROVE HandleTypes'
<1>1. CASE User
  <2>1. ASSUME NEW o \in Ops, SendOp(o) PROVE HandleTypes'
    <3>1. Append(handler_chan, o) \in Seq(Ops)
      BY DEF HandleTypes
    <3> QED BY <1>1, <2>1, <3>1 DEF User, SendOp, Become, GiveBack, HandleTypes, Results
  <2>2. ASSUME NEW o \in Ops, CallHandle(o) \/ Cancel(o) PROVE HandleTypes'
    BY <1>1, <2>2 DEF User, CallHandle, Cancel, Become, HandleTypes, Results
  <2>3. CASE DropHandle
    BY <1>1, <2>3 DEF User, DropHandle, HandleTypes
  <2> QED BY <1>1, <2>1, <2>2, <2>3 DEF User
<1>2. CASE DrainHandlerChan
  <2> DEFINE o == Head(handler_chan)
  <2>1. o \in Ops /\ Tail(handler_chan) \in Seq(Ops) /\ Name[o] \in Names
    BY <1>2, NameOf DEF DrainHandlerChan, HandleTypes
  <2> HIDE DEF o
  <2>2. CASE o \in Adds /\ AddHandler(o)
    BY <1>2, <2>1, <2>2 DEF DrainHandlerChan, AddHandler, Become, GiveBack, HandleTypes, Results
  <2>3. CASE o \in Removes /\ RemoveHandler(o)
    BY <1>2, <2>1, <2>3 DEF DrainHandlerChan, RemoveHandler, TakenOut, Become, GiveBack, HandleTypes, Results
  <2> QED BY <1>2, <2>2, <2>3 DEF DrainHandlerChan, o
<1>3. CASE HandlerChanDrained
  BY <1>3 DEF HandlerChanDrained, HandlesOpen, HandleTypes
<1>4. CASE DropServer
  <2>1. << >> \in Seq(Ops)
    OBVIOUS
  <2> QED BY <1>4, <2>1 DEF DropServer, HandleTypes
<1>5. CASE UNCHANGED <<handleVars, mapVars>>
  BY <1>5 DEF HandleTypes
<1> QED BY <1>1, <1>2, <1>3, <1>4, <1>5, ClientStepEffect
        DEF Next, PollStep, ClientStep, Poll, PollFuture, RemoveFuture, FuturesPolled, ReadRequest,
            TransportRxDrained, TakeResponse, Ask, HandlerFinishes

(* A poll of a future.                                                     *)
LEMMA DriveTypes ==
  ASSUME RequestTypes, TaskTypes, NEW r \in Requests, NEW from, NEW to, Drive(r, from, to)
  PROVE  /\ to \in DriveStates /\ responses' \in Seq(Requests) /\ woken' \in BOOLEAN
         /\ registered' \subseteq {"chan", "rx", "weak", "tx"} \cup Requests
<1>1. Append(responses, r) \in Seq(Requests)
  BY DEF RequestTypes
<1> QED BY <1>1 DEF Drive, DriveStates, Registered, Respond, RequestTypes, TaskTypes

LEMMA TaskTypesKept == ASSUME RequestTypes, TaskTypes, [Next]_vars PROVE TaskTypes'
<1>1. CASE User \/ Poll \/ HandlerChanDrained \/ DropServer
  BY <1>1 DEF User, CallHandle, SendOp, Cancel, DropHandle, HandlesMayHaveGone, Notify, Register,
              Poll, HandlerChanDrained, DropServer, PollPCs, TaskTypes
<1>2. CASE PollFuture
  <2>1. Head(to_poll) \in Requests
    BY <1>2 DEF PollFuture, RequestTypes
  <2> QED BY <1>2, <2>1, DriveTypes DEF PollFuture, GoOn, ShutDown, PollPCs, TaskTypes
<1>3. CASE ReadRequest
  <2>1. Head(transport_rx) \in Requests
    BY <1>3 DEF ReadRequest, RequestTypes
  <2> QED BY <1>3, <2>1, DriveTypes DEF ReadRequest, process_request, TaskTypes
<1>4. CASE DrainHandlerChan \/ RemoveFuture \/ FuturesPolled \/ TransportRxDrained
  BY <1>4 DEF DrainHandlerChan, RemoveFuture, FuturesPolled, TransportRxDrained, Register, PollPCs, TaskTypes
<1>5. ASSUME NEW r \in Requests, Ask(r) \/ \E c \in Calls : HandlerFinishes(r, c) PROVE TaskTypes'
  BY <1>5 DEF Ask, HandlerFinishes, Notify, TaskTypes
<1>6. CASE UNCHANGED vars
  BY <1>6 DEF TaskTypes
<1>7. ASSUME NEW next \in PollPCs, NEW heard, send_payload(next, heard), woken' \in BOOLEAN PROVE TaskTypes'
  BY <1>7, SendEffect DEF PollPCs, TaskTypes
<1>8. CASE TakeResponse \/ TakeOther \/ SendLeftover
  BY <1>7, <1>8 DEF TakeResponse, TakeOther, SendLeftover, GoOn, PollPCs, TaskTypes
<1>9. CASE ClientStops \/ OutgoingDone \/ Flush \/ ShutdownRxDone \/ Close \/ Deliver
  BY <1>9 DEF ClientStops, ShutDown, OutgoingDone, Flush, ShutdownRxDone, Close, Deliver, Register,
              Notify, PollPCs, TaskTypes
<1> QED BY <1>1, <1>2, <1>3, <1>4, <1>5, <1>6, <1>8, <1>9 DEF Next, PollStep

(* process_request gives each call of the request to its handler, or       *)
(* settles it, and touches no other call.                                  *)
LEMMA ProcessEffect ==
  ASSUME RequestTypes, HandleTypes, ReadRequest
  PROVE  LET r == Head(transport_rx) IN
         /\ r \in Requests /\ Content[r] \subseteq Calls
         /\ run' \in [Calls -> {"none", "running", "ok", "error"}]
         /\ handled_by' \in [Calls -> Adds \cup {NoHandler}]
         /\ \A c \in Calls \ Content[r] : run'[c] = run[c] /\ handled_by'[c] = handled_by[c]
         /\ \A c \in Content[r] : run'[c] \in Outcomes(c) /\ handled_by'[c] = HandlerFor(c)
<1> DEFINE r == Head(transport_rx)
<1>1. r \in Requests /\ Content[r] \subseteq Calls
  BY ContentIsCalls DEF ReadRequest, RequestTypes
<1>2. \A c \in Calls : HandlerFor(c) \in Adds \cup {NoHandler}
  BY NameOf DEF HandlerFor, HandleTypes
<1> HIDE DEF r
<1>3. process_request(r)
  BY DEF ReadRequest, r
<1>4. handled_by' = [c \in Calls |-> IF c \in Content[r] THEN HandlerFor(c) ELSE handled_by[c]]
  BY <1>3 DEF process_request
<1>5. handled_by' \in [Calls -> Adds \cup {NoHandler}]
  BY <1>2, <1>4 DEF RequestTypes
<1>6. PICK out \in [Content[r] -> {"running", "ok", "error"}] :
        /\ \A c \in Content[r] : out[c] \in Outcomes(c)
        /\ run' = [c \in Calls |-> IF c \in Content[r] THEN out[c] ELSE run[c]]
  BY <1>3 DEF process_request
<1>7. run' \in [Calls -> {"none", "running", "ok", "error"}]
  BY <1>6 DEF RequestTypes
<1> QED BY <1>1, <1>4, <1>5, <1>6, <1>7 DEF r

LEMMA RequestTypesKept == ASSUME RequestTypes, TaskTypes, HandleTypes, [Next]_vars PROVE RequestTypes'
<1>1. CASE PollFuture
  <2>1. Head(to_poll) \in Requests /\ Tail(to_poll) \in Seq(Requests)
    BY <1>1 DEF PollFuture, RequestTypes
  <2>2. PICK to \in DriveStates :
          Drive(Head(to_poll), future[Head(to_poll)], to) /\ future' = [future EXCEPT ![Head(to_poll)] = to]
    BY <1>1 DEF PollFuture
  <2>3. responses' \in Seq(Requests)
    BY <2>1, <2>2, DriveTypes
  <2> QED BY <1>1, <2>1, <2>2, <2>3 DEF PollFuture, RequestTypes
<1>2. CASE ReadRequest
  <2> DEFINE r == Head(transport_rx)
  <2>1. /\ r \in Requests /\ Tail(transport_rx) \in Seq(Requests)
        /\ Append(pending_futures, r) \in Seq(Requests)
    BY <1>2, ProcessEffect DEF ReadRequest, RequestTypes
  <2> HIDE DEF r
  <2>2. PICK to \in DriveStates :
          /\ Drive(r, "handling", to) /\ future' = [future EXCEPT ![r] = to]
          /\ pending_futures' = IF to = "done" THEN pending_futures ELSE Append(pending_futures, r)
    BY <1>2 DEF ReadRequest, process_request, r
  <2>3. responses' \in Seq(Requests)
    BY <2>1, <2>2, DriveTypes
  <2> QED BY <1>2, <2>1, <2>2, <2>3, ProcessEffect DEF ReadRequest, RequestTypes, r
<1>3. CASE RemoveFuture
  <2>1. pending_futures' \in Seq(Requests)
    BY <1>3, ToSetRemoveAt DEF RemoveFuture, RequestTypes
  <2> QED BY <1>3, <2>1 DEF RemoveFuture, RequestTypes
<1>4. CASE TakeResponse
  <2>1. Append(answered, Head(responses)) \in Seq(Requests) /\ Tail(responses) \in Seq(Requests)
    BY <1>4 DEF TakeResponse, RequestTypes
  <2> QED BY <1>4, <2>1 DEF TakeResponse, RequestTypes
<1>5. ASSUME NEW r \in Requests, Ask(r) PROVE RequestTypes'
  <2>1. Append(transport_rx, r) \in Seq(Requests)
    BY DEF RequestTypes
  <2> QED BY <1>5, <2>1 DEF Ask, RequestTypes
<1>6. ASSUME NEW r \in Requests, NEW c \in Calls, HandlerFinishes(r, c) PROVE RequestTypes'
  BY <1>6 DEF HandlerFinishes, RequestTypes
<1>7. CASE DropServer
  <2>1. << >> \in Seq(Requests)
    OBVIOUS
  <2> QED BY <1>7, <2>1 DEF DropServer, RequestTypes
<1>8. CASE HandlerChanDrained
  BY <1>8 DEF HandlerChanDrained, RequestTypes
<1>9. CASE UNCHANGED <<futureVars, to_poll, peerVars, responseVars>>
  BY <1>9 DEF RequestTypes
<1> QED BY <1>1, <1>2, <1>3, <1>4, <1>5, <1>6, <1>7, <1>8, <1>9, ClientStepEffect
        DEF Next, PollStep, ClientStep, User, Poll, DrainHandlerChan, FuturesPolled, TransportRxDrained

-----------------------------------------------------------------------------
(* The way of a request through the queues                                 *)

LEMMA QueueInvKept ==
  ASSUME RequestTypes, TaskTypes, HandleTypes, DoneLeaves, QueueInv, [Next]_vars
  PROVE  QueueInv' /\ DoneLeaves'
<1>1. CASE PollFuture
  <2> DEFINE r == Head(to_poll)
  <2>1. r \in Requests
    BY <1>1 DEF PollFuture, RequestTypes
  <2>2. PICK to \in DriveStates :
          /\ Drive(r, future[r], to) /\ future' = [future EXCEPT ![r] = to]
          /\ IF to = "failed" THEN ShutDown ELSE GoOn("futures")
    BY <1>1 DEF PollFuture
  <2>3. future[r] # "none" /\ to # "none"
    BY <2>2 DEF Drive, DriveStates
  <2>4. UNCHANGED <<pending_futures, transport_rx, asked>>
    BY <1>1 DEF PollFuture
  <2>5. pc' = "futures" \/ should_shut_down'
    BY <2>2 DEF ShutDown, GoOn
  <2> HIDE DEF r
  <2>6. /\ future'[r] # "none" /\ \A q \in Requests \ {r} : future'[q] = future[q]
    BY <2>1, <2>2, <2>3 DEF RequestTypes
  <2>7. QueueInv'
    <3>1. ToSet(transport_rx) \subseteq Requests /\ ToSet(pending_futures) \subseteq Requests
      BY DEF RequestTypes, ToSet
    <3> QED BY <2>3, <2>4, <2>6, <3>1 DEF QueueInv
  <2> QED BY <2>5, <2>7 DEF DoneLeaves
<1>2. CASE ReadRequest
  <2> DEFINE r == Head(transport_rx)
  <2>1. /\ r \in Requests /\ r \in ToSet(transport_rx) /\ transport_rx' = Tail(transport_rx)
        /\ ToSet(Tail(transport_rx)) = ToSet(transport_rx) \ {r} /\ IsInjective(Tail(transport_rx))
        /\ UNCHANGED <<pc, asked, should_shut_down>> /\ pc # "futures"
    BY <1>2, ProcessEffect, ToSetHeadTail, InjectiveTail DEF ReadRequest, RequestTypes, QueueInv
  <2>2. PICK to \in DriveStates :
          /\ Drive(r, "handling", to) /\ future' = [future EXCEPT ![r] = to]
          /\ pending_futures' = IF to = "done" THEN pending_futures ELSE Append(pending_futures, r)
    BY <1>2 DEF ReadRequest, process_request
  <2> HIDE DEF r
  <2>3. future[r] = "none" /\ r \in asked /\ r \notin ToSet(pending_futures)
    BY <2>1 DEF QueueInv
  <2>4. future'[r] = to /\ \A q \in Requests \ {r} : future'[q] = future[q]
    BY <2>1, <2>2 DEF RequestTypes
  <2>5. ToSet(transport_rx) \subseteq Requests /\ ToSet(pending_futures) \subseteq Requests
    BY DEF RequestTypes, ToSet
  <2>6. \/ to = "done" /\ ToSet(pending_futures') = ToSet(pending_futures)
        \/ to # "done" /\ ToSet(pending_futures') = ToSet(pending_futures) \cup {r}
    BY <2>1, <2>2, ToSetAppend DEF RequestTypes
  <2>7. to # "none"
    BY DEF DriveStates
  <2>8. QueueInv'
    <3>1. IsInjective(transport_rx') /\ ToSet(transport_rx') = ToSet(transport_rx) \ {r}
      BY <2>1
    <3>2. \A q \in ToSet(transport_rx') : q \in asked' /\ future'[q] = "none"
      BY <2>1, <2>4, <2>5, <3>1 DEF QueueInv
    <3>3. \A q \in Requests \ asked' : future'[q] = "none"
      BY <2>1, <2>3, <2>4 DEF QueueInv
    <3>4. \A q \in ToSet(pending_futures') : future'[q] # "none"
      BY <2>4, <2>5, <2>6, <2>7, <2>3 DEF QueueInv
    <3> QED BY <3>1, <3>2, <3>3, <3>4 DEF QueueInv
  <2>9. DoneLeaves'
    BY <2>1, <2>3, <2>4, <2>5, <2>6 DEF DoneLeaves
  <2> QED BY <2>8, <2>9
<1>3. CASE RemoveFuture
  <2>1. ToSet(pending_futures') \subseteq ToSet(pending_futures)
    BY <1>3, ToSetRemoveAt DEF RemoveFuture, RequestTypes
  <2> QED BY <1>3, <2>1 DEF RemoveFuture, QueueInv, DoneLeaves
<1>4. CASE FuturesPolled
  BY <1>4 DEF FuturesPolled, StillPending, QueueInv, DoneLeaves
<1>5. ASSUME NEW r \in Requests, Ask(r) PROVE QueueInv' /\ DoneLeaves'
  <2>1. /\ r \notin asked /\ asked' = asked \cup {r} /\ transport_rx' = Append(transport_rx, r)
        /\ UNCHANGED <<pc, future, pending_futures, should_shut_down>>
    BY <1>5 DEF Ask
  <2>2. r \notin ToSet(transport_rx)
    BY <2>1 DEF QueueInv
  <2>3. IsInjective(transport_rx') /\ ToSet(transport_rx') = ToSet(transport_rx) \cup {r}
    BY <2>1, <2>2, InjectiveAppend, ToSetAppend DEF RequestTypes, QueueInv
  <2> QED BY <2>1, <2>3 DEF QueueInv, DoneLeaves
<1>6. CASE DropServer
  <2>1. /\ ToSet(transport_rx') = {} /\ IsInjective(transport_rx') /\ ToSet(pending_futures') = {}
        /\ UNCHANGED <<asked, future>>
    BY <1>6, ToSetSmall DEF DropServer, IsInjective
  <2> QED BY <2>1 DEF QueueInv, DoneLeaves
<1>7. CASE /\ UNCHANGED <<pending_futures, future, transport_rx, asked>>
           /\ pc = "futures" => pc' = "futures"
           /\ should_shut_down => should_shut_down'
  BY <1>7 DEF QueueInv, DoneLeaves
<1>8. CASE Poll \/ DrainHandlerChan \/ HandlerChanDrained \/ TransportRxDrained \/ TakeResponse \/ ClientStep
  BY <1>7, <1>8, ClientStepEffect, SendEffect
     DEF Poll, DrainHandlerChan, HandlerChanDrained, TransportRxDrained, TakeResponse
<1>9. CASE User \/ UNCHANGED vars
  BY <1>7, <1>9 DEF User
<1>10. ASSUME NEW r \in Requests, NEW c \in Calls, HandlerFinishes(r, c) PROVE QueueInv' /\ DoneLeaves'
  BY <1>7, <1>10 DEF HandlerFinishes
<1> QED BY <1>1, <1>2, <1>3, <1>4, <1>5, <1>6, <1>8, <1>9, <1>10 DEF Next, PollStep, ClientStep

(* Every value has its type, and a future that has finished is not polled  *)
(* again (Server::poll, process_request).                                  *)
LEMMA QueueInvHolds == Spec => [](TypeOK /\ QueueInv)
<1>1. Init => TypeOK /\ QueueInv
  <2> SUFFICES ASSUME Init PROVE TypeOK /\ QueueInv
    OBVIOUS
  <2>1. << >> \in Seq(Requests) /\ << >> \in Seq(Ops)
    OBVIOUS
  <2>2. RequestTypes /\ TaskTypes /\ HandleTypes
    BY <2>1 DEF Init, TaskInit, PollPCs, RequestTypes, TaskTypes, HandleTypes
  <2>3. SinkTypes
    <3>1. transport_tx \in 0..SinkCap
      BY SinkCapIsPositive DEF Init
    <3> QED BY <3>1 DEF Init, SinkTypes
  <2>4. QueueInv /\ DoneLeaves
    BY ToSetSmall DEF Init, QueueInv, DoneLeaves, IsInjective
  <2> QED BY <2>2, <2>3, <2>4, TypeParts
<1>2. TypeOK /\ QueueInv /\ [Next]_vars => (TypeOK /\ QueueInv)'
  <2> SUFFICES ASSUME TypeOK, QueueInv, [Next]_vars PROVE TypeOK' /\ QueueInv'
    OBVIOUS
  <2>1. RequestTypes /\ TaskTypes /\ SinkTypes /\ HandleTypes /\ DoneLeaves
    BY TypeParts
  <2>2. RequestTypes' /\ TaskTypes' /\ SinkTypes' /\ HandleTypes' /\ DoneLeaves' /\ QueueInv'
    BY <2>1, RequestTypesKept, TaskTypesKept, SinkTypesKept, HandleTypesKept, QueueInvKept
  <2> QED BY <2>2 DEF TypeOK, RequestTypes, TaskTypes, SinkTypes, HandleTypes, DoneLeaves, QueueInv
<1> QED BY <1>1, <1>2, PTL DEF Spec

THEOREM TypeCorrect == Spec => []TypeOK
  BY QueueInvHolds, PTL

-----------------------------------------------------------------------------
(* What becomes of a handler                                               *)

\* The messages in the channel are those whose senders wait for a result.
ChanInv == IsInjective(handler_chan) /\ \A o \in Ops : op[o] = "queued" <=> o \in ToSet(handler_chan)

\* A handler in the map was added, to its name, and not given back since.
MapInv ==
  \A n \in Names : LET a == handler_map[n] IN
    a # NoHandler => Name[a] = n /\ op[a] = "ok" /\ \A o \in Ops : returned[o] # a

\* An add gives back its own handler, a remove one that was added; nobody
\* else has it.
ReturnInv ==
  /\ \A o \in Ops : returned[o] # NoHandler =>
       \/ o \in Adds /\ op[o] = "exists" /\ returned[o] = o
       \/ o \in Removes /\ op[o] = "ok" /\ op[returned[o]] = "ok"
  /\ \A o, p \in Ops : returned[o] # NoHandler /\ returned[o] = returned[p] => o = p
KeptInv ==
  \A a \in Adds :
    /\ op[a] = "ok" => handler_map[Name[a]] = a \/ \E o \in Ops : returned[o] = a
    /\ op[a] = "exists" => returned[a] = a
HandlerInv == ~Dropped => ChanInv /\ MapInv /\ ReturnInv /\ KeptInv

LEMMA StaysDropped == ASSUME [Next]_vars, Dropped PROVE Dropped'
  BY ClientStepEffect
     DEF Next, PollStep, ClientStep, Poll, DrainHandlerChan, HandlerChanDrained, PollFuture, RemoveFuture,
         FuturesPolled, ReadRequest, TransportRxDrained, TakeResponse, DropServer, User, Ask,
         HandlerFinishes, Dropped

\* An operation that is not in the channel before or after.
LEMMA OpMoves ==
  ASSUME HandleTypes, ChanInv, MapInv, ReturnInv, KeptInv, NEW o \in Ops, NEW state,
         op[o] \in {"none", "created"}, state \notin {"queued", "ok", "exists"}, Become(o, state),
         UNCHANGED <<returned, handler_chan, handler_map>>
  PROVE  ChanInv' /\ MapInv' /\ ReturnInv' /\ KeptInv'
<1>1. op'[o] = state /\ \A p \in Ops \ {o} : op'[p] = op[p]
  BY DEF Become, HandleTypes
<1>2. ChanInv'
  BY <1>1 DEF ChanInv
<1>3. MapInv'
  BY <1>1 DEF MapInv, HandleTypes
<1>4. ReturnInv'
  BY <1>1 DEF ReturnInv, HandleTypes
<1>5. KeptInv'
  BY <1>1 DEF KeptInv
<1> QED BY <1>2, <1>3, <1>4, <1>5

LEMMA UserKeepsHandlers ==
  ASSUME HandleTypes, ~Dropped, ChanInv, MapInv, ReturnInv, KeptInv, User
  PROVE  ChanInv' /\ MapInv' /\ ReturnInv' /\ KeptInv'
<1>1. UNCHANGED handler_map
  BY DEF User
<1>2. ASSUME NEW o \in Ops, CallHandle(o) PROVE ChanInv' /\ MapInv' /\ ReturnInv' /\ KeptInv'
  BY <1>1, <1>2, OpMoves DEF CallHandle
<1>3. ASSUME NEW o \in Ops, SendOp(o) PROVE ChanInv' /\ MapInv' /\ ReturnInv' /\ KeptInv'
  <2>1. /\ op[o] = "created" /\ handler_chan' = Append(handler_chan, o) /\ UNCHANGED returned
        /\ op' = [op EXCEPT ![o] = "queued"]
    BY <1>3 DEF SendOp, Become
  <2>2. op'[o] = "queued" /\ \A p \in Ops \ {o} : op'[p] = op[p]
    BY <2>1 DEF HandleTypes
  <2>3. o \notin ToSet(handler_chan)
    BY <2>1 DEF ChanInv
  <2>4. IsInjective(handler_chan') /\ ToSet(handler_chan') = ToSet(handler_chan) \cup {o}
    BY <2>1, <2>3, InjectiveAppend, ToSetAppend DEF HandleTypes, ChanInv
  <2>5. ChanInv'
    BY <2>2, <2>4 DEF ChanInv
  <2>6. MapInv'
    BY <1>1, <2>1, <2>2 DEF MapInv, HandleTypes
  <2>7. ReturnInv'
    BY <2>1, <2>2 DEF ReturnInv, HandleTypes
  <2>8. KeptInv'
    BY <1>1, <2>1, <2>2 DEF KeptInv
  <2> QED BY <2>5, <2>6, <2>7, <2>8
<1>4. CASE DropHandle
  BY <1>1, <1>4 DEF DropHandle, ChanInv, MapInv, ReturnInv, KeptInv
<1> QED BY <1>2, <1>3, <1>4 DEF User, Cancel

LEMMA DrainKeepsHandlers ==
  ASSUME HandleTypes, ChanInv, MapInv, ReturnInv, KeptInv, DrainHandlerChan
  PROVE  ChanInv' /\ MapInv' /\ ReturnInv' /\ KeptInv'
<1> DEFINE o == Head(handler_chan)
           n == Name[o]
<1>1. /\ o \in Ops /\ o \in ToSet(handler_chan) /\ n \in Names
      /\ IsInjective(handler_chan') /\ ToSet(handler_chan') = ToSet(handler_chan) \ {o}
  BY ToSetHeadTail, InjectiveTail, NameOf DEF DrainHandlerChan, HandleTypes, ChanInv
<1>2. op[o] = "queued" /\ returned[o] = NoHandler
  BY <1>1 DEF ChanInv, ReturnInv
<1>3. (o \in Adds /\ AddHandler(o)) \/ (o \in Removes /\ RemoveHandler(o))
  BY DEF DrainHandlerChan
<1> HIDE DEF o
<1>4. ASSUME NEW state, op' = [op EXCEPT ![o] = state], state # "queued"
      PROVE  ChanInv' /\ op'[o] = state /\ \A p \in Ops \ {o} : op'[p] = op[p]
  BY <1>1, <1>4 DEF ChanInv, HandleTypes
\* nobody has the handler of an add that is in the channel
<1>5. o \in Adds => /\ \A m \in Names : handler_map[m] # o
                    /\ \A p \in Ops : returned[p] # o
  BY <1>1, <1>2, NoHandlerIsNone DEF MapInv, ReturnInv
<1>6. CASE o \in Adds /\ IsFree(n) /\ AddHandler(o)
  <2>1. /\ handler_map' = [handler_map EXCEPT ![n] = o] /\ op' = [op EXCEPT ![o] = "ok"]
        /\ UNCHANGED returned
    BY <1>6 DEF AddHandler, Become
  <2>2. handler_map'[n] = o /\ \A m \in Names \ {n} : handler_map'[m] = handler_map[m]
    BY <1>1, <2>1 DEF HandleTypes
  <2>3. handler_map[n] = NoHandler
    BY <1>6 DEF IsFree
  <2>4. ChanInv' /\ op'[o] = "ok" /\ \A p \in Ops \ {o} : op'[p] = op[p]
    BY <1>4, <2>1
  <2>5. MapInv'
    BY <1>1, <1>5, <2>1, <2>2, <2>4 DEF MapInv, HandleTypes
  <2>6. ReturnInv'
    BY <1>2, <1>5, <2>1, <2>4 DEF ReturnInv, HandleTypes
  <2>7. KeptInv'
    BY <1>1, <2>1, <2>2, <2>3, <2>4, NoHandlerIsNone, NameOf DEF KeptInv
  <2> QED BY <2>4, <2>5, <2>6, <2>7
<1>7. CASE o \in Adds /\ ~IsFree(n) /\ AddHandler(o)
  <2>1. /\ UNCHANGED handler_map /\ op' = [op EXCEPT ![o] = "exists"]
        /\ returned' = [returned EXCEPT ![o] = o]
    BY <1>7 DEF AddHandler, Become, GiveBack
  <2>2. returned'[o] = o /\ \A p \in Ops \ {o} : returned'[p] = returned[p]
    BY <1>1, <2>1 DEF HandleTypes
  <2>3. ChanInv' /\ op'[o] = "exists" /\ \A p \in Ops \ {o} : op'[p] = op[p]
    BY <1>4, <2>1
  <2>4. MapInv'
    BY <1>2, <1>5, <2>1, <2>2, <2>3 DEF MapInv, HandleTypes
  <2>5. ReturnInv'
    BY <1>2, <1>5, <1>7, <2>2, <2>3 DEF ReturnInv, HandleTypes
  <2>6. KeptInv'
    BY <1>2, <2>1, <2>2, <2>3, NoHandlerIsNone DEF KeptInv
  <2> QED BY <2>3, <2>4, <2>5, <2>6
<1>8. CASE o \in Removes /\ RemoveHandler(o)
  <2> DEFINE a == handler_map[n]
  <2>1. /\ handler_map' = [handler_map EXCEPT ![n] = NoHandler]
        /\ op' = [op EXCEPT ![o] = IF a = NoHandler THEN "nohandler" ELSE "ok"]
        /\ returned' = [returned EXCEPT ![o] = a]
    BY <1>8 DEF RemoveHandler, TakenOut, Become, GiveBack
  <2>2. handler_map'[n] = NoHandler /\ \A m \in Names \ {n} : handler_map'[m] = handler_map[m]
    BY <1>1, <2>1 DEF HandleTypes
  <2>3. returned'[o] = a /\ \A p \in Ops \ {o} : returned'[p] = returned[p]
    BY <1>1, <2>1 DEF HandleTypes
  <2>4. /\ ChanInv' /\ op'[o] = (IF a = NoHandler THEN "nohandler" ELSE "ok")
        /\ \A p \in Ops \ {o} : op'[p] = op[p]
    <3> DEFINE state == IF a = NoHandler THEN "nohandler" ELSE "ok"
    <3>1. op' = [op EXCEPT ![o] = state] /\ state # "queued"
      BY <2>1
    <3> HIDE DEF state
    <3>2. ChanInv' /\ op'[o] = state /\ \A p \in Ops \ {o} : op'[p] = op[p]
      BY <1>4, <3>1
    <3> QED BY <3>2 DEF state
  <2>5. a # NoHandler => a \in Adds /\ Name[a] = n /\ op[a] = "ok" /\ \A p \in Ops : returned[p] # a
    BY <1>1 DEF MapInv, HandleTypes
  <2>6. o \notin Adds
    BY <1>8, NoHandlerIsNone
  <2> HIDE DEF a
  <2>7. MapInv'
    <3> SUFFICES ASSUME NEW m \in Names, handler_map'[m] # NoHandler
                 PROVE  LET b == handler_map'[m] IN
                        Name[b] = m /\ op'[b] = "ok" /\ \A p \in Ops : returned'[p] # b
      BY DEF MapInv
    <3>1. m # n /\ handler_map'[m] = handler_map[m] /\ handler_map[m] \in Adds
      BY <2>2 DEF HandleTypes
    <3>2. /\ Name[handler_map[m]] = m /\ op[handler_map[m]] = "ok"
          /\ \A p \in Ops : returned[p] # handler_map[m]
      BY <3>1 DEF MapInv
    <3>3. handler_map[m] # a
      BY <2>5, <3>1, <3>2
    <3> QED BY <2>3, <2>4, <2>6, <3>1, <3>2, <3>3
  <2>8. ReturnInv'
    BY <1>1, <1>2, <1>8, <2>3, <2>4, <2>5, <2>6 DEF ReturnInv, HandleTypes
  <2>9. KeptInv'
    <3> SUFFICES ASSUME NEW b \in Adds
                 PROVE  /\ op'[b] = "ok" => handler_map'[Name[b]] = b \/ \E p \in Ops : returned'[p] = b
                        /\ op'[b] = "exists" => returned'[b] = b
      BY DEF KeptInv
    <3>1. b # o /\ op'[b] = op[b] /\ returned'[b] = returned[b] /\ Name[b] \in Names
      BY <2>3, <2>4, <2>6, NameOf
    <3>2. CASE op[b] = "ok" /\ handler_map[Name[b]] = b
      <4>1. Name[b] = n => a = b
        BY <3>2 DEF a
      <4> QED BY <1>1, <2>2, <2>3, <3>1, <3>2, <4>1
    <3>3. ASSUME op[b] = "ok", NEW p \in Ops, returned[p] = b
          PROVE  \E q \in Ops : returned'[q] = b
      BY <1>2, <2>3, <3>3, NoHandlerIsNone
    <3> QED BY <3>1, <3>2, <3>3 DEF KeptInv
  <2> QED BY <2>4, <2>7, <2>8, <2>9
<1> QED BY <1>3, <1>6, <1>7, <1>8 DEF AddHandler

LEMMA HandlerInvHolds == Spec => []HandlerInv
<1>1. Init => HandlerInv
  BY ToSetSmall DEF Init, HandlerInv, ChanInv, MapInv, ReturnInv, KeptInv, IsInjective
<1>2. TypeOK /\ HandlerInv /\ [Next]_vars => HandlerInv'
  <2> SUFFICES ASSUME TypeOK, HandlerInv, [Next]_vars, ~Dropped'
               PROVE  ChanInv' /\ MapInv' /\ ReturnInv' /\ KeptInv'
    BY DEF HandlerInv
  <2>1. HandleTypes /\ ~Dropped /\ ChanInv /\ MapInv /\ ReturnInv /\ KeptInv
    BY TypeParts, StaysDropped DEF HandlerInv
  <2>2. CASE User
    BY <2>1, <2>2, UserKeepsHandlers
  <2>3. CASE DrainHandlerChan
    BY <2>1, <2>3, DrainKeepsHandlers
  <2>4. CASE UNCHANGED <<op, returned, handler_chan, handler_map>>
    BY <2>1, <2>4 DEF ChanInv, MapInv, ReturnInv, KeptInv
  <2> QED BY <2>2, <2>3, <2>4, ClientStepEffect
          DEF Next, PollStep, ClientStep, Poll, HandlerChanDrained, PollFuture, RemoveFuture,
              FuturesPolled, ReadRequest, TransportRxDrained, TakeResponse, Ask, HandlerFinishes,
              DropServer, Dropped
<1> QED BY <1>1, <1>2, TypeCorrect, PTL DEF Spec

(* A handler is a value with one owner: in the channel, in the map, given  *)
(* back to the add that failed, or handed to the remove that took it out   *)
(* (Handlers::add, Handlers::remove, drain_handler_chan).                  *)
THEOREM HandlerConservedHolds == Spec => []HandlerConserved
<1>1. TypeOK /\ HandlerInv => HandlerConserved
  <2> SUFFICES ASSUME TypeOK, HandlerInv, NEW a \in Adds, op[a] \in {"queued", "ok", "exists"}, ~Dropped
               PROVE  Cardinality(Owners(a)) = 1
    BY DEF HandlerConserved
  <2>1. HandleTypes /\ ChanInv /\ MapInv /\ ReturnInv /\ KeptInv /\ a # NoHandler
    BY TypeParts, NoHandlerIsNone DEF HandlerInv
  <2>2. Contains(handler_chan, a) <=> op[a] = "queued"
    BY <2>1, ContainsToSet DEF ChanInv, HandleTypes
  <2>3. \E x : Owners(a) = {x}
    <3>1. CASE op[a] = "queued"
      <4>1. \A o \in Ops : returned[o] # a
        BY <2>1, <3>1 DEF ReturnInv
      <4>2. \A n \in Names : handler_map[n] # a
        BY <2>1, <3>1 DEF MapInv
      <4>3. Owners(a) = {"chan"}
        BY <2>2, <3>1, <4>1, <4>2 DEF Owners
      <4> QED BY <4>3
    <3>2. ASSUME op[a] # "queued", NEW o \in Ops, returned[o] = a PROVE \E x : Owners(a) = {x}
      <4>1. \A p \in Ops : returned[p] = a => p = o
        BY <2>1, <3>2 DEF ReturnInv
      <4>2. \A n \in Names : handler_map[n] # a
        BY <2>1, <3>2 DEF MapInv
      <4>3. Owners(a) = {o}
        BY <2>2, <3>2, <4>1, <4>2 DEF Owners
      <4> QED BY <4>3
    <3>3. CASE op[a] = "ok" /\ \A o \in Ops : returned[o] # a
      <4>1. handler_map[Name[a]] = a /\ Name[a] \in Names
        BY <2>1, <3>3, NameOf DEF KeptInv
      <4>2. \A n \in Names : handler_map[n] = a => n = Name[a]
        BY <2>1 DEF MapInv
      <4>3. Owners(a) = {Name[a]}
        BY <2>2, <3>3, <4>1, <4>2 DEF Owners
      <4> QED BY <4>3
    <3> QED BY <2>1, <3>1, <3>2, <3>3 DEF KeptInv
  <2> QED BY <2>3, FS_Singleton
<1> QED BY <1>1, TypeCorrect, HandlerInvHolds, PTL

-----------------------------------------------------------------------------
(* How far the calls of a request are                                      *)

CallInv ==
  \A r \in Requests :
    /\ future[r] = "none" => \A c \in Content[r] : run[c] = "none" /\ handled_by[c] = NoHandler
    /\ future[r] # "none" => \A c \in Content[r] : run[c] # "none"
    /\ future[r] \in {"sending", "done"} => \A c \in Content[r] : run[c] = "ok"

(* A step of a future: it sends its response when it leaves "handling",    *)
(* after all its calls.                                                    *)
LEMMA DriveEffect ==
  ASSUME NEW r, NEW from, NEW to, Drive(r, from, to)
  PROVE  /\ from \in {"handling", "sending", "failed"} /\ to \in DriveStates
         /\ from = "sending" => to \in {"sending", "done"}
         /\ from = "handling" /\ to \in {"sending", "done"} => \A c \in Content[r] : run'[c] = "ok"
         /\ \/ responses' = responses
            \/ from = "handling" /\ to = "sending" /\ HasOutput(r) /\ responses' = Append(responses, r)
  BY DEF Drive, DriveStates, HasFinished, Respond

LEMMA ReadEffect ==
  ASSUME RequestTypes, HandleTypes, QueueInv, ReadRequest
  PROVE  \E to \in DriveStates : LET r == Head(transport_rx) IN
         /\ r \in Requests /\ r \in ToSet(transport_rx) /\ future[r] = "none" /\ r \in asked
         /\ r \notin ToSet(pending_futures)
         /\ Drive(r, "handling", to) /\ future' = [future EXCEPT ![r] = to]
         /\ future'[r] = to /\ \A q \in Requests \ {r} : future'[q] = future[q]
         /\ pending_futures' = IF to = "done" THEN pending_futures ELSE Append(pending_futures, r)
<1> DEFINE r == Head(transport_rx)
<1>1. PICK to \in DriveStates :
        /\ Drive(r, "handling", to) /\ future' = [future EXCEPT ![r] = to]
        /\ pending_futures' = IF to = "done" THEN pending_futures ELSE Append(pending_futures, r)
  BY DEF ReadRequest, process_request
<1>2. r \in Requests /\ r \in ToSet(transport_rx)
  BY ToSetHeadTail DEF ReadRequest, RequestTypes
<1> HIDE DEF r
<1>3. future[r] = "none" /\ r \in asked /\ r \notin ToSet(pending_futures)
  BY <1>2 DEF QueueInv
<1>4. future'[r] = to /\ \A q \in Requests \ {r} : future'[q] = future[q]
  BY <1>1, <1>2 DEF RequestTypes
<1> QED BY <1>1, <1>2, <1>3, <1>4 DEF r

LEMMA PollFutureEffect ==
  ASSUME RequestTypes, PollFuture
  PROVE  \E to \in DriveStates : LET r == Head(to_poll) IN
         /\ r \in Requests /\ ToSet(to_poll) \subseteq {r} \cup ToSet(to_poll')
         /\ Drive(r, future[r], to) /\ future[r] # "none"
         /\ future'[r] = to /\ \A q \in Requests \ {r} : future'[q] = future[q]
         /\ IF to = "failed" THEN ShutDown ELSE GoOn("futures")
<1> DEFINE r == Head(to_poll)
<1>1. PICK to \in DriveStates :
        /\ Drive(r, future[r], to) /\ future' = [future EXCEPT ![r] = to]
        /\ IF to = "failed" THEN ShutDown ELSE GoOn("futures")
  BY DEF PollFuture
<1>2. r \in Requests /\ ToSet(to_poll) \subseteq {r} \cup ToSet(to_poll')
  BY ToSetHeadTail DEF PollFuture, RequestTypes
<1> HIDE DEF r
<1>3. future[r] # "none"
  BY <1>1, DriveEffect
<1>4. future'[r] = to /\ \A q \in Requests \ {r} : future'[q] = future[q]
  BY <1>1, <1>2 DEF RequestTypes
<1> QED BY <1>1, <1>2, <1>3, <1>4 DEF r

LEMMA ContentOf ==
  /\ \A r \in Requests : Content[r] \subseteq Calls
  /\ \A q, r \in Requests : \A c \in Content[q] : c \in Content[r] => q = r
  BY ContentIsCalls, ContentIsDisjoint

LEMMA CallInvKept ==
  ASSUME RequestTypes, HandleTypes, QueueInv, CallInv, [Next]_vars PROVE CallInv'
<1>1. CASE PollFuture
  <2> DEFINE r == Head(to_poll)
  <2>1. PICK to \in DriveStates :
          /\ r \in Requests /\ Drive(r, future[r], to) /\ future[r] # "none"
          /\ future'[r] = to /\ \A q \in Requests \ {r} : future'[q] = future[q]
    BY <1>1, PollFutureEffect
  <2> HIDE DEF r
  <2>2. UNCHANGED <<run, handled_by>> /\ to # "none"
    BY <1>1 DEF PollFuture, DriveStates
  <2>3. to \in {"sending", "done"} => \A c \in Content[r] : run[c] = "ok"
    <3>1. \A c \in Content[r] : run'[c] = run[c]
      BY <2>2
    <3>2. /\ future[r] \in {"handling", "sending", "failed"}
          /\ future[r] = "sending" => to \in {"sending", "done"}
          /\ future[r] = "handling" /\ to \in {"sending", "done"} => \A c \in Content[r] : run'[c] = "ok"
          /\ future[r] = "failed" => to = "failed"
      <4>1. Drive(r, future[r], to)
        BY <2>1
      <4> QED BY <4>1 DEF Drive, HasFinished, Respond
    <3>3. future[r] = "sending" => \A c \in Content[r] : run[c] = "ok"
      BY <2>1 DEF CallInv
    <3> QED BY <3>1, <3>2, <3>3
  <2> QED BY <2>1, <2>2, <2>3 DEF CallInv
<1>2. CASE ReadRequest
  <2> DEFINE r == Head(transport_rx)
  <2>1. PICK to \in DriveStates :
          /\ r \in Requests /\ future[r] = "none" /\ Drive(r, "handling", to)
          /\ future'[r] = to /\ \A q \in Requests \ {r} : future'[q] = future[q]
    BY <1>2, ReadEffect
  <2>2. /\ \A c \in Calls \ Content[r] : run'[c] = run[c] /\ handled_by'[c] = handled_by[c]
        /\ \A c \in Content[r] : run'[c] # "none"
    BY <1>2, ProcessEffect DEF Outcomes
  <2> HIDE DEF r
  <2>3. to \in {"sending", "done"} => \A c \in Content[r] : run'[c] = "ok"
    BY <2>1, DriveEffect
  <2>4. \A q \in Requests \ {r} : \A c \in Content[q] : run'[c] = run[c] /\ handled_by'[c] = handled_by[c]
    BY <2>1, <2>2, ContentOf
  <2>5. to # "none"
    BY DEF DriveStates
  <2> QED BY <2>1, <2>2, <2>3, <2>4, <2>5 DEF CallInv
<1>3. ASSUME NEW r \in Requests, NEW c \in Calls, HandlerFinishes(r, c) PROVE CallInv'
  <2>1. /\ c \in Content[r] /\ run[c] = "running" /\ UNCHANGED <<future, handled_by>>
        /\ run'[c] # "none" /\ \A d \in Calls \ {c} : run'[d] = run[d]
    BY <1>3 DEF HandlerFinishes, RequestTypes
  <2>2. \A q \in Requests : \A d \in Content[q] :
          /\ d \in Calls
          /\ run[d] \in {"none", "ok"} => d # c /\ run'[d] = run[d]
          /\ run[d] # "none" => run'[d] # "none"
    BY <2>1, ContentOf
  <2> QED BY <2>1, <2>2 DEF CallInv
<1>4. CASE UNCHANGED <<future, run, handled_by>>
  BY <1>4 DEF CallInv
<1> QED BY <1>1, <1>2, <1>3, <1>4, ClientStepEffect
        DEF Next, PollStep, ClientStep, Poll, DrainHandlerChan, HandlerChanDrained, RemoveFuture,
            FuturesPolled, TransportRxDrained, TakeResponse, DropServer, User, Ask

LEMMA CallInvHolds == Spec => []CallInv
<1>1. Init => CallInv
  <2> SUFFICES ASSUME Init PROVE CallInv
    OBVIOUS
  <2>1. \A r \in Requests : future[r] = "none" /\ \A c \in Content[r] : c \in Calls
    BY ContentOf DEF Init
  <2>2. \A c \in Calls : run[c] = "none" /\ handled_by[c] = NoHandler
    BY DEF Init
  <2> QED BY <2>1, <2>2 DEF CallInv
<1>2. TypeOK /\ QueueInv /\ CallInv /\ [Next]_vars => CallInv'
  BY TypeParts, CallInvKept
<1> QED BY <1>1, <1>2, QueueInvHolds, PTL DEF Spec

(* A call is given to a handler only between its add and its remove        *)
(* (process_request, handle_single_call).                                  *)
THEOREM OnlySetHandlersRunHolds == Spec => OnlySetHandlersRun
<1> DEFINE Handed ==
      \A c \in Calls : handled_by'[c] # handled_by[c] =>
        LET h == handled_by'[c] IN op[h] = "ok" /\ \A o \in Ops : returned[o] # h
<1>1. TypeOK /\ QueueInv /\ CallInv /\ HandlerInv /\ [Next]_vars => [Handed]_vars
  <2> SUFFICES ASSUME TypeOK, QueueInv, CallInv, HandlerInv, [Next]_vars,
                      NEW c \in Calls, handled_by'[c] # handled_by[c]
               PROVE  op[handled_by'[c]] = "ok" /\ \A o \in Ops : returned[o] # handled_by'[c]
    OBVIOUS
  <2> DEFINE r == Head(transport_rx)
             h == handled_by'[c]
  <2>1. ReadRequest
    BY ClientStepEffect
       DEF Next, PollStep, ClientStep, Poll, DrainHandlerChan, HandlerChanDrained, PollFuture,
           RemoveFuture, FuturesPolled, TransportRxDrained, TakeResponse, DropServer, User, Ask,
           HandlerFinishes
  <2>2. RequestTypes /\ HandleTypes
    BY TypeParts
  <2>3. r \in Requests /\ future[r] = "none"
    BY <2>1, <2>2, ReadEffect
  <2>4. c \in Content[r] /\ h = HandlerFor(c)
    BY <2>1, <2>2, ProcessEffect
  <2>5. handled_by[c] = NoHandler
    BY <2>3, <2>4 DEF CallInv
  <2>6. h # NoHandler /\ h = handler_map[Name[c]] /\ Name[c] \in Names
    BY <2>4, <2>5, NameOf DEF HandlerFor
  <2>7. MapInv
    BY <2>1 DEF HandlerInv, ReadRequest, Dropped
  <2> QED BY <2>6, <2>7 DEF MapInv
<1> QED BY <1>1, QueueInvHolds, CallInvHolds, HandlerInvHolds, PTL DEF Spec, OnlySetHandlersRun

-----------------------------------------------------------------------------
(* The responses                                                           *)

AnswerInv ==
  /\ IsInjective(answered \o responses)
  /\ \A r \in ToSet(answered \o responses) : future[r] \in {"sending", "done"} /\ HasOutput(r)

LEMMA AnswerInvKept ==
  ASSUME RequestTypes, HandleTypes, QueueInv, AnswerInv, [Next]_vars PROVE AnswerInv'
<1> DEFINE out == answered \o responses
<1>1. out \in Seq(Requests) /\ ToSet(out) \subseteq Requests
  BY DEF RequestTypes, ToSet
\* a future of any request goes on
<1>2. ASSUME NEW r \in Requests, NEW from, NEW to, Drive(r, from, to),
             future[r] = from \/ future[r] = "none",
             future'[r] = to, \A q \in Requests \ {r} : future'[q] = future[q], UNCHANGED answered
      PROVE  AnswerInv'
  <2> HIDE DEF out
  <2>1. r \in ToSet(out) => from = "sending"
    BY <1>2, DriveEffect DEF AnswerInv, out
  <2>2. r \in ToSet(out) => to \in {"sending", "done"}
    BY <1>2, <2>1, DriveEffect
  <2>3. \A q \in ToSet(out) : future'[q] \in {"sending", "done"} /\ HasOutput(q)
    BY <1>1, <1>2, <2>2 DEF AnswerInv, out
  <2>4. CASE responses' = responses
    BY <1>2, <2>3, <2>4 DEF AnswerInv, out
  <2>5. CASE from = "handling" /\ to = "sending" /\ HasOutput(r) /\ responses' = Append(responses, r)
    <3>1. (answered \o responses)' = Append(out, r)
      BY <1>2, <2>5, AppendLast DEF RequestTypes, out
    <3>2. r \notin ToSet(out)
      BY <2>1, <2>5
    <3>3. IsInjective(Append(out, r)) /\ ToSet(Append(out, r)) = ToSet(out) \cup {r}
      BY <1>1, <3>2, InjectiveAppend, ToSetAppend DEF AnswerInv, out
    <3>4. \A q \in ToSet(Append(out, r)) : future'[q] \in {"sending", "done"} /\ HasOutput(q)
      BY <1>2, <2>3, <2>5, <3>3
    <3> QED BY <3>1, <3>3, <3>4 DEF AnswerInv, HasOutput
  <2> QED BY <1>2, <2>4, <2>5, DriveEffect
<1>3. CASE PollFuture
  <2> DEFINE r == Head(to_poll)
  <2>1. \E to : /\ r \in Requests /\ Drive(r, future[r], to)
                /\ future'[r] = to /\ \A q \in Requests \ {r} : future'[q] = future[q]
    BY <1>3, PollFutureEffect
  <2>2. UNCHANGED answered
    BY <1>3 DEF PollFuture
  <2> HIDE DEF r
  <2> QED BY <1>2, <2>1, <2>2
<1>4. CASE ReadRequest
  <2> DEFINE r == Head(transport_rx)
  <2>1. \E to : /\ r \in Requests /\ Drive(r, "handling", to) /\ future[r] = "none"
                /\ future'[r] = to /\ \A q \in Requests \ {r} : future'[q] = future[q]
    BY <1>4, ReadEffect
  <2>2. UNCHANGED answered
    BY <1>4 DEF ReadRequest
  <2> HIDE DEF r
  <2> QED BY <1>2, <2>1, <2>2
<1>5. CASE TakeResponse
  <2>1. answered' \o responses' = answered \o responses /\ UNCHANGED future
    BY <1>5, MoveHead DEF TakeResponse, RequestTypes
  <2> QED BY <2>1 DEF AnswerInv, HasOutput
<1>6. CASE DropServer
  <2>1. responses' = << >> /\ UNCHANGED <<answered, future>>
    BY <1>6 DEF DropServer
  <2>2. answered \o << >> = answered
    BY DEF RequestTypes
  <2>3. IsInjective(answered) /\ ToSet(answered) \subseteq ToSet(out)
    BY InjectivePrefix, ToSetConcat DEF AnswerInv, RequestTypes
  <2>4. answered' \o responses' = answered
    BY <2>1, <2>2
  <2>5. \A r \in ToSet(answered) : future[r] \in {"sending", "done"} /\ HasOutput(r)
    BY <2>3 DEF AnswerInv
  <2> QED BY <2>1, <2>3, <2>4, <2>5 DEF AnswerInv, HasOutput
<1>7. CASE UNCHANGED <<answered, responses, future>>
  BY <1>7 DEF AnswerInv, HasOutput
<1> QED BY <1>3, <1>4, <1>5, <1>6, <1>7, ClientStepEffect
        DEF Next, PollStep, ClientStep, Poll, DrainHandlerChan, HandlerChanDrained, RemoveFuture,
            FuturesPolled, TransportRxDrained, User, Ask, HandlerFinishes

LEMMA AnswerInvHolds == Spec => []AnswerInv
<1>1. Init => AnswerInv
  <2> SUFFICES ASSUME Init PROVE AnswerInv
    OBVIOUS
  <2>1. answered \o responses = << >>
    BY DEF Init
  <2> QED BY <2>1, ToSetSmall DEF AnswerInv, IsInjective
<1>2. TypeOK /\ QueueInv /\ AnswerInv /\ [Next]_vars => AnswerInv'
  BY TypeParts, AnswerInvKept
<1> QED BY <1>1, <1>2, QueueInvHolds, PTL DEF Spec

(* A request is answered at most once, when all its calls are done, and    *)
(* not at all when it has only notifications (process_request).            *)
THEOREM AnsweredOnceWhenDoneHolds == Spec => []AnsweredOnceWhenDone
<1>1. TypeOK /\ CallInv /\ AnswerInv => AnsweredOnceWhenDone
  <2> SUFFICES ASSUME TypeOK, CallInv, AnswerInv PROVE AnsweredOnceWhenDone
    OBVIOUS
  <2> DEFINE out == answered \o responses
  <2>1. out \in Seq(Requests)
    BY DEF TypeOK
  <2>2. \A i \in DOMAIN out : out[i] \in Requests /\ out[i] \in ToSet(out)
    BY <2>1 DEF ToSet
  <2>3. \A i \in DOMAIN out : HasOutput(out[i]) /\ \A c \in Content[out[i]] : run[c] = "ok"
    BY <2>2 DEF AnswerInv, CallInv
  <2>4. \A i, j \in DOMAIN out : out[i] = out[j] => i = j
    BY DEF AnswerInv, IsInjective
  <2> QED BY <2>3, <2>4 DEF AnsweredOnceWhenDone
<1> QED BY <1>1, TypeCorrect, CallInvHolds, AnswerInvHolds, PTL

-----------------------------------------------------------------------------
(* The task of the Client hears of everything it has yet to do             *)

\* Whether the poll serves, or has begun to shut down.
PhaseInv ==
  /\ pc \in {"leftover", "drain", "futures", "rx", "outgoing", "flush"} => ~should_shut_down
  /\ pc \in {"shutdown_rx", "close", "resolved"} => should_shut_down

LEMMA PhaseInvHolds == Spec => []PhaseInv
<1>1. Init => PhaseInv
  BY DEF Init, TaskInit, PhaseInv
<1>2. PhaseInv /\ [Next]_vars => PhaseInv'
  <2> SUFFICES ASSUME PhaseInv, [Next]_vars PROVE PhaseInv'
    OBVIOUS
  <2>1. CASE UNCHANGED <<pc, should_shut_down>>
    BY <2>1 DEF PhaseInv
  <2>2. ASSUME pc \in {"leftover", "drain", "futures", "rx", "outgoing", "flush"},
               \E next \in {"drain", "futures", "rx", "outgoing", "flush", "idle"} : GoOn(next) \/ ShutDown
        PROVE  PhaseInv'
    BY <2>2 DEF GoOn, ShutDown, PhaseInv
  <2>3. CASE SendLeftover \/ PollFuture \/ TakeResponse \/ TakeOther \/ ClientStops
    BY <2>2, <2>3 DEF SendLeftover, PollFuture, TakeResponse, TakeOther, ClientStops, send_payload
  <2>4. CASE HandlerChanDrained \/ FuturesPolled \/ TransportRxDrained \/ OutgoingDone \/ Flush
    BY <2>2, <2>4 DEF HandlerChanDrained, FuturesPolled, TransportRxDrained, OutgoingDone, Flush, GoOn
  <2>5. CASE Poll \/ ShutdownRxDone \/ Close \/ DropServer
    BY <2>5 DEF Poll, ShutdownRxDone, Close, DropServer, PhaseInv
  <2>6. CASE DrainHandlerChan \/ RemoveFuture \/ ReadRequest \/ User \/ Deliver
    BY <2>1, <2>6 DEF DrainHandlerChan, RemoveFuture, ReadRequest, User, Deliver
  <2>7. ASSUME NEW r \in Requests, Ask(r) \/ \E c \in Calls : HandlerFinishes(r, c) PROVE PhaseInv'
    BY <2>1, <2>7 DEF Ask, HandlerFinishes
  <2> QED BY <2>1, <2>3, <2>4, <2>5, <2>6, <2>7 DEF Next, PollStep
<1> QED BY <1>1, <1>2, PTL DEF Spec

\* The task is registered with what the future of r waits for: a handler, or
\* the channel that holds its response.
Waits(r) ==
  /\ r \in registered
  /\ \/ /\ future[r] = "handling"
        /\ \E c \in Content[r] : run[c] = "running"
        /\ \A c \in Content[r] : run[c] # "error"
     \/ future[r] = "sending" /\ r \in ToSet(responses)

\* What a task that is not woken is registered with, from where the poll has
\* come to: while it serves, with the sink for a payload it keeps, with the
\* channel of the handles, with what its futures wait for, with the stream,
\* and with the responses or the sink; when it shuts down, with the sink.
Drained == pc \in {"futures", "rx", "outgoing", "flush", "idle"} /\ ~should_shut_down
PayloadHeard ==
  (Drained \/ pc = "drain") /\ pending_payload => transport_tx = SinkCap /\ "tx" \in registered
ChanHeard == Drained => chan_taken \/ (handler_chan = << >> /\ "chan" \in registered)
FuturesHeard ==
  Drained => \A r \in ToSet(pending_futures) :
    \/ Waits(r)
    \/ future[r] = "failed"
    \/ pc = "futures" /\ (future[r] = "done" \/ r \in ToSet(to_poll))
RxHeard ==
  Drained /\ pc \in {"outgoing", "flush", "idle"} => transport_rx = << >> /\ "rx" \in registered
ResponsesHeard ==
  Drained /\ pc \in {"flush", "idle"} => SinkFull \/ (responses = << >> /\ "weak" \in registered)
CloseHeard == should_shut_down /\ pc = "idle" => AsleepClosing
Hears == PayloadHeard /\ ChanHeard /\ FuturesHeard /\ RxHeard /\ ResponsesHeard /\ CloseHeard
WakeInv == ~woken => Hears

\* An event that does not wake the task finds it unregistered.
LEMMA Unheard ==
  ASSUME NEW s, Notify(s), ~woken' PROVE ~woken /\ registered \subseteq registered'
  BY DEF Notify

(* A poll, until the next begins, forgets a registration only to wake the  *)
(* task.                                                                   *)
LEMMA Remembers ==
  ASSUME [Next]_vars, ~Poll, ~DropServer, ~woken'
  PROVE  ~woken /\ registered \subseteq registered'
<1>1. CASE UNCHANGED woken /\ \E S : registered' = registered \cup S
  BY <1>1
<1>2. CASE UNCHANGED taskVars
  BY <1>2
<1>3. CASE User
  <2>1. UNCHANGED taskVars \/ Notify("chan")
    BY <1>3 DEF User, CallHandle, SendOp, Cancel, DropHandle, HandlesMayHaveGone
  <2> QED BY <1>2, <2>1, Unheard
<1>4. CASE DrainHandlerChan \/ HandlerChanDrained
  BY <1>1, <1>2, <1>4 DEF DrainHandlerChan, HandlerChanDrained, Register
<1>5. ASSUME NEW r, NEW from, NEW to, Drive(r, from, to) PROVE ~woken /\ registered \subseteq registered'
  <2>1. ASSUME Respond(r) PROVE ~woken /\ registered \subseteq registered'
    BY <2>1 DEF Respond
  <2> QED BY <1>1, <1>2, <1>5, <2>1 DEF Drive, Registered
<1>6. CASE PollFuture \/ ReadRequest
  BY <1>5, <1>6 DEF PollFuture, ReadRequest, process_request
<1>7. CASE RemoveFuture \/ FuturesPolled \/ ClientStops
  BY <1>2, <1>7 DEF RemoveFuture, FuturesPolled, ClientStops
<1>8. CASE TransportRxDrained \/ OutgoingDone \/ Flush \/ ShutdownRxDone \/ Close
  BY <1>1, <1>2, <1>8 DEF TransportRxDrained, OutgoingDone, Flush, ShutdownRxDone, Close, Register
<1>9. CASE TakeResponse
  <2>1. /\ registered \ {Head(responses)} \subseteq registered'
        /\ woken' = (woken \/ Head(responses) \in registered)
    BY <1>9, SendEffect DEF TakeResponse
  <2> QED BY <2>1
<1>10. ASSUME NEW r \in Requests, Ask(r) \/ \E c \in Calls : HandlerFinishes(r, c)
       PROVE  ~woken /\ registered \subseteq registered'
  BY <1>10, Unheard DEF Ask, HandlerFinishes
<1>11. CASE SendLeftover \/ TakeOther
  <2>1. UNCHANGED woken /\ registered \ {} \subseteq registered'
    BY <1>11, SendEffect DEF SendLeftover, TakeOther
  <2> QED BY <2>1
<1>12. CASE Deliver \/ UNCHANGED vars
  BY <1>2, <1>12, Unheard DEF Deliver
<1> QED BY <1>3, <1>4, <1>6, <1>7, <1>8, <1>9, <1>10, <1>11, <1>12 DEF Next, PollStep

\* What the Client does of its own leaves "Drained" as it was, or ends it.
LEMMA ClientStepDrained ==
  ASSUME PhaseInv, ClientStep
  PROVE  /\ Drained' => Drained
         /\ Drained' /\ pc' \in {"outgoing", "flush", "idle"} => pc \in {"outgoing", "flush", "idle"}
<1>1. CASE SendLeftover
  BY <1>1, SendEffect DEF SendLeftover, GoOn, Drained
<1>2. CASE TakeOther
  BY <1>2, SendEffect DEF TakeOther, Drained, PhaseInv
<1>3. CASE ClientStops \/ OutgoingDone \/ Flush \/ ShutdownRxDone \/ Close \/ Deliver
  BY <1>3 DEF ClientStops, ShutDown, OutgoingDone, Flush, ShutdownRxDone, Close, Deliver, Drained, PhaseInv
<1> QED BY <1>1, <1>2, <1>3 DEF ClientStep

LEMMA PayloadHeardKept ==
  ASSUME PhaseInv, PayloadHeard, [Next]_vars, registered \subseteq registered', ~woken'
  PROVE  PayloadHeard'
<1> DEFINE Kept == Drained \/ pc = "drain"
<1>1. CASE UNCHANGED sinkVars /\ (Kept' => Kept)
  BY <1>1 DEF PayloadHeard
<1>2. CASE ~Kept'
  BY <1>2 DEF PayloadHeard
<1>3. CASE SendLeftover
  <2>1. CASE send_payload("drain", {})
    BY <1>3, <2>1, SendEffect DEF SendLeftover, PhaseInv, PayloadHeard, Drained
  <2>2. CASE ~pending_payload /\ UNCHANGED pending_payload
    BY <2>2 DEF PayloadHeard
  <2> QED BY <1>3, <2>1, <2>2 DEF SendLeftover, Leftover
<1>4. CASE TakeResponse \/ TakeOther
  BY <1>4, SendEffect DEF TakeResponse, TakeOther, PayloadHeard, Drained
<1>5. CASE Deliver
  BY <1>5 DEF Deliver, Notify, PayloadHeard, Drained
<1>6. CASE Poll \/ ClientStops \/ ShutdownRxDone \/ DropServer
  BY <1>2, <1>6 DEF Poll, ClientStops, ShutDown, ShutdownRxDone, DropServer, Drained
<1>7. CASE PollFuture
  BY <1>1, <1>2, <1>7 DEF PollFuture, GoOn, ShutDown, Drained
<1>8. CASE DrainHandlerChan \/ HandlerChanDrained \/ RemoveFuture \/ FuturesPolled \/ ReadRequest
           \/ TransportRxDrained \/ OutgoingDone \/ Flush \/ Close \/ User \/ UNCHANGED vars
  BY <1>1, <1>2, <1>8
     DEF DrainHandlerChan, HandlerChanDrained, RemoveFuture, FuturesPolled, ReadRequest,
         TransportRxDrained, OutgoingDone, Flush, Close, User, Drained, PhaseInv
<1>9. ASSUME NEW r \in Requests, Ask(r) \/ \E c \in Calls : HandlerFinishes(r, c) PROVE PayloadHeard'
  BY <1>1, <1>9 DEF Ask, HandlerFinishes, Drained
<1> QED BY <1>3, <1>4, <1>5, <1>6, <1>7, <1>8, <1>9 DEF Next, PollStep

LEMMA ChanHeardKept ==
  ASSUME PhaseInv, ChanHeard, [Next]_vars, registered \subseteq registered', ~woken, ~woken'
  PROVE  ChanHeard'
<1>1. ASSUME NEW o \in Ops, SendOp(o), User PROVE ChanHeard'
  <2>1. ~Dropped => "chan" \notin registered
    BY <1>1 DEF SendOp, Notify
  <2> QED BY <1>1, <2>1 DEF SendOp, User, ChanHeard, Drained, Dropped
<1>2. CASE HandlerChanDrained
  BY <1>2 DEF HandlerChanDrained, Register, ChanEmpty, ChanHeard
<1>3. CASE UNCHANGED <<handler_chan, chan_taken>> /\ (Drained' => Drained)
  BY <1>3 DEF ChanHeard
<1>4. CASE User
  BY <1>1, <1>3, <1>4 DEF User, CallHandle, Cancel, DropHandle, Drained
<1>5. CASE ~Drained'
  BY <1>5 DEF ChanHeard
<1>6. CASE DrainHandlerChan \/ Poll \/ DropServer
  BY <1>5, <1>6 DEF DrainHandlerChan, Poll, DropServer, Drained
<1>7. CASE RemoveFuture \/ FuturesPolled \/ ReadRequest \/ TransportRxDrained
  BY <1>3, <1>7 DEF RemoveFuture, FuturesPolled, ReadRequest, TransportRxDrained, Drained
<1>8. ASSUME NEW r \in Requests, Ask(r) \/ \E c \in Calls : HandlerFinishes(r, c) PROVE ChanHeard'
  BY <1>3, <1>8 DEF Ask, HandlerFinishes, Drained
<1>9. CASE ClientStep \/ UNCHANGED vars
  BY <1>3, <1>9, ClientStepEffect, ClientStepDrained DEF Drained
<1>10. CASE PollFuture
  BY <1>3, <1>10 DEF PollFuture, GoOn, ShutDown, Drained
<1>11. CASE TakeResponse
  BY <1>3, <1>11, SendEffect DEF TakeResponse, Drained
<1> QED BY <1>2, <1>4, <1>6, <1>7, <1>8, <1>9, <1>10, <1>11 DEF Next, PollStep, ClientStep

LEMMA RxHeardKept ==
  ASSUME PhaseInv, RxHeard, [Next]_vars, registered \subseteq registered', ~woken, ~woken'
  PROVE  RxHeard'
<1> DEFINE Read == Drained /\ pc \in {"outgoing", "flush", "idle"}
<1>1. CASE TransportRxDrained
  BY <1>1 DEF TransportRxDrained, Register, RxHeard
<1>2. ASSUME NEW r \in Requests, Ask(r) PROVE RxHeard'
  BY <1>2 DEF Ask, Notify, RxHeard, Drained
<1>3. CASE UNCHANGED transport_rx /\ (Read' => Read)
  BY <1>3 DEF RxHeard
<1>4. CASE ~Read'
  BY <1>4 DEF RxHeard
<1>5. CASE Poll \/ DrainHandlerChan \/ HandlerChanDrained \/ PollFuture \/ RemoveFuture
           \/ FuturesPolled \/ ReadRequest \/ DropServer
  BY <1>4, <1>5 DEF Poll, DrainHandlerChan, HandlerChanDrained, PollFuture, GoOn, ShutDown,
                    RemoveFuture, FuturesPolled, ReadRequest, DropServer
<1>6. CASE User \/ UNCHANGED vars
  BY <1>3, <1>6 DEF User, Drained
<1>7. ASSUME NEW r \in Requests, NEW c \in Calls, HandlerFinishes(r, c) PROVE RxHeard'
  BY <1>3, <1>7 DEF HandlerFinishes, Drained
<1>8. CASE TakeResponse
  BY <1>3, <1>8, SendEffect DEF TakeResponse, Drained
<1>9. CASE ClientStep
  BY <1>3, <1>9, ClientStepEffect, ClientStepDrained
<1> QED BY <1>1, <1>2, <1>5, <1>6, <1>7, <1>8, <1>9 DEF Next, PollStep, ClientStep

LEMMA ResponsesHeardKept ==
  ASSUME PhaseInv, PayloadHeard, ResponsesHeard, [Next]_vars, registered \subseteq registered', ~woken'
  PROVE  ResponsesHeard'
<1> DEFINE Taken == Drained /\ pc \in {"flush", "idle"}
<1>1. CASE OutgoingDone
  BY <1>1 DEF OutgoingDone, MayTakeMessage, NoneLeft, Register, PayloadHeard, Drained, PhaseInv,
              SinkFull, ResponsesHeard
<1>2. CASE UNCHANGED <<responses, sinkVars>> /\ (Taken' => Taken)
  BY <1>2 DEF ResponsesHeard, SinkFull
<1>3. CASE ~Taken'
  BY <1>3 DEF ResponsesHeard
<1>4. CASE Poll \/ DrainHandlerChan \/ HandlerChanDrained \/ PollFuture \/ RemoveFuture
           \/ FuturesPolled \/ ReadRequest \/ TransportRxDrained \/ DropServer
  BY <1>3, <1>4 DEF Poll, DrainHandlerChan, HandlerChanDrained, PollFuture, GoOn, ShutDown,
                    RemoveFuture, FuturesPolled, ReadRequest, TransportRxDrained, DropServer
<1>5. CASE SendLeftover \/ TakeResponse \/ TakeOther
  BY <1>3, <1>5, SendEffect DEF SendLeftover, TakeResponse, TakeOther, GoOn
<1>6. CASE ClientStops \/ ShutdownRxDone \/ Close
  BY <1>3, <1>6 DEF ClientStops, ShutDown, ShutdownRxDone, Close, PhaseInv, Drained
<1>7. CASE Flush
  BY <1>2, <1>7 DEF Flush, Drained
<1>8. CASE Deliver
  BY <1>8 DEF Deliver, Notify, ResponsesHeard, SinkFull, Drained
<1>9. CASE User \/ UNCHANGED vars
  BY <1>2, <1>9 DEF User, Drained
<1>10. ASSUME NEW r \in Requests, Ask(r) \/ \E c \in Calls : HandlerFinishes(r, c) PROVE ResponsesHeard'
  BY <1>2, <1>10 DEF Ask, HandlerFinishes, Drained
<1> QED BY <1>1, <1>4, <1>5, <1>6, <1>7, <1>8, <1>9, <1>10 DEF Next, PollStep

LEMMA CloseHeardKept ==
  ASSUME PhaseInv, CloseHeard, [Next]_vars, registered \subseteq registered', ~woken' PROVE CloseHeard'
<1>1. CASE Close
  BY <1>1 DEF Close, Register, CloseHeard, AsleepClosing
<1>2. CASE Deliver
  BY <1>2 DEF Deliver, Notify, CloseHeard, AsleepClosing
<1>3. CASE pc' # "idle" \/ ~should_shut_down'
  BY <1>3 DEF CloseHeard
<1>4. CASE UNCHANGED <<pc, should_shut_down, transport_tx>>
  BY <1>4 DEF CloseHeard, AsleepClosing
<1>5. CASE SendLeftover \/ TakeResponse \/ TakeOther
  BY <1>3, <1>5, SendEffect DEF SendLeftover, TakeResponse, TakeOther, GoOn
<1>6. CASE Poll \/ HandlerChanDrained \/ PollFuture \/ FuturesPolled \/ TransportRxDrained \/ OutgoingDone
           \/ Flush \/ ShutdownRxDone \/ ClientStops \/ DropServer
  BY <1>3, <1>6
     DEF Poll, HandlerChanDrained, PollFuture, GoOn, ShutDown, FuturesPolled, TransportRxDrained,
         OutgoingDone, Flush, ShutdownRxDone, ClientStops, DropServer, PhaseInv
<1>7. CASE DrainHandlerChan \/ RemoveFuture \/ ReadRequest \/ User \/ UNCHANGED vars
  BY <1>4, <1>7 DEF DrainHandlerChan, RemoveFuture, ReadRequest, User
<1>8. ASSUME NEW r \in Requests, Ask(r) \/ \E c \in Calls : HandlerFinishes(r, c) PROVE CloseHeard'
  BY <1>4, <1>8 DEF Ask, HandlerFinishes
<1> QED BY <1>1, <1>2, <1>5, <1>6, <1>7, <1>8 DEF Next, PollStep

(* A future that was polled and is not at its end waits.                   *)
LEMMA DriveWaits ==
  ASSUME RequestTypes, TaskTypes, NEW r \in Requests, NEW from, NEW to, Drive(r, from, to),
         future'[r] = to, \A c \in Content[r] : run'[c] \in {"running", "ok", "error"}
  PROVE  Waits(r)' \/ to \in {"failed", "done"}
<1>1. ASSUME to = "handling" PROVE Waits(r)'
  BY <1>1 DEF Drive, HasFailed, HasFinished, Registered, Waits
<1>2. ASSUME to = "sending" PROVE r \in registered' /\ r \in ToSet(responses')
  <2>1. Contains(responses, r) <=> r \in ToSet(responses)
    BY ContainsToSet DEF RequestTypes
  <2>2. ToSet(Append(responses, r)) = ToSet(responses) \cup {r}
    BY ToSetAppend DEF RequestTypes
  <2> QED BY <1>2, <2>1, <2>2 DEF Drive, Registered, Respond
<1> QED BY <1>1, <1>2, DriveEffect DEF Waits, DriveStates

\* The futures of other requests still wait.
LEMMA OthersWait ==
  ASSUME NEW q, Waits(q), registered \subseteq registered', future'[q] = future[q],
         \A c \in Content[q] : run'[c] = run[c], q \in ToSet(responses) => q \in ToSet(responses')
  PROVE  Waits(q)'
  BY DEF Waits

LEMMA FuturesHeardKept ==
  ASSUME RequestTypes, TaskTypes, HandleTypes, QueueInv, CallInv, PhaseInv, FuturesHeard, [Next]_vars,
         registered \subseteq registered', ~woken, ~woken'
  PROVE  FuturesHeard'
<1>1. CASE PollFuture
  <2>1. PICK r \in Requests, to \in DriveStates :
          /\ ToSet(to_poll) \subseteq {r} \cup ToSet(to_poll')
          /\ Drive(r, future[r], to) /\ future[r] # "none"
          /\ future'[r] = to /\ \A q \in Requests \ {r} : future'[q] = future[q]
          /\ IF to = "failed" THEN ShutDown ELSE GoOn("futures")
    BY <1>1, PollFutureEffect
  <2>2. UNCHANGED <<run, pending_futures>> /\ pc = "futures" /\ ~should_shut_down
    BY <1>1 DEF PollFuture, PhaseInv
  <2>3. \A c \in Content[r] : run'[c] \in {"running", "ok", "error"}
    BY <2>1, <2>2, ContentOf DEF CallInv, RequestTypes
  <2>4. ToSet(responses) \subseteq ToSet(responses')
    <3>1. responses' = responses \/ responses' = Append(responses, r)
      BY <2>1 DEF Drive, Respond
    <3>2. ToSet(Append(responses, r)) = ToSet(responses) \cup {r}
      BY ToSetAppend DEF RequestTypes
    <3> QED BY <3>1, <3>2
  <2>5. CASE pc' = "futures"
    <3> SUFFICES ASSUME NEW q \in ToSet(pending_futures)
                 PROVE  Waits(q)' \/ future'[q] \in {"failed", "done"} \/ q \in ToSet(to_poll')
      BY <2>2, <2>5 DEF FuturesHeard
    <3>1. CASE q = r
      <4>1. Waits(r)' \/ to \in {"failed", "done"}
        BY <2>1, <2>3, DriveWaits
      <4> QED BY <2>1, <3>1, <4>1
    <3>2. CASE q # r
      <4>1. q \in Requests /\ future'[q] = future[q]
        BY <2>1, <3>2 DEF RequestTypes, ToSet
      <4>2. Waits(q) \/ future[q] \in {"failed", "done"} \/ q \in ToSet(to_poll)
        BY <2>2 DEF FuturesHeard, Drained
      <4>3. Waits(q) => Waits(q)'
        BY <2>2, <2>4, <4>1, OthersWait
      <4> QED BY <2>1, <3>2, <4>1, <4>2, <4>3
    <3> QED BY <3>1, <3>2
  <2> QED BY <2>1, <2>5 DEF ShutDown, GoOn, FuturesHeard, Drained
<1>2. CASE ReadRequest
  <2>1. PICK r \in Requests, to \in DriveStates :
          /\ r = Head(transport_rx) /\ r \notin ToSet(pending_futures) /\ Drive(r, "handling", to)
          /\ future'[r] = to /\ \A q \in Requests \ {r} : future'[q] = future[q]
          /\ pending_futures' = IF to = "done" THEN pending_futures ELSE Append(pending_futures, r)
    BY <1>2, ReadEffect
  <2>2. /\ \A c \in Calls \ Content[r] : run'[c] = run[c]
        /\ \A c \in Content[r] : run'[c] \in {"running", "ok", "error"}
    BY <1>2, <2>1, ProcessEffect DEF Outcomes
  <2>3. pc # "futures" /\ UNCHANGED <<pc, should_shut_down>>
    BY <1>2 DEF ReadRequest
  <2>4. ToSet(responses) \subseteq ToSet(responses')
    <3>1. responses' = responses \/ responses' = Append(responses, r)
      BY <2>1 DEF Drive, Respond
    <3>2. ToSet(Append(responses, r)) = ToSet(responses) \cup {r}
      BY ToSetAppend DEF RequestTypes
    <3> QED BY <3>1, <3>2
  <2>5. \/ to = "done" /\ ToSet(pending_futures') = ToSet(pending_futures)
        \/ to # "done" /\ ToSet(pending_futures') = ToSet(pending_futures) \cup {r}
    BY <2>1, ToSetAppend DEF RequestTypes
  <2> SUFFICES ASSUME Drained', NEW q \in ToSet(pending_futures') PROVE Waits(q)' \/ future'[q] = "failed"
    BY DEF FuturesHeard
  <2>6. CASE q = r
    <3>1. Waits(r)' \/ to \in {"failed", "done"}
      BY <2>1, <2>2, DriveWaits
    <3> QED BY <2>1, <2>5, <2>6, <3>1
  <2>7. CASE q # r
    <3>1. q \in ToSet(pending_futures) /\ q \in Requests /\ future'[q] = future[q]
      BY <2>1, <2>5, <2>7 DEF RequestTypes, ToSet
    <3>2. Waits(q) \/ future[q] = "failed"
      BY <2>3, <3>1 DEF FuturesHeard, Drained
    <3>3. \A c \in Content[q] : run'[c] = run[c]
      BY <2>1, <2>2, <2>7, <3>1, ContentOf
    <3>4. Waits(q) => Waits(q)'
      BY <2>4, <3>1, <3>3, OthersWait
    <3> QED BY <3>1, <3>2, <3>4
  <2> QED BY <2>6, <2>7
<1>3. CASE TakeResponse
  <2>1. /\ responses \in Seq(Requests) /\ responses # << >> /\ responses' = Tail(responses)
        /\ woken' = (woken \/ Head(responses) \in registered)
        /\ UNCHANGED <<futureVars, to_poll>> /\ pc = "outgoing"
        /\ Drained' => pc' = "outgoing" /\ Drained
    BY <1>3, SendEffect DEF TakeResponse, RequestTypes, Drained
  <2>2. ToSet(responses) = {Head(responses)} \cup ToSet(responses')
    BY <2>1, ToSetHeadTail
  <2>3. Head(responses) \notin registered
    BY <2>1
  <2> SUFFICES ASSUME Drained', NEW q \in ToSet(pending_futures) PROVE Waits(q)' \/ future[q] = "failed"
    BY <2>1 DEF FuturesHeard
  <2>4. Waits(q) \/ future[q] = "failed"
    BY <2>1 DEF FuturesHeard, Drained
  <2>5. Waits(q) => Waits(q)'
    BY <2>1, <2>2, <2>3 DEF Waits
  <2> QED BY <2>4, <2>5
<1>4. ASSUME NEW r \in Requests, NEW c \in Calls, HandlerFinishes(r, c) PROVE FuturesHeard'
  <2>1. /\ c \in Content[r] /\ run[c] = "running" /\ \A d \in Calls \ {c} : run'[d] = run[d]
        /\ UNCHANGED <<pc, should_shut_down, pending_futures, future, to_poll, responses>> /\ Notify(r)
    BY <1>4 DEF HandlerFinishes, RequestTypes
  <2>2. r \notin registered
    BY <2>1 DEF Notify
  <2>3. ASSUME NEW q \in ToSet(pending_futures), Waits(q) PROVE Waits(q)'
    <3>1. q \in Requests /\ q # r
      BY <2>2, <2>3 DEF RequestTypes, ToSet, Waits
    <3>2. \A d \in Content[q] : run'[d] = run[d]
      BY <2>1, <3>1, ContentOf
    <3> QED BY <2>1, <2>3, <3>2, OthersWait
  <2> QED BY <2>1, <2>3 DEF FuturesHeard, Drained
<1>5. CASE HandlerChanDrained
  BY <1>5 DEF HandlerChanDrained, FuturesHeard
<1>6. CASE FuturesPolled
  <2>1. ToSet(to_poll) = {} /\ pc = "futures" /\ \A r \in ToSet(pending_futures) : future[r] # "done"
    BY <1>6, ToSetSmall DEF FuturesPolled, StillPending
  <2> QED BY <1>6, <2>1 DEF FuturesPolled, FuturesHeard, Drained, Waits
<1>7. CASE RemoveFuture
  <2>1. ToSet(pending_futures') \subseteq ToSet(pending_futures)
    BY <1>7, ToSetRemoveAt DEF RemoveFuture, RequestTypes
  <2> QED BY <1>7, <2>1 DEF RemoveFuture, FuturesHeard, Drained, Waits
<1>8. CASE /\ UNCHANGED <<pending_futures, future, run, to_poll, responses>>
           /\ Drained' => Drained
           /\ pc' = "futures" <=> pc = "futures"
  BY <1>8 DEF FuturesHeard, Waits
<1>9. CASE User \/ TransportRxDrained \/ ClientStep \/ UNCHANGED vars
  BY <1>8, <1>9, ClientStepEffect, ClientStepDrained DEF User, TransportRxDrained, Drained
<1>10. CASE Poll \/ DrainHandlerChan \/ DropServer
  BY <1>10 DEF Poll, DrainHandlerChan, DropServer, FuturesHeard, Drained
<1>11. ASSUME NEW r \in Requests, Ask(r) PROVE FuturesHeard'
  BY <1>8, <1>11 DEF Ask, Drained
<1> QED BY <1>1, <1>2, <1>3, <1>4, <1>5, <1>6, <1>7, <1>9, <1>10, <1>11 DEF Next, PollStep, ClientStep

LEMMA WakeInvHolds == Spec => []WakeInv
<1>1. Init => WakeInv
  BY DEF Init, TaskInit, WakeInv
<1>2. TypeOK /\ QueueInv /\ CallInv /\ PhaseInv /\ WakeInv /\ [Next]_vars => WakeInv'
  <2> SUFFICES ASSUME TypeOK, QueueInv, CallInv, PhaseInv, WakeInv, [Next]_vars, ~woken' PROVE Hears'
    BY DEF WakeInv
  \* a poll that begins has heard of nothing yet
  <2>1. CASE Poll \/ DropServer
    BY <2>1 DEF Poll, DropServer, Hears, PayloadHeard, ChanHeard, FuturesHeard, RxHeard,
                ResponsesHeard, CloseHeard, Drained
  <2>2. CASE ~Poll /\ ~DropServer
    <3>1. ~woken /\ registered \subseteq registered'
      BY <2>2, Remembers
    <3>2. PayloadHeard /\ ChanHeard /\ FuturesHeard /\ RxHeard /\ ResponsesHeard /\ CloseHeard
      BY <3>1 DEF WakeInv, Hears
    <3> QED BY <3>1, <3>2, TypeParts, PayloadHeardKept, ChanHeardKept, FuturesHeardKept, RxHeardKept,
               ResponsesHeardKept, CloseHeardKept DEF Hears
  <2> QED BY <2>1, <2>2
<1> QED BY <1>1, <1>2, QueueInvHolds, CallInvHolds, PhaseInvHolds, PTL DEF Spec

(* The task sleeps only if nothing it could do waits for it.  While it     *)
(* serves, no message of a ServerHandle and no request waits, and a        *)
(* response only behind a payload the full sink has refused, of which the  *)
(* sink will tell (poll_outgoing_messages); a pending future waits for     *)
(* handlers that run, or for its response to be taken, and is registered   *)
(* there, or is an error that process_request kept without a poll.  While  *)
(* it shuts down, whatever is queued, it sleeps only for the sink to close *)
(* (handle_shutdown).                                                      *)
THEOREM SleepsWithNothingToDoHolds == Spec => []SleepsWithNothingToDo
<1>1. TypeOK /\ WakeInv => SleepsWithNothingToDo
  <2> SUFFICES ASSUME TypeOK, WakeInv, pc = "idle", ~woken
               PROVE  IF should_shut_down THEN AsleepClosing ELSE AsleepServing
    BY DEF SleepsWithNothingToDo, Asleep
  <2>1. Hears
    BY DEF WakeInv
  <2>2. CASE should_shut_down
    BY <2>1, <2>2 DEF Hears, CloseHeard
  <2>3. CASE ~should_shut_down
    <3>1. \A r \in ToSet(pending_futures) : Waits(r) \/ future[r] = "failed"
      BY <2>1, <2>3 DEF Hears, FuturesHeard, Drained
    <3>2. \A r \in ToSet(pending_futures) : Waits(r) => Runs(r) \/ WaitsForClient(r)
      BY ContainsToSet DEF Waits, Runs, WaitsForClient, TypeOK
    <3>3. \A r \in ToSet(pending_futures) : Runs(r) \/ WaitsForClient(r) \/ future[r] = "failed"
      BY <3>1, <3>2
    <3>4. /\ chan_taken \/ (handler_chan = << >> /\ "chan" \in registered)
          /\ transport_rx = << >> /\ "rx" \in registered
          /\ SinkFull \/ (responses = << >> /\ "weak" \in registered)
      BY <2>1, <2>3 DEF Hears, ChanHeard, RxHeard, ResponsesHeard, Drained
    <3> QED BY <2>3, <3>3, <3>4 DEF AsleepServing
  <2> QED BY <2>2, <2>3
<1> QED BY <1>1, TypeCorrect, WakeInvHolds, PTL

-----------------------------------------------------------------------------
(* A Server is an RpcService                                               *)

\* Nothing is given back by an operation that is not at its end.
ReturnedLast == \A o \in Ops : op[o] \in {"none", "created", "queued"} => returned[o] = NoHandler

LEMMA ReturnedLastHolds == Spec => []ReturnedLast
<1>1. Init => ReturnedLast
  BY DEF Init, ReturnedLast
<1>2. TypeOK /\ ReturnedLast /\ [Next]_vars => ReturnedLast'
  <2> SUFFICES ASSUME TypeOK, ReturnedLast, [Next]_vars PROVE ReturnedLast'
    OBVIOUS
  <2>1. HandleTypes
    BY TypeParts
  <2>2. ASSUME NEW o \in Ops, NEW state, Become(o, state),
               state \in {"none", "created", "queued"} => op[o] \in {"none", "created", "queued"},
               returned' = returned \/ (state \notin {"none", "created", "queued"}
                                        /\ \E h : GiveBack(o, h))
        PROVE  ReturnedLast'
    <3>1. op'[o] = state /\ \A p \in Ops \ {o} : op'[p] = op[p]
      BY <2>1, <2>2 DEF Become, HandleTypes
    <3>2. \A p \in Ops \ {o} : returned'[p] = returned[p]
      BY <2>1, <2>2 DEF GiveBack, HandleTypes
    <3>3. state \in {"none", "created", "queued"} => returned'[o] = returned[o]
      BY <2>2
    <3>4. \A p \in Ops : op[p] \in {"none", "created", "queued"} => returned[p] = NoHandler
      BY DEF ReturnedLast
    <3> QED BY <2>2, <3>1, <3>2, <3>3, <3>4 DEF ReturnedLast
  <2>3. CASE User
    <3>1. ASSUME NEW o \in Ops, CallHandle(o) PROVE ReturnedLast'
      BY <2>1, <3>1 DEF CallHandle, Become, ReturnedLast, HandleTypes
    <3>2. ASSUME NEW o \in Ops, SendOp(o) \/ Cancel(o) PROVE ReturnedLast'
      BY <2>2, <3>2 DEF SendOp, Cancel
    <3>3. CASE DropHandle
      BY <3>3 DEF DropHandle, ReturnedLast
    <3> QED BY <2>3, <3>1, <3>2, <3>3 DEF User
  <2>4. CASE DrainHandlerChan
    <3> DEFINE o == Head(handler_chan)
    <3>1. o \in Ops
      BY <2>1, <2>4 DEF DrainHandlerChan, HandleTypes
    <3>2. (o \in Adds /\ AddHandler(o)) \/ (o \in Removes /\ RemoveHandler(o))
      BY <2>4 DEF DrainHandlerChan
    <3> HIDE DEF o
    <3> QED BY <2>1, <3>1, <3>2 DEF AddHandler, RemoveHandler, Become, GiveBack, ReturnedLast, HandleTypes
  <2>5. CASE UNCHANGED <<op, returned>>
    BY <2>5 DEF ReturnedLast
  <2> QED BY <2>3, <2>4, <2>5, ClientStepEffect
          DEF Next, PollStep, ClientStep, Poll, HandlerChanDrained, PollFuture, RemoveFuture,
              FuturesPolled, ReadRequest, TransportRxDrained, TakeResponse, Ask, HandlerFinishes,
              DropServer
<1> QED BY <1>1, <1>2, TypeCorrect, PTL DEF Spec

\* The states of the operations, as their users see them.
Seen == [o \in Ops |-> Result(o)]
Met == {r \in Requests : future[r] # "none"}

LEMMA SeenAfter ==
  ASSUME HandleTypes, NEW o \in Ops, NEW state, Become(o, state)
  PROVE  Seen' = [Seen EXCEPT ![o] = CASE state \in {"created", "queued"} -> "pending"
                                       [] state = "panicked" -> "shutdown"
                                       [] OTHER -> state]
<1> DEFINE see(x) == CASE x \in {"created", "queued"} -> "pending"
                       [] x = "panicked" -> "shutdown"
                       [] OTHER -> x
<1>1. op' = [op EXCEPT ![o] = state] /\ op \in [Ops -> {"none", "created", "queued", "panicked"} \cup Results]
  BY DEF Become, HandleTypes
<1>2. Seen = [p \in Ops |-> see(op[p])] /\ Seen' = [p \in Ops |-> see(op'[p])]
  BY DEF Seen, Result
<1> HIDE DEF see
<1>3. Seen' = [Seen EXCEPT ![o] = see(state)]
  BY <1>1, <1>2
<1> QED BY <1>3 DEF see

(* An operation that begins, or ends.                                      *)
LEMMA OpEnds ==
  ASSUME HandleTypes, ReturnedLast, NEW o \in Ops, op[o] \in {"created", "queued"},
         NEW state \in Results \cup {"panicked"}, Become(o, state), NEW h,
         returned' = [returned EXCEPT ![o] = h] \/ (UNCHANGED returned /\ h = NoHandler)
  PROVE  Service!Ends(o, IF state = "panicked" THEN "shutdown" ELSE state, h)
<1>1. Seen' = [Seen EXCEPT ![o] = IF state = "panicked" THEN "shutdown" ELSE state]
  BY SeenAfter DEF Results
<1>2. Seen[o] = "pending"
  BY DEF Seen, Result
<1>3. returned' = [returned EXCEPT ![o] = h]
  BY DEF ReturnedLast, HandleTypes
<1> QED BY <1>1, <1>2, <1>3 DEF Service!Ends, Seen

\* The rest of what an RpcService has, when operations only are concerned.
RestAsBefore == UNCHANGED <<asked, Met, handled_by, run, answered>> /\ Dropped' = Dropped

LEMMA UserImplements ==
  ASSUME HandleTypes, ReturnedLast, User
  PROVE  Service!Next \/ UNCHANGED Service!vars
<1>1. RestAsBefore /\ UNCHANGED handler_map
  BY DEF User, RestAsBefore, Met, Dropped
<1>2. ASSUME NEW o \in Ops, CallHandle(o) PROVE Service!Next
  <2>1. Seen[o] = "none" /\ Seen' = [Seen EXCEPT ![o] = "pending"] /\ UNCHANGED returned
    BY <1>2, SeenAfter DEF CallHandle, Seen, Result
  <2>2. Service!Invoke(o)
    BY <1>1, <2>1 DEF Service!Invoke, Seen
  <2> QED BY <1>1, <2>2 DEF Service!Next, Service!Ops, Service!callVars, RestAsBefore, Met
<1>3. ASSUME NEW o \in Ops, Service!Refused(o) PROVE Service!Next
  BY <1>1, <1>3 DEF Service!Next, Service!Ops, Service!callVars, RestAsBefore, Met
<1>4. ASSUME NEW o \in Ops, SendOp(o) PROVE Service!Next \/ UNCHANGED Service!vars
  <2>1. CASE Dropped
    <3> DEFINE h == IF o \in Adds THEN o ELSE NoHandler
    <3>1. op[o] = "created" /\ Become(o, "shutdown") /\ GiveBack(o, h)
      BY <1>4, <2>1 DEF SendOp
    <3> HIDE DEF h
    <3>2. Service!Ends(o, "shutdown", h)
      BY <3>1, OpEnds DEF GiveBack, Results
    <3>3. Service!Refused(o)
      BY <1>1, <2>1, <3>2 DEF Service!Refused, h
    <3> QED BY <1>3, <3>3
  <2>2. CASE ~Dropped
    <3>1. op[o] = "created" /\ Become(o, "queued") /\ UNCHANGED returned
      BY <1>4, <2>2 DEF SendOp
    <3>2. Seen' = [Seen EXCEPT ![o] = "pending"] /\ Seen[o] = "pending"
      BY <3>1, SeenAfter DEF Seen, Result
    <3>3. UNCHANGED Seen
      BY <3>2 DEF Seen
    <3> QED BY <1>1, <3>1, <3>3 DEF Service!vars, Service!opVars, Service!callVars, RestAsBefore, Met, Seen
  <2> QED BY <2>1, <2>2
<1>5. ASSUME NEW o \in Ops, Cancel(o) PROVE Service!Next
  <2>1. /\ op[o] = "queued" /\ Dropped /\ UNCHANGED returned
        /\ Become(o, IF o \in Adds THEN "panicked" ELSE "shutdown")
    BY <1>5 DEF Cancel
  <2>2. Service!Ends(o, "shutdown", NoHandler)
    <3>1. CASE o \in Adds
      BY <2>1, <3>1, OpEnds DEF Results
    <3>2. CASE o \notin Adds
      BY <2>1, <3>2, OpEnds DEF Results
    <3> QED BY <3>1, <3>2
  <2>3. Service!Refused(o)
    BY <1>1, <2>1, <2>2 DEF Service!Refused
  <2> QED BY <1>3, <2>3
<1>6. CASE DropHandle
  <2>1. UNCHANGED <<op, returned>>
    BY <1>6 DEF DropHandle
  <2> QED BY <1>1, <2>1 DEF Service!vars, Service!opVars, Service!callVars, RestAsBefore, Met, Result
<1> QED BY <1>2, <1>4, <1>5, <1>6 DEF User

LEMMA DrainImplements ==
  ASSUME HandleTypes, ReturnedLast, ChanInv, DrainHandlerChan
  PROVE  Service!Next
<1> DEFINE o == Head(handler_chan)
<1>1. RestAsBefore /\ ~Dropped
  BY DEF DrainHandlerChan, RestAsBefore, Met, Dropped
<1>2. o \in Ops /\ op[o] = "queued" /\ Name[o] \in Names
  BY ToSetHeadTail, NameOf DEF DrainHandlerChan, HandleTypes, ChanInv
<1>3. (o \in Adds /\ AddHandler(o)) \/ (o \in Removes /\ RemoveHandler(o))
  BY DEF DrainHandlerChan
<1> HIDE DEF o
<1>4. CASE o \in Adds /\ AddHandler(o)
  <2>1. CASE IsFree(Name[o]) /\ Become(o, "ok")
    <3>1. handler_map' = [handler_map EXCEPT ![Name[o]] = o] /\ UNCHANGED returned
      BY <1>4, <2>1 DEF AddHandler
    <3>2. Service!Ends(o, "ok", NoHandler)
      BY <1>2, <2>1, <3>1, OpEnds DEF Results
    <3> QED BY <1>1, <1>4, <2>1, <3>1, <3>2
            DEF Service!Next, Service!Set, Service!callVars, RestAsBefore, Met, IsFree
  <2>2. CASE ~IsFree(Name[o]) /\ Become(o, "exists") /\ GiveBack(o, o) /\ UNCHANGED handler_map
    <3>1. Service!Ends(o, "exists", o)
      BY <1>2, <2>2, OpEnds DEF Results, GiveBack
    <3> QED BY <1>1, <1>4, <2>2, <3>1
            DEF Service!Next, Service!Set, Service!callVars, RestAsBefore, Met, IsFree
  <2> QED BY <1>4, <2>1, <2>2 DEF AddHandler
<1>5. CASE o \in Removes /\ RemoveHandler(o)
  <2> DEFINE a == handler_map[Name[o]]
             state == IF a = NoHandler THEN "nohandler" ELSE "ok"
  <2>1. GiveBack(o, a) /\ Become(o, state) /\ handler_map' = [handler_map EXCEPT ![Name[o]] = NoHandler]
    BY <1>5 DEF RemoveHandler, TakenOut
  <2>2. state \in Results /\ state # "panicked"
    BY DEF Results
  <2> HIDE DEF state
  <2>3. Service!Ends(o, state, a)
    BY <1>2, <2>1, <2>2, OpEnds DEF GiveBack
  <2> QED BY <1>1, <1>5, <2>1, <2>3
          DEF Service!Next, Service!Take, Service!callVars, RestAsBefore, Met, state
<1> QED BY <1>3, <1>4, <1>5

LEMMA ReadImplements ==
  ASSUME RequestTypes, HandleTypes, QueueInv, ReadRequest
  PROVE  Service!Next
<1>1. PICK r \in Requests, to \in DriveStates :
        /\ r = Head(transport_rx) /\ future[r] = "none" /\ r \in asked
        /\ future'[r] = to /\ \A q \in Requests \ {r} : future'[q] = future[q]
  BY ReadEffect
<1>2. /\ Content[r] \subseteq Calls
      /\ \A c \in Calls \ Content[r] : run'[c] = run[c] /\ handled_by'[c] = handled_by[c]
      /\ \A c \in Content[r] : run'[c] \in Outcomes(c) /\ handled_by'[c] = HandlerFor(c)
  BY <1>1, ProcessEffect
<1>3. ~Dropped /\ ~Dropped' /\ UNCHANGED <<op, returned, handler_map, asked, answered>>
  BY DEF ReadRequest, Dropped
<1>4. Met' = Met \cup {r} /\ r \notin Met
  BY <1>1 DEF Met, DriveStates
<1>5. ASSUME NEW c \in Calls
      PROVE  IF c \notin Content[r] THEN handled_by'[c] = handled_by[c] /\ run'[c] = run[c]
             ELSE IF Service!Fits(handler_map[Name[c]], c)
                  THEN handled_by'[c] = handler_map[Name[c]] /\ run'[c] \in {"running", "ok", "error"}
                  ELSE handled_by'[c] = NoHandler /\ run'[c] = "ok"
  <2>1. HandlerFor(c) = IF Service!Fits(handler_map[Name[c]], c) THEN handler_map[Name[c]] ELSE NoHandler
    <3>1. handler_map[Name[c]] \in Adds \cup {NoHandler}
      BY NameOf DEF HandleTypes
    <3>2. handler_map[Name[c]] \in Adds => Kind[handler_map[Name[c]]] # "invalid"
      BY KindsOfCalls
    <3> QED BY <3>1, <3>2, NoHandlerIsNone DEF HandlerFor, Service!Fits
  <2>2. Service!Fits(handler_map[Name[c]], c) => handler_map[Name[c]] # NoHandler
    BY DEF Service!Fits
  <2> QED BY <1>2, <2>1, <2>2 DEF Outcomes
<1>6. Service!Accept(r)
  BY <1>1, <1>3, <1>4, <1>5 DEF Service!Accept, Met
<1> QED BY <1>1, <1>3, <1>6 DEF Service!Next, Service!opVars, Result

LEMMA TakeImplements ==
  ASSUME RequestTypes, CallInv, AnswerInv, TakeResponse
  PROVE  Service!Next
<1> PICK r : r = Head(responses)
  OBVIOUS
<1>1. /\ r \in Requests /\ answered' = Append(answered, r) /\ ~Dropped /\ ~Dropped'
      /\ UNCHANGED <<op, returned, handler_map, asked, future, run, handled_by>>
      /\ Append(answered, r) \o Tail(responses) = answered \o responses
      /\ Append(answered, r) \in Seq(Requests) /\ Tail(responses) \in Seq(Requests)
  <2>1. responses \in Seq(Requests) /\ answered \in Seq(Requests) /\ responses # << >>
    BY DEF TakeResponse, RequestTypes
  <2>2. Append(answered, Head(responses)) \o Tail(responses) = answered \o responses
    BY <2>1, MoveHead
  <2>3. Head(responses) \in Requests /\ Tail(responses) \in Seq(Requests)
    BY <2>1
  <2>4. Append(answered, r) \in Seq(Requests)
    BY <2>1, <2>3
  <2> QED BY <2>2, <2>3, <2>4, SendEffect DEF TakeResponse, Dropped
<1>2. r \in ToSet(answered \o responses)
  BY ToSetHeadTail, ToSetConcat DEF TakeResponse, RequestTypes
<1>3. future[r] \in {"sending", "done"} /\ HasOutput(r) /\ \A c \in Content[r] : run[c] = "ok"
  BY <1>1, <1>2 DEF AnswerInv, CallInv
<1>4. ~Contains(answered, r)
  <2>1. IsInjective(Append(answered, r))
    BY <1>1, InjectivePrefix DEF AnswerInv
  <2>2. /\ Len(answered) \in Nat /\ DOMAIN answered = 1..Len(answered)
        /\ DOMAIN Append(answered, r) = 1..(Len(answered) + 1)
        /\ Append(answered, r)[Len(answered) + 1] = r
        /\ \A i \in 1..Len(answered) : Append(answered, r)[i] = answered[i]
    BY <1>1 DEF RequestTypes
  <2>3. \A i \in DOMAIN answered : answered[i] # r
    BY <2>1, <2>2 DEF IsInjective
  <2>4. r \notin ToSet(answered)
    BY <2>3 DEF ToSet
  <2> QED BY <2>4, ContainsToSet DEF RequestTypes
<1>5. Service!Answer(r)
  <2>1. ~Service!Contains(answered, r)
    BY <1>4 DEF Service!Contains, Contains
  <2>2. r \in Met
    BY <1>1, <1>3 DEF Met
  <2> QED BY <1>1, <1>3, <2>1, <2>2 DEF Service!Answer, HasOutput
<1> QED BY <1>1, <1>5 DEF Service!Next, Service!opVars, Service!callVars, Result, Met

(* The Server with its handle keeps what RpcService promises: adds and     *)
(* removes take effect at one moment between call and result, a batch      *)
(* meets one set of handlers, and requests are answered once               *)
(* (drain_handler_chan, process_request).                                  *)
THEOREM ServerImplementsService == Spec => ImplementsService
<1>1. Init => Service!Init
  <2> SUFFICES ASSUME Init PROVE Service!Init
    OBVIOUS
  <2>1. [o \in Ops |-> Result(o)] = [o \in Ops |-> "none"]
    BY DEF Init, Result
  <2>2. {r \in Requests : future[r] # "none"} = {}
    BY DEF Init
  <2>3. handler_map = Service!Nothing
    BY DEF Init, Names, Service!Nothing, Service!Ops
  <2> QED BY <2>1, <2>2, <2>3 DEF Init, TaskInit, Dropped, Service!Init, Service!Ops
<1> DEFINE IInv == TypeOK /\ QueueInv /\ CallInv /\ AnswerInv /\ HandlerInv /\ ReturnedLast
<1>2. IInv /\ [Next]_vars => [Service!Next]_(Service!vars)
  <2> SUFFICES ASSUME IInv, [Next]_vars PROVE Service!Next \/ UNCHANGED Service!vars
    BY DEF Service!vars
  <2>1. RequestTypes /\ TaskTypes /\ HandleTypes
    BY TypeParts
  <2>2. CASE User
    BY <2>1, <2>2, UserImplements
  <2>3. CASE DrainHandlerChan
    <3>1. ChanInv
      BY <2>3 DEF DrainHandlerChan, HandlerInv, Dropped
    <3> QED BY <2>1, <2>3, <3>1, DrainImplements
  <2>4. CASE ReadRequest
    BY <2>1, <2>4, ReadImplements
  <2>5. CASE TakeResponse
    BY <2>1, <2>5, TakeImplements
  <2>6. CASE DropServer
    <3>1. /\ ~Dropped /\ Dropped' /\ handler_map' = Service!Nothing
          /\ UNCHANGED <<op, returned, asked, future, handled_by, run, answered>>
      BY <2>6 DEF DropServer, Dropped, Service!Nothing, Names, Service!Ops
    <3>2. Service!Stop
      BY <3>1 DEF Service!Stop, Result
    <3> QED BY <3>1, <3>2 DEF Service!Next, Service!callVars
  <2>7. ASSUME NEW r \in Requests, Ask(r) PROVE Service!Next
    <3>1. /\ ~Dropped /\ ~Dropped' /\ r \notin asked /\ asked' = asked \cup {r}
          /\ UNCHANGED <<op, returned, handler_map, future, handled_by, run, answered>>
      BY <2>7 DEF Ask, Dropped
    <3>2. Service!Ask(r)
      BY <3>1 DEF Service!Ask
    <3> QED BY <3>1, <3>2 DEF Service!Next, Service!opVars, Service!callVars, Result
  <2>8. ASSUME NEW r \in Requests, NEW c \in Calls, HandlerFinishes(r, c) PROVE Service!Next
    <3>1. /\ ~Dropped /\ ~Dropped' /\ run[c] = "running"
          /\ \E out \in {"ok", "error"} : run' = [run EXCEPT ![c] = out]
          /\ UNCHANGED <<op, returned, handler_map, future, handled_by, asked, answered>>
      BY <2>8 DEF HandlerFinishes, Dropped
    <3>2. Service!Handled(c)
      BY <3>1 DEF Service!Handled
    <3> QED BY <3>1, <3>2 DEF Service!Next, Service!opVars, Result
  <2>9. ASSUME Dropped' = Dropped, Met' = Met,
               UNCHANGED <<op, returned, handler_map, asked, handled_by, run, answered>>
        PROVE  UNCHANGED Service!vars
    BY <2>9 DEF Service!vars, Service!opVars, Service!callVars, Result, Met
  <2>10. CASE PollFuture
    <3> DEFINE r == Head(to_poll)
    <3>1. PICK to \in DriveStates :
            /\ r \in Requests /\ future[r] # "none" /\ future'[r] = to
            /\ \A q \in Requests \ {r} : future'[q] = future[q]
      BY <2>1, <2>10, PollFutureEffect
    <3> HIDE DEF r
    <3>2. Met' = Met
      BY <3>1 DEF Met, DriveStates
    <3>3. Dropped' = Dropped
      BY <2>10 DEF PollFuture, GoOn, ShutDown, Dropped
    <3> QED BY <2>9, <2>10, <3>2, <3>3 DEF PollFuture
  <2>11. CASE Poll \/ HandlerChanDrained \/ RemoveFuture \/ FuturesPolled \/ TransportRxDrained
              \/ ClientStep \/ UNCHANGED vars
    <3>1. Met' = Met /\ Dropped' = Dropped
      BY <2>11, ClientStepEffect
         DEF Poll, HandlerChanDrained, RemoveFuture, FuturesPolled, TransportRxDrained, Met, Dropped
    <3> QED BY <2>9, <2>11, <3>1, ClientStepEffect
            DEF Poll, HandlerChanDrained, RemoveFuture, FuturesPolled, TransportRxDrained
  <2> QED BY <2>2, <2>3, <2>4, <2>5, <2>6, <2>7, <2>8, <2>10, <2>11 DEF Next, PollStep, ClientStep
<1> QED BY <1>1, <1>2, QueueInvHolds, CallInvHolds, AnswerInvHolds, HandlerInvHolds,
           ReturnedLastHolds, PTL DEF Spec, ImplementsService, Service!Spec
=============================================================================
