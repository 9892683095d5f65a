---------------------------- MODULE ClientProofs ----------------------------
(***************************************************************************)
(* Theorems about Client, for every value of its constants.                *)
(***************************************************************************)
EXTENDS Client, SequenceLemmas, TLAPS

USE DEF Register

PollPCs == {"leftover", "server", "rx", "outgoing", "flush", "idle", "shutdown_rx", "close"}
Results == FatalErrors \cup {"ok", "Shutdown"}

ErrorType ==
  /\ shutting_down \in BOOLEAN
  /\ fatal_error \in FatalErrors \cup {"none"}

-----------------------------------------------------------------------------
(* Type correctness                                                        *)

(* What Client::poll makes of a result is well typed.                      *)
LEMMA ReturnTypes ==
  ASSUME ErrorType, NEW res \in Results, NEW next \in PollPCs, Return(res, next)
  PROVE  ErrorType' /\ pc' \in PollPCs
  BY DEF ErrorType, Return, FatalErrors, Results, PollPCs

(* send_payload keeps the types of all it writes.                          *)
LEMMA SendPayloadTypes ==
  ASSUME ErrorType, SinkType, registered \subseteq Sources,
         NEW p \in Payload, NEW next \in PollPCs, send_payload(p, next),
         UNCHANGED <<delivered, tx_broken>>
  PROVE  ErrorType' /\ SinkType' /\ registered' \subseteq Sources /\ pc' \in PollPCs
<1>1. CASE SinkReady /\ transport_tx' = Append(transport_tx, p)
            /\ pending_payload' = Taken /\ UNCHANGED registered /\ Return("ok", next)
  <2>1. SinkType' /\ registered' \subseteq Sources
    BY <1>1, SinkCapIsPositive DEF SinkType, SinkReady, Taken
  <2> QED BY <1>1, <2>1, ReturnTypes DEF Results
<1>2. CASE SinkFull /\ pending_payload' = Kept(p) /\ Register({"tx"})
            /\ UNCHANGED transport_tx /\ Return("ok", next)
  <2>1. SinkType' /\ registered' \subseteq Sources
    BY <1>2 DEF SinkType, Kept, Sources
  <2> QED BY <1>2, <2>1, ReturnTypes DEF Results
<1>3. CASE tx_broken /\ pending_payload' = << >>
            /\ UNCHANGED <<transport_tx, registered>> /\ Return("TransportError", next)
  <2>1. SinkType' /\ registered' \subseteq Sources
    BY <1>3 DEF SinkType
  <2> QED BY <1>3, <2>1, ReturnTypes DEF Results, FatalErrors
<1> QED BY <1>1, <1>2, <1>3 DEF send_payload

(* The same for the results of the loop of poll_transport_rx.              *)
LEMMA RxReturnTypes ==
  ASSUME ErrorType, NEW res \in Results, NEW next \in PollPCs, RxReturn(res, next)
  PROVE  ErrorType' /\ pc' \in PollPCs
<1>1. CASE pc = "rx" /\ Return(res, next)
  BY <1>1, ReturnTypes
<1>2. CASE pc = "shutdown_rx" /\ pc' = (IF res = "ok" THEN next ELSE "close")
            /\ UNCHANGED errorVars
  BY <1>2 DEF ErrorType, PollPCs, errorVars
<1> QED BY <1>1, <1>2 DEF RxReturn

(* An event leaves the task with well-typed registrations.                 *)
LEMMA NotifyTypes ==
  ASSUME TaskType, NEW s, Notify(s), UNCHANGED pc
  PROVE  TaskType'
  BY DEF TaskType, Notify

LEMMA InitTypes == Init => TypeOK
<1> SUFFICES ASSUME Init PROVE TypeOK
  OBVIOUS
<1>1. TaskType
  BY DEF Init, TaskInit, TaskType
<1>2. HandleType
  BY DEF Init, HandleInit, HandleType, FutureStates
<1>3. SinkType
  <2>1. /\ transport_tx = << >> /\ delivered = << >> /\ pending_payload = << >>
        /\ tx_broken = FALSE
    BY DEF Init, TransportInit
  <2>2. tx_broken \in BOOLEAN
    BY <2>1
  <2> QED BY <2>1, <2>2, SinkCapIsPositive DEF SinkType
<1>4. StreamType
  BY MaxNoiseIsNatural DEF Init, TransportInit, StreamType
<1>5. StateType
  <2>1. /\ next_id = 1 /\ pending_client_requests = {} /\ shutting_down = FALSE
        /\ fatal_error = "none" /\ poll_result = "none"
    BY DEF Init
  <2>2. shutting_down \in BOOLEAN
    BY <2>1
  <2> QED BY <2>1, <2>2 DEF StateType
<1>6. ServerType
  <2>1. /\ use_strong = FALSE /\ weak_done = FALSE /\ server_response_rx = << >>
        /\ server_handler = "running" /\ handling = {} /\ refused = {}
    BY DEF Init, outgoing_payload_rx!SelectInit
  <2>2. use_strong \in BOOLEAN
    BY <2>1
  <2> QED BY <2>1, <2>2 DEF ServerType
<1> QED BY <1>1, <1>2, <1>3, <1>4, <1>5, <1>6 DEF TypeOK

USE DEF vars, taskVars, handleVars, transportVars, sinkVars, streamVars, peerVars,
        clientVars, mapVars, errorVars, selectFlags, serverVars, handlerVars

LEMMA ErrorTypeHolds == TypeOK => ErrorType
  BY DEF TypeOK, StateType, ErrorType

(* The parts of handle_messages that write to the sink keep the types.     *)
LEMMA SendLeftoverTypes == ASSUME TypeOK, SendLeftover PROVE TypeOK'
<1>1. HandleType' /\ StreamType' /\ ServerType'
  BY DEF TypeOK, SendLeftover, HandleType, StreamType, ServerType
<1>2. CASE pending_payload = << >> /\ pc' = "server"
            /\ UNCHANGED <<transport_tx, pending_payload, registered, errorVars>>
  BY <1>1, <1>2 DEF TypeOK, SendLeftover, TaskType, SinkType, StateType
<1>3. ASSUME NEW i \in DOMAIN pending_payload, send_payload(pending_payload[i], "server")
      PROVE  TypeOK'
  <2>1. pending_payload[i] \in Payload
    BY DEF TypeOK, SinkType
  <2>2. ErrorType' /\ SinkType' /\ registered' \subseteq Sources /\ pc' \in PollPCs
    BY <1>3, <2>1, SendPayloadTypes, ErrorTypeHolds DEF TypeOK, TaskType, SendLeftover, PollPCs
  <2> QED BY <1>1, <2>2 DEF TypeOK, SendLeftover, TaskType, StateType, ErrorType, PollPCs
<1> QED BY <1>2, <1>3 DEF SendLeftover

LEMMA PollOutgoingTypes == ASSUME TypeOK, PollOutgoing PROVE TypeOK'
<1>1. StreamType'
  BY DEF TypeOK, PollOutgoing, StreamType
<1> USE DEF outgoing_payload_rx!FlipTurn, outgoing_payload_rx!NoticeWeakEnd,
            outgoing_payload_rx!WeakEnd, outgoing_payload_rx!StrongItem,
            outgoing_payload_rx!WeakItem
<1>2. ASSUME NEW m \in Outgoing, outgoing_payload_rx!TakeStrong(m), TakeCall(m) \/ TakeNote(m)
      PROVE  TypeOK'
  <2>1. ServerType' /\ client_handle_rx' \in Seq(Outgoing)
    BY <1>2 DEF TypeOK, PollOutgoing, ServerType, HandleType, outgoing_payload_rx!TakeStrong
  <2>2. CASE TakeCall(m)
    <3>1. [id |-> next_id, body |-> m] \in Payload
      BY <2>2 DEF TypeOK, StateType, TakeCall, Payload
    <3>2. ErrorType' /\ SinkType' /\ registered' \subseteq Sources /\ pc' \in PollPCs
      BY <2>2, <3>1, SendPayloadTypes, ErrorTypeHolds
      DEF TypeOK, TaskType, PollOutgoing, TakeCall, PollPCs
    <3>3. /\ next_id' \in Nat \ {0}
          /\ pending_client_requests' \subseteq [id : Nat \ {0}, body : Calls]
      BY <2>2 DEF TypeOK, StateType, TakeCall, add_new_call, IdAfter
    <3>4. HandleType'
      BY <2>1, <2>2 DEF TypeOK, HandleType, PollOutgoing, TakeCall
    <3> QED BY <1>1, <2>1, <3>2, <3>3, <3>4
            DEF TypeOK, TaskType, StateType, ErrorType, PollOutgoing, PollPCs
  <2>3. CASE TakeNote(m)
    <3>1. [id |-> 0, body |-> m] \in Payload
      BY <2>3 DEF TakeNote, Payload
    <3>2. ErrorType' /\ SinkType' /\ registered' \subseteq Sources /\ pc' \in PollPCs
      BY <2>3, <3>1, SendPayloadTypes, ErrorTypeHolds
      DEF TypeOK, TaskType, PollOutgoing, TakeNote, PollPCs
    <3>3. HandleType'
      BY <2>1, <2>3 DEF TypeOK, HandleType, PollOutgoing, TakeNote, Complete, Outgoing
    <3> QED BY <1>1, <2>1, <2>3, <3>2, <3>3
            DEF TypeOK, TaskType, StateType, ErrorType, PollOutgoing, TakeNote, PollPCs
  <2> QED BY <1>2, <2>2, <2>3
<1>3. ASSUME NEW r \in Requests, outgoing_payload_rx!TakeWeak(r),
             send_payload([id |-> 0, body |-> r], "outgoing"),
             UNCHANGED <<oneshot, mapVars>>
      PROVE  TypeOK'
  <2>1. ServerType' /\ HandleType'
    BY <1>3 DEF TypeOK, PollOutgoing, ServerType, HandleType, outgoing_payload_rx!TakeWeak
  <2>2. [id |-> 0, body |-> r] \in Payload
    BY DEF Payload
  <2>3. ErrorType' /\ SinkType' /\ registered' \subseteq Sources /\ pc' \in PollPCs
    BY <1>3, <2>2, SendPayloadTypes, ErrorTypeHolds DEF TypeOK, TaskType, PollOutgoing, PollPCs
  <2> QED BY <1>1, <1>3, <2>1, <2>3
          DEF TypeOK, TaskType, StateType, ErrorType, PollOutgoing, PollPCs
<1>4. CASE /\ outgoing_payload_rx!NotReady /\ Register({"strong", "weak"})
           /\ Return("ok", "flush")
           /\ UNCHANGED <<oneshot, mapVars, pending_payload, transport_tx>>
  <2>1. ServerType' /\ HandleType' /\ SinkType'
    BY <1>4 DEF TypeOK, PollOutgoing, ServerType, HandleType, SinkType,
                outgoing_payload_rx!NotReady
  <2>2. ErrorType' /\ pc' \in PollPCs
    BY <1>4, ReturnTypes, ErrorTypeHolds DEF Results, PollPCs
  <2> QED BY <1>1, <1>4, <2>1, <2>2
          DEF TypeOK, TaskType, StateType, ErrorType, PollOutgoing, PollPCs, Sources
<1>5. CASE /\ outgoing_payload_rx!Finish /\ Return("Shutdown", "flush")
           /\ UNCHANGED <<oneshot, mapVars, pending_payload, transport_tx, registered>>
  <2>1. ServerType' /\ HandleType' /\ SinkType'
    BY <1>5 DEF TypeOK, PollOutgoing, ServerType, HandleType, SinkType,
                outgoing_payload_rx!Finish
  <2>2. ErrorType' /\ pc' \in PollPCs
    BY <1>5, ReturnTypes, ErrorTypeHolds DEF Results, PollPCs
  <2> QED BY <1>1, <1>5, <2>1, <2>2
          DEF TypeOK, TaskType, StateType, ErrorType, PollOutgoing, PollPCs
<1> QED BY <1>2, <1>3, <1>4, <1>5 DEF PollOutgoing

(* Draining the stream keeps the types.                                    *)
LEMMA DrainRxTypes ==
  ASSUME TypeOK, HandleTransportRxPayload \/ TransportRxDrained PROVE TypeOK'
<1>1. CASE HandleTransportRxPayload
  <2> DEFINE msg == Head(transport_rx)
  <2>1. msg \in Incoming /\ StreamType'
    BY <1>1 DEF TypeOK, StreamType, HandleTransportRxPayload
  <2>2. DrainOn \in PollPCs
    BY <1>1 DEF HandleTransportRxPayload, DrainOn, PollPCs
  <2>3. SinkType'
    BY <1>1 DEF TypeOK, SinkType, HandleTransportRxPayload
  <2>4. CASE msg.kind = "response" /\ handle_response(msg)
    <3>1. msg.body \in Calls \cup {NoValue}
      BY <2>1, <2>4 DEF Incoming
    <3>2. pending_client_requests' \subseteq [id : Nat \ {0}, body : Calls]
      BY <2>4 DEF handle_response, TypeOK, StateType
    <3>3. HandleType'
      BY <1>1, <2>4, <3>1
      DEF HandleTransportRxPayload, handle_response, Complete, TypeOK, HandleType, Outgoing
    <3>4. ErrorType' /\ pc' \in PollPCs
      BY <2>2, <2>4, RxReturnTypes, ErrorTypeHolds DEF handle_response, Results
    <3> QED BY <1>1, <2>1, <2>3, <2>4, <3>2, <3>3, <3>4
            DEF TypeOK, TaskType, StateType, ServerType, ErrorType, PollPCs,
                HandleTransportRxPayload, handle_response
  <2>5. CASE msg.kind = "request" /\ process_request(msg.body)
    <3>1. msg.body \in Requests
      BY <2>1, <2>5 DEF Incoming
    <3>2. HandleType' /\ ServerType'
      BY <1>1, <2>5, <3>1
      DEF HandleTransportRxPayload, process_request, TypeOK, HandleType, ServerType
    <3>3. ErrorType' /\ pc' \in PollPCs
      BY <2>2, <2>5, RxReturnTypes, ErrorTypeHolds
      DEF process_request, Results, FatalErrors, HandlerErrors
    <3> QED BY <1>1, <2>1, <2>3, <2>5, <3>2, <3>3
            DEF TypeOK, TaskType, StateType, ErrorType, PollPCs,
                HandleTransportRxPayload, process_request
  <2>6. CASE /\ msg.kind = "invalid" /\ RxReturn("DeserializeError", DrainOn)
             /\ UNCHANGED <<oneshot, pending_client_requests, handlerVars>>
    <3>1. HandleType' /\ ServerType'
      BY <1>1, <2>6 DEF HandleTransportRxPayload, TypeOK, HandleType, ServerType
    <3>2. ErrorType' /\ pc' \in PollPCs
      BY <2>2, <2>6, RxReturnTypes, ErrorTypeHolds DEF Results, FatalErrors
    <3> QED BY <1>1, <2>1, <2>3, <2>6, <3>1, <3>2
            DEF TypeOK, TaskType, StateType, ErrorType, PollPCs, HandleTransportRxPayload
  <2> QED BY <1>1, <2>4, <2>5, <2>6 DEF HandleTransportRxPayload
<1>2. CASE TransportRxDrained
  <2>1. HandleType' /\ SinkType' /\ StreamType' /\ ServerType'
    BY <1>2 DEF TransportRxDrained, TypeOK, HandleType, SinkType, StreamType, ServerType
  <2>2. AfterRx \in PollPCs
    BY DEF AfterRx, PollPCs
  <2>3. ErrorType' /\ pc' \in PollPCs
    BY <1>2, <2>2, RxReturnTypes, ErrorTypeHolds
    DEF TransportRxDrained, Results, FatalErrors
  <2> QED BY <1>2, <2>1, <2>3
          DEF TypeOK, TaskType, StateType, ErrorType, PollPCs, TransportRxDrained, Sources
<1> QED BY <1>1, <1>2

(* The steps of a poll that write neither to the sink nor to the map.      *)
LEMMA ControlStepTypes ==
  ASSUME TypeOK, Poll \/ PollServer \/ OutgoingMustWait \/ Flush \/ Close PROVE TypeOK'
<1>1. HandleType' /\ SinkType' /\ StreamType'
  BY DEF TypeOK, HandleType, SinkType, StreamType,
         Poll, PollServer, OutgoingMustWait, Flush, Close
<1>2. ServerType'
  BY DEF TypeOK, ServerType, Poll, PollServer, OutgoingMustWait, Flush, Close
<1>3. CASE Poll \/ OutgoingMustWait
  BY <1>1, <1>2, <1>3 DEF TypeOK, TaskType, StateType, Poll, OutgoingMustWait
<1>4. CASE PollServer
  <2>1. ErrorType' /\ pc' \in PollPCs
    BY <1>4, ReturnTypes, ErrorTypeHolds
    DEF PollServer, Results, FatalErrors, HandlerErrors, PollPCs, ErrorType
  <2> QED BY <1>1, <1>2, <1>4, <2>1
          DEF TypeOK, TaskType, StateType, ErrorType, PollPCs, PollServer, Sources
<1>5. CASE Flush
  <2>1. ErrorType' /\ pc' \in PollPCs
    BY <1>5, ReturnTypes, ErrorTypeHolds DEF Flush, Results, FatalErrors, PollPCs
  <2> QED BY <1>1, <1>2, <1>5, <2>1
          DEF TypeOK, TaskType, StateType, ErrorType, PollPCs, Flush, Sources
<1>6. CASE Close
  BY <1>1, <1>2, <1>6 DEF TypeOK, TaskType, StateType, Close, Sources
<1> QED BY <1>3, <1>4, <1>5, <1>6

LEMMA DropClientTypes == ASSUME TypeOK, DropClient PROVE TypeOK'
<1>1. TaskType'
  <2>1. woken' \in BOOLEAN
    BY DEF DropClient
  <2> QED BY <2>1 DEF TypeOK, TaskType, DropClient
<1>2. HandleType' /\ StreamType'
  BY DEF TypeOK, HandleType, StreamType, DropClient
<1>3. SinkType'
  BY SinkCapIsPositive DEF TypeOK, SinkType, DropClient
<1>4. StateType' /\ ServerType'
  BY DEF TypeOK, StateType, ServerType, DropClient
<1> QED BY <1>1, <1>2, <1>3, <1>4 DEF TypeOK

(* The users of the handles, the transport, the peer and the handler.      *)
LEMMA UserTypes ==
  ASSUME TypeOK, User, UNCHANGED <<pc, transportVars, clientVars>> PROVE TypeOK'
<1>1. SinkType' /\ StreamType'
  BY DEF TypeOK, SinkType, StreamType
<1>2. StateType' /\ ServerType'
  BY DEF TypeOK, StateType, ServerType
<1>3. TaskType'
  <2>1. CASE UNCHANGED taskVars
    BY <2>1 DEF TypeOK, TaskType
  <2>2. ASSUME NEW s, Notify(s) PROVE TaskType'
    BY <2>2, NotifyTypes DEF TypeOK
  <2> QED BY <2>1, <2>2 DEF User, UserStep, Invoke, Reject, Send, Sent, Resolve, Abandon,
                            DropHandle, SendersMayHaveGone
<1>4. HandleType'
  <2>1. ASSUME NEW m \in Outgoing, UserStep(m) PROVE HandleType'
    BY <2>1 DEF TypeOK, HandleType, UserStep, Invoke, Reject, Send, Sent, Resolve, Abandon,
                Become, FutureStates, Unresolved, Resolved
  <2>2. CASE DropHandle
    BY <2>2 DEF TypeOK, HandleType, DropHandle
  <2> QED BY <2>1, <2>2 DEF User
<1> QED BY <1>1, <1>2, <1>3, <1>4 DEF TypeOK

LEMMA TransportTypes ==
  ASSUME TypeOK, TransportNext, UNCHANGED <<pc, handleVars, clientVars>> PROVE TypeOK'
<1>1. HandleType' /\ StateType' /\ ServerType'
  BY DEF TypeOK, HandleType, StateType, ServerType
<1>2. \E s : Notify(s)
  BY DEF TransportNext, Deliver, BreakSink, EndStream, Reply, ReplyAgain, ReplyToNobody,
         SendInvalid, Ask, Arrive
<1>3. TaskType'
  BY <1>2, NotifyTypes DEF TypeOK
<1>4. CASE Deliver
  <2>1. SinkType'
    <3>1. /\ Head(transport_tx) \in Payload
          /\ Tail(transport_tx) \in Seq(Payload)
          /\ Len(Tail(transport_tx)) = Len(transport_tx) - 1
      BY <1>4 DEF TypeOK, SinkType, Deliver, SinkFlushing
    <3>2. /\ Len(transport_tx) \in Nat
          /\ Append(delivered, Head(transport_tx)) \in Seq(Payload)
      BY <3>1 DEF TypeOK, SinkType
    <3> QED BY <1>4, <3>1, <3>2, SinkCapIsPositive DEF TypeOK, SinkType, Deliver
  <2> QED BY <1>1, <1>3, <1>4, <2>1 DEF TypeOK, StreamType, Deliver
<1>5. CASE BreakSink
  <2>1. tx_broken' \in BOOLEAN
    BY <1>5 DEF BreakSink
  <2> QED BY <1>1, <1>3, <1>5, <2>1 DEF TypeOK, SinkType, StreamType, BreakSink
<1>6. ASSUME NEW end \in {"eof", "error"}, EndStream(end) PROVE TypeOK'
  BY <1>1, <1>3, <1>6 DEF TypeOK, SinkType, StreamType, EndStream
<1>7. ASSUME NEW msg \in Incoming, Arrive(msg),
             /\ replied' \subseteq Nat \ {0} /\ asked' \subseteq Requests
             /\ noise' \in 0..MaxNoise
      PROVE  TypeOK'
  BY <1>1, <1>3, <1>7 DEF TypeOK, SinkType, StreamType, Arrive
<1>8. ASSUME NEW k \in DOMAIN delivered, Reply(k) \/ ReplyAgain(k) PROVE TypeOK'
  <2>1. delivered[k] \in Payload /\ delivered[k].id \in Nat
    BY DEF TypeOK, SinkType, Payload
  <2>2. CASE Reply(k)
    <3>1. Answer(delivered[k]) \in Incoming
      BY <2>1, <2>2 DEF Reply, Answer, Payload, Incoming
    <3>2. delivered[k].id \in Nat \ {0}
      BY <2>1, <2>2 DEF Reply
    <3>3. replied \cup {delivered[k].id} \subseteq Nat \ {0}
      BY <3>2 DEF TypeOK, StreamType
    <3> QED BY <1>7, <2>2, <3>1, <3>3 DEF Reply, TypeOK, StreamType
  <2>3. CASE ReplyAgain(k)
    <3>1. delivered[k].id \in Nat \ {0}
      BY <2>1, <2>3 DEF ReplyAgain, TypeOK, StreamType
    <3>2. Answer(delivered[k]) \in Incoming
      BY <2>1, <3>1 DEF Answer, Payload, Incoming
    <3> QED BY <1>7, <2>3, <3>2, MaxNoiseIsNatural DEF ReplyAgain, TypeOK, StreamType
  <2> QED BY <1>8, <2>2, <2>3
<1>9. CASE ReplyToNobody
  <2>1. [kind |-> "response", id |-> 0, body |-> NoValue] \in Incoming
    BY DEF Incoming
  <2> QED BY <1>7, <1>9, <2>1, MaxNoiseIsNatural DEF ReplyToNobody, TypeOK, StreamType
<1>10. CASE SendInvalid
  <2>1. [kind |-> "invalid", id |-> 0, body |-> NoValue] \in Incoming
    BY DEF Incoming
  <2> QED BY <1>7, <1>10, <2>1, MaxNoiseIsNatural DEF SendInvalid, TypeOK, StreamType
<1>11. ASSUME NEW r \in Requests, Ask(r) PROVE TypeOK'
  <2>1. [kind |-> "request", id |-> 0, body |-> r] \in Incoming
    BY DEF Incoming
  <2> QED BY <1>7, <1>11, <2>1 DEF Ask, TypeOK, StreamType
<1> QED BY <1>4, <1>5, <1>6, <1>8, <1>9, <1>10, <1>11 DEF TransportNext

LEMMA HandlerTypes ==
  ASSUME TypeOK, Handler,
         UNCHANGED <<pc, handleVars, transportVars, mapVars, pending_payload,
                     errorVars, selectFlags, poll_result>>
  PROVE  TypeOK'
<1>1. HandleType' /\ SinkType' /\ StreamType' /\ StateType'
  BY DEF TypeOK, HandleType, SinkType, StreamType, StateType
<1>2. \E s : Notify(s)
  BY DEF Handler, HandlerRespond, HandlerStops
<1>3. TaskType'
  BY <1>2, NotifyTypes DEF TypeOK
<1>4. ServerType'
  BY DEF TypeOK, ServerType, Handler, HandlerRespond, HandlerStops
<1> QED BY <1>1, <1>3, <1>4 DEF TypeOK

(* The sink is never given more than it buffers, no payload is kept beside *)
(* another, ids are positive, and every variable has its type.             *)
THEOREM TypeCorrect == Spec => []TypeOK
<1>1. TypeOK /\ [Next]_vars => TypeOK'
  <2> SUFFICES ASSUME TypeOK, [Next]_vars PROVE TypeOK'
    OBVIOUS
  <2>1. CASE Poll \/ PollStep \/ DropClient
    BY <2>1, SendLeftoverTypes, PollOutgoingTypes, DrainRxTypes, ControlStepTypes,
       DropClientTypes DEF PollStep
  <2>2. CASE User /\ UNCHANGED <<pc, transportVars, clientVars>>
    BY <2>2, UserTypes
  <2>3. CASE TransportNext /\ UNCHANGED <<pc, handleVars, clientVars>>
    BY <2>3, TransportTypes
  <2>4. CASE Handler /\ UNCHANGED <<pc, handleVars, transportVars, mapVars,
                                    pending_payload, errorVars, selectFlags, poll_result>>
    BY <2>4, HandlerTypes
  <2>5. CASE UNCHANGED vars
    BY <2>5 DEF TypeOK, TaskType, HandleType, SinkType, StreamType, StateType, ServerType
  <2> QED BY <2>1, <2>2, <2>3, <2>4, <2>5 DEF Next
<1> QED BY <1>1, InitTypes, PTL DEF Spec

-----------------------------------------------------------------------------
(* Answers go to their own calls                                           *)

OwnInv == TypeOK /\ IdsAgree /\ OwnAnswer

(* What send_payload adds to the wire is its argument.                     *)
LEMMA SendPayloadAdds ==
  ASSUME TypeOK, NEW p \in Payload, NEW next, send_payload(p, next)
  PROVE  ToSet(transport_tx') \cup ToSet(pending_payload') \subseteq ToSet(transport_tx) \cup {p}
<1>1. transport_tx \in Seq(Payload)
  BY DEF TypeOK, SinkType
<1>2. CASE transport_tx' = Append(transport_tx, p) /\ pending_payload' = << >>
  <2>1. ToSet(Append(transport_tx, p)) = ToSet(transport_tx) \cup {p}
    BY <1>1, ToSetAppend
  <2> QED BY <1>2, <2>1, ToSetSmall
<1>3. CASE transport_tx' = transport_tx /\ pending_payload' \in {<< >>, <<p>>}
  BY <1>3, ToSetSmall
<1> QED BY <1>2, <1>3 DEF send_payload, Kept, Taken

LEMMA ClaimsTyped == TypeOK => \A q \in Claims : q.id \in Nat
<1> SUFFICES ASSUME TypeOK, NEW q \in Claims PROVE q.id \in Nat
  OBVIOUS
<1>1. CASE q \in pending_client_requests
  BY <1>1 DEF TypeOK, StateType
<1>2. CASE q \in ToSet(delivered) \cup ToSet(transport_tx) \cup ToSet(pending_payload)
  <2>1. q \in Payload
    BY <1>2 DEF TypeOK, SinkType, ToSet
  <2> QED BY <2>1 DEF Payload
<1>3. ASSUME NEW m \in ToSet(transport_rx), q = [id |-> m.id, body |-> m.body]
      PROVE  q.id \in Nat
  <2>1. m \in Incoming
    BY DEF TypeOK, StreamType, ToSet
  <2> QED BY <1>3, <2>1 DEF Incoming
<1> QED BY <1>1, <1>2, <1>3 DEF Claims

LEMMA SameClaims ==
  ASSUME IdsAgree, UNCHANGED next_id, Claims' \subseteq Claims PROVE IdsAgree'
  BY DEF IdsAgree

(* A sent payload is a claim already, or a new one of a fresh id.          *)
LEMMA SendClaims ==
  ASSUME TypeOK, NEW p \in Payload, NEW next, send_payload(p, next),
         UNCHANGED <<delivered, transport_rx>>,
         NEW C, p.id # 0 => p \in C,
         pending_client_requests' \subseteq pending_client_requests \cup C
  PROVE  Claims' \subseteq Claims \cup C
<1>1. ToSet(transport_tx') \cup ToSet(pending_payload') \subseteq ToSet(transport_tx) \cup {p}
  BY SendPayloadAdds
<1> QED BY <1>1 DEF Claims

LEMMA OwnInvInit == Init => IdsAgree /\ OwnAnswer
<1> SUFFICES ASSUME Init PROVE IdsAgree /\ OwnAnswer
  OBVIOUS
<1>1. Claims = {}
  BY ToSetSmall DEF Init, TransportInit, Claims
<1>2. OwnAnswer
  BY DEF Init, HandleInit, OwnAnswer
<1> QED BY <1>1, <1>2 DEF IdsAgree

LEMMA SendLeftoverOwn == ASSUME OwnInv, SendLeftover PROVE IdsAgree' /\ OwnAnswer'
<1>1. OwnAnswer' /\ UNCHANGED next_id
  BY DEF OwnInv, OwnAnswer, SendLeftover
<1>2. CASE pending_payload = << >> /\ pc' = "server"
            /\ UNCHANGED <<transport_tx, pending_payload, registered, errorVars>>
  <2>1. Claims' = Claims
    BY <1>2 DEF SendLeftover, Claims
  <2> QED BY <1>1, <2>1, SameClaims DEF OwnInv
<1>3. ASSUME NEW i \in DOMAIN pending_payload, send_payload(pending_payload[i], "server")
      PROVE  IdsAgree'
  <2> DEFINE p == pending_payload[i]
  <2>1. p \in Payload /\ p \in ToSet(pending_payload)
    BY DEF OwnInv, TypeOK, SinkType, ToSet
  <2>2. p.id # 0 => p \in Claims
    BY <2>1 DEF Claims
  <2>3. Claims' \subseteq Claims \cup Claims
    BY <1>3, <2>1, <2>2, SendClaims DEF OwnInv, SendLeftover
  <2> QED BY <1>1, <2>3, SameClaims DEF OwnInv
<1> QED BY <1>1, <1>2, <1>3 DEF SendLeftover

LEMMA PollOutgoingOwn == ASSUME OwnInv, PollOutgoing PROVE IdsAgree' /\ OwnAnswer'
<1>1. ASSUME NEW c, TakeCall(c) PROVE IdsAgree' /\ OwnAnswer'
  <2> DEFINE p == [id |-> next_id, body |-> c]
  <2>1. p \in Payload /\ p.id # 0
    BY <1>1 DEF OwnInv, TypeOK, StateType, TakeCall, Payload
  <2>2. Claims' \subseteq Claims \cup {p}
    BY <1>1, <2>1, SendClaims DEF OwnInv, PollOutgoing, TakeCall, add_new_call
  <2>3. next_id \in Nat /\ next_id' = next_id + 1
    BY <1>1 DEF OwnInv, TypeOK, StateType, TakeCall, IdAfter
  <2>4. \A q \in Claims : q.id \in Nat
    BY ClaimsTyped DEF OwnInv
  <2>5. IdsAgree'
    BY <2>2, <2>3, <2>4 DEF OwnInv, IdsAgree
  <2> QED BY <1>1, <2>5 DEF OwnInv, OwnAnswer, TakeCall
<1>2. ASSUME NEW q, q \in Notes \cup Requests, UNCHANGED mapVars,
             send_payload([id |-> 0, body |-> q], "outgoing")
      PROVE  IdsAgree'
  <2>1. [id |-> 0, body |-> q] \in Payload
    BY <1>2 DEF Payload
  <2>2. Claims' \subseteq Claims \cup {}
    BY <1>2, <2>1, SendClaims DEF OwnInv, PollOutgoing
  <2> QED BY <1>2, <2>2, SameClaims DEF OwnInv
<1>3. ASSUME NEW n, TakeNote(n) PROVE IdsAgree' /\ OwnAnswer'
  <2>1. OwnAnswer'
    BY <1>3 DEF OwnInv, TypeOK, HandleType, OwnAnswer, TakeNote, Complete
  <2> QED BY <1>2, <1>3, <2>1 DEF TakeNote
<1>4. CASE UNCHANGED <<oneshot, mapVars, pending_payload, transport_tx>>
  <2>1. Claims' = Claims /\ UNCHANGED <<next_id, oneshot>>
    BY <1>4 DEF PollOutgoing, Claims
  <2> QED BY <2>1, SameClaims DEF OwnInv, OwnAnswer
<1>5. ASSUME NEW r \in Requests, UNCHANGED <<oneshot, mapVars>>,
             send_payload([id |-> 0, body |-> r], "outgoing")
      PROVE  IdsAgree' /\ OwnAnswer'
  BY <1>2, <1>5 DEF OwnInv, OwnAnswer
<1> QED BY <1>1, <1>3, <1>4, <1>5 DEF PollOutgoing

LEMMA HandleTransportRxPayloadOwn ==
  ASSUME OwnInv, HandleTransportRxPayload PROVE IdsAgree' /\ OwnAnswer'
<1> DEFINE msg == Head(transport_rx)
<1>1. msg \in Incoming /\ msg \in ToSet(transport_rx)
      /\ ToSet(transport_rx') \subseteq ToSet(transport_rx)
  BY ToSetHeadTail DEF OwnInv, TypeOK, StreamType, HandleTransportRxPayload
<1>2. IdsAgree'
  <2>1. pending_client_requests' \subseteq pending_client_requests
    BY DEF HandleTransportRxPayload, handle_response, process_request
  <2>2. Claims' \subseteq Claims
    BY <1>1, <2>1 DEF Claims, HandleTransportRxPayload
  <2> QED BY <2>2, SameClaims DEF OwnInv, HandleTransportRxPayload
<1>3. ASSUME msg.kind = "response", NEW e \in Removed(msg.id), Complete(e.body, msg.body)
      PROVE  OwnAnswer'
  <2>1. e \in Claims /\ e.id = msg.id /\ e.id # 0
    BY <1>3 DEF OwnInv, TypeOK, StateType, Removed, Claims
  <2>2. [id |-> msg.id, body |-> msg.body] \in Claims
    BY <1>1, <1>3, <2>1 DEF Claims
  <2>3. e.body = msg.body
    BY <2>1, <2>2 DEF OwnInv, IdsAgree
  <2> QED BY <1>3, <2>3 DEF OwnInv, TypeOK, HandleType, OwnAnswer, Complete
<1>4. CASE oneshot' = oneshot
  <2>1. OwnAnswer
    BY DEF OwnInv
  <2> QED BY <1>2, <1>4, <2>1 DEF OwnAnswer
<1> QED BY <1>2, <1>3, <1>4
        DEF HandleTransportRxPayload, handle_response, process_request

LEMMA TransportOwn ==
  ASSUME OwnInv, TransportNext, UNCHANGED <<pc, handleVars, clientVars>>
  PROVE  IdsAgree' /\ OwnAnswer'
<1>1. OwnAnswer' /\ UNCHANGED <<next_id, pending_client_requests, pending_payload>>
  BY DEF OwnInv, OwnAnswer
<1>2. CASE Deliver
  <2>1. /\ transport_tx \in Seq(Payload) /\ delivered \in Seq(Payload)
        /\ transport_tx # << >>
    BY <1>2 DEF OwnInv, TypeOK, SinkType, Deliver, SinkFlushing
  <2>2. Head(transport_tx) \in Payload
    BY <2>1
  <2>3. ToSet(delivered') \cup ToSet(transport_tx') \subseteq ToSet(delivered) \cup ToSet(transport_tx)
    BY <1>2, <2>1, <2>2, ToSetHeadTail, ToSetAppend DEF Deliver
  <2>4. Claims' \subseteq Claims
    BY <1>1, <1>2, <2>3 DEF Claims, Deliver
  <2> QED BY <1>1, <2>4, SameClaims DEF OwnInv
<1>3. CASE UNCHANGED <<sinkVars, transport_rx>> \/ BreakSink
  <2>1. Claims' = Claims
    BY <1>1, <1>3 DEF Claims, BreakSink
  <2> QED BY <1>1, <2>1, SameClaims DEF OwnInv
<1>4. ASSUME NEW m \in Incoming, Arrive(m),
             m.kind = "response" /\ m.id # 0 => [id |-> m.id, body |-> m.body] \in Claims
      PROVE  IdsAgree'
  <2>1. transport_rx \in Seq(Incoming)
    BY DEF OwnInv, TypeOK, StreamType
  <2>2. ToSet(transport_rx') = ToSet(transport_rx) \cup {m}
    BY <1>4, <2>1, ToSetAppend DEF Arrive
  <2>3. Claims' \subseteq Claims
    BY <1>1, <1>4, <2>2 DEF Claims, Arrive
  <2> QED BY <1>1, <2>3, SameClaims DEF OwnInv
<1>5. ASSUME NEW k \in DOMAIN delivered, Reply(k) \/ ReplyAgain(k) PROVE IdsAgree'
  <2> DEFINE p == delivered[k]
  <2>1. p \in Payload /\ p \in ToSet(delivered)
    BY DEF OwnInv, TypeOK, SinkType, ToSet
  <2>2. p.id \in Nat \ {0}
    BY <1>5, <2>1 DEF Reply, ReplyAgain, OwnInv, TypeOK, StreamType, Payload
  <2>3. Answer(p) \in Incoming /\ [id |-> Answer(p).id, body |-> Answer(p).body] = p
    BY <2>1, <2>2 DEF Answer, Payload, Incoming
  <2>4. p \in Claims
    BY <2>1, <2>2 DEF Claims
  <2> QED BY <1>4, <1>5, <2>3, <2>4 DEF Reply, ReplyAgain
<1>6. CASE ReplyToNobody \/ SendInvalid
  <2>1. /\ [kind |-> "response", id |-> 0, body |-> NoValue] \in Incoming
        /\ [kind |-> "invalid", id |-> 0, body |-> NoValue] \in Incoming
    BY DEF Incoming
  <2> QED BY <1>1, <1>4, <1>6, <2>1 DEF ReplyToNobody, SendInvalid
<1>7. ASSUME NEW r \in Requests, Ask(r) PROVE IdsAgree'
  BY <1>4, <1>7 DEF Ask, Incoming
<1> QED BY <1>1, <1>2, <1>3, <1>5, <1>6, <1>7 DEF TransportNext, EndStream

LEMMA OtherStepsOwn ==
  ASSUME OwnInv,
         UNCHANGED <<next_id, delivered, oneshot>>,
         UNCHANGED <<pending_client_requests, pending_payload, transport_tx, transport_rx>>
           \/ DropClient
  PROVE  IdsAgree' /\ OwnAnswer'
<1>1. Claims' \subseteq Claims
  BY ToSetSmall DEF Claims, DropClient
<1> QED BY <1>1, SameClaims DEF OwnInv, OwnAnswer

(* The ids that travel are one call's each, and so its answer is its own.  *)
LEMMA OwnInvHolds == Spec => []OwnInv
<1>1. OwnInv /\ TypeOK' /\ [Next]_vars => OwnInv'
  <2> SUFFICES ASSUME OwnInv, [Next]_vars PROVE IdsAgree' /\ OwnAnswer'
    BY DEF OwnInv
  <2>1. CASE SendLeftover \/ PollOutgoing \/ HandleTransportRxPayload
    BY <2>1, SendLeftoverOwn, PollOutgoingOwn, HandleTransportRxPayloadOwn
  <2>2. CASE Poll \/ PollServer \/ TransportRxDrained \/ OutgoingMustWait \/ Flush \/ Close
    BY <2>2, OtherStepsOwn
    DEF Poll, PollServer, TransportRxDrained, OutgoingMustWait, Flush, Close
  <2>3. CASE DropClient
    BY <2>3, OtherStepsOwn DEF DropClient
  <2>4. CASE User /\ UNCHANGED <<pc, transportVars, clientVars>>
    <3>1. UNCHANGED oneshot
      BY <2>4 DEF User, UserStep, Invoke, Reject, Send, Sent, Resolve, Abandon, DropHandle
    <3> QED BY <2>4, <3>1, OtherStepsOwn
  <2>5. CASE TransportNext /\ UNCHANGED <<pc, handleVars, clientVars>>
    BY <2>5, TransportOwn
  <2>6. CASE Handler /\ UNCHANGED <<pc, handleVars, transportVars, mapVars,
                                    pending_payload, errorVars, selectFlags, poll_result>>
    BY <2>6, OtherStepsOwn
  <2>7. CASE UNCHANGED vars
    BY <2>7, OtherStepsOwn
  <2> QED BY <2>1, <2>2, <2>3, <2>4, <2>5, <2>6, <2>7 DEF Next, PollStep
<1>2. Init => OwnInv
  BY InitTypes, OwnInvInit DEF OwnInv
<1> QED BY <1>1, <1>2, TypeCorrect, PTL DEF Spec

(* A call never gets the answer to another: the future of a message holds  *)
(* nothing, or what the peer sent for this message, for any number of      *)
(* calls, any order and any repetition of the answers.                     *)
THEOREM OwnAnswerHolds == Spec => []OwnAnswer
<1>1. OwnInv => OwnAnswer
  BY DEF OwnInv
<1> QED BY <1>1, OwnInvHolds, PTL
=============================================================================
