------------------------ MODULE ClientDeliveryProofs ------------------------
(***************************************************************************)
(* Theorems about what becomes of a message in Client: that its completion *)
(* channel is never lost, that its payload reaches the sink once and in    *)
(* order, what the end of the client does to it, and that the client hears *)
(* of all it has to do.                                                    *)
(***************************************************************************)
EXTENDS ClientProofs

USE DEF Register, vars, taskVars, handleVars, transportVars, sinkVars, streamVars, peerVars,
        clientVars, mapVars, errorVars, selectFlags, serverVars, handlerVars

-----------------------------------------------------------------------------
(* Steps that matter to few variables                                      *)

\* The steps of a poll that touch neither a message, nor the sink, nor the map.
QuietStep == Poll \/ PollServer \/ TransportRxDrained \/ OutgoingMustWait \/ Flush \/ Close

\* One step of everybody who is not the client.
UserTurn == User /\ UNCHANGED <<pc, transportVars, clientVars>>
TransportTurn == TransportNext /\ UNCHANGED <<pc, handleVars, clientVars>>
HandlerTurn ==
  /\ Handler
  /\ UNCHANGED <<pc, handleVars, transportVars, mapVars, pending_payload,
                 errorVars, selectFlags, poll_result>>

LEMMA NextCases ==
  [Next]_vars <=>
    \/ SendLeftover \/ PollOutgoing \/ HandleTransportRxPayload
    \/ QuietStep \/ DropClient
    \/ UserTurn \/ TransportTurn \/ HandlerTurn
    \/ UNCHANGED vars
  BY DEF Next, PollStep, QuietStep, UserTurn, TransportTurn, HandlerTurn

(* A quiet step moves on inside a poll, and leaves all of this alone.      *)
LEMMA QuietStepFrame ==
  ASSUME QuietStep
  PROVE  /\ ~Dropped
         /\ UNCHANGED <<handleVars, transportVars, mapVars, pending_payload, serverVars>>
  BY DEF QuietStep, Poll, PollServer, TransportRxDrained, OutgoingMustWait, Flush, Close, Dropped

(* A user changes the future of one message, and may send that message or  *)
(* drop its handle.                                                        *)
LEMMA UserFrame ==
  ASSUME UserTurn PROVE UNCHANGED <<oneshot, pc, transportVars, clientVars>>
  BY DEF UserTurn, User, UserStep, Invoke, Reject, Send, Sent, Resolve, Abandon, DropHandle

(* A client that was dropped stays dropped.                                *)
LEMMA DroppedForGood == ASSUME [Next]_vars, Dropped PROVE Dropped'
<1>1. ~QuietStep
  BY QuietStepFrame
<1>2. ~SendLeftover /\ ~PollOutgoing /\ ~HandleTransportRxPayload
  BY DEF Dropped, SendLeftover, PollOutgoing, HandleTransportRxPayload
<1> QED BY <1>1, <1>2, NextCases DEF Dropped, DropClient, UserTurn, TransportTurn, HandlerTurn

-----------------------------------------------------------------------------
(* No completion channel is lost                                           *)

(* The ids the client has issued stay below the next one, and stand for    *)
(* one call each, on whatever way they are.                                *)
THEOREM IdsAgreeHolds == Spec => []IdsAgree
<1>1. OwnInv => IdsAgree
  BY DEF OwnInv
<1> QED BY <1>1, OwnInvHolds, PTL

\* From the moment it is sent until it is answered, the completion channel
\* of a message is in the channel or in the map.
HeldInv ==
  \A m \in Outgoing :
    fut[m] \in {"queued", "waiting"} /\ oneshot[m] = NoValue /\ ~Dropped => CompletionHeld(m)

(* Where a completion channel is, by the members of the channel.           *)
LEMMA CompletionHeldIn ==
  ASSUME TypeOK, NEW m
  PROVE  CompletionHeld(m) <=>
           m \in ToSet(client_handle_rx) \/ \E e \in pending_client_requests : e.body = m
  BY ContainsToSet DEF TypeOK, HandleType, CompletionHeld

(* Nothing happens to the channel, the map and the futures.                *)
LEMMA HeldFrame ==
  ASSUME HeldInv, UNCHANGED <<fut, oneshot, client_handle_rx, pending_client_requests>>,
         Dropped => Dropped'
  PROVE  HeldInv'
  BY DEF HeldInv, CompletionHeld

LEMMA HeldUser == ASSUME TypeOK, HeldInv, UserTurn PROVE HeldInv'
<1>1. UNCHANGED <<oneshot, pc, pending_client_requests>>
  BY UserFrame
<1>2. CASE DropHandle
  BY <1>1, <1>2, HeldFrame DEF DropHandle, Dropped
<1>3. ASSUME NEW x \in Outgoing, UserStep(x) PROVE HeldInv'
  <2>1. \A m \in Outgoing \ {x} : fut'[m] = fut[m]
    BY <1>3 DEF UserStep, Invoke, Reject, Send, Sent, Resolve, Abandon, Become,
                TypeOK, HandleType
  <2>2. client_handle_rx' \in {client_handle_rx, Append(client_handle_rx, x)}
    BY <1>3 DEF UserStep, Invoke, Reject, Send, Sent, Resolve, Abandon
  <2>3. ToSet(client_handle_rx) \subseteq ToSet(client_handle_rx')
    <3>1. client_handle_rx \in Seq(Outgoing)
      BY DEF TypeOK, HandleType
    <3>2. ToSet(Append(client_handle_rx, x)) = ToSet(client_handle_rx) \cup {x}
      BY <3>1, ToSetAppend
    <3> QED BY <2>2, <3>2
  <2>4. \A m : CompletionHeld(m) => CompletionHeld(m)'
    <3>1. client_handle_rx' \in Seq(Outgoing)
      BY <2>2 DEF TypeOK, HandleType
    <3> QED BY <1>1, <2>3, <3>1, ContainsToSet DEF TypeOK, HandleType, CompletionHeld
  <2>5. CASE Send(x)
    <3>1. CASE Dropped
      BY <1>1, <3>1 DEF HeldInv, Dropped
    <3>2. CASE ~Dropped
      <4>1. client_handle_rx' = Append(client_handle_rx, x)
        BY <2>5, <3>2 DEF Send
      <4>2. client_handle_rx' \in Seq(Outgoing) /\ x \in ToSet(client_handle_rx')
        BY <4>1, ToSetAppend DEF TypeOK, HandleType
      <4>3. CompletionHeld(x)'
        BY <4>2, ContainsToSet DEF CompletionHeld
      <4> QED BY <1>1, <2>1, <2>4, <4>3 DEF HeldInv, Dropped
    <3> QED BY <3>1, <3>2
  <2>6. CASE Sent(x)
    <3>1. fut[x] = "queued"
      BY <2>6 DEF Sent
    <3> QED BY <1>1, <2>1, <2>4, <3>1 DEF HeldInv, Dropped
  <2>7. CASE Invoke(x) \/ Reject(x) \/ Resolve(x, CompletionHeld(x)) \/ Abandon(x)
    <3>1. fut'[x] \notin {"queued", "waiting"}
      BY <2>7 DEF Invoke, Reject, Resolve, Abandon, Become, TypeOK, HandleType
    <3> QED BY <1>1, <2>1, <2>4, <3>1 DEF HeldInv, Dropped
  <2> QED BY <1>3, <2>5, <2>6, <2>7 DEF UserStep
<1> QED BY <1>2, <1>3 DEF UserTurn, User

(* Taking a message out of the channel puts its completion channel into    *)
(* the map, or completes a notification (handle_client_payload).           *)
LEMMA HeldPollOutgoing == ASSUME OwnInv, HeldInv, PollOutgoing PROVE HeldInv'
<1>1. TypeOK /\ ~Dropped
  BY DEF OwnInv, PollOutgoing, Dropped
<1>2. ASSUME NEW x \in Outgoing, outgoing_payload_rx!TakeStrong(x), TakeCall(x) \/ TakeNote(x)
      PROVE  HeldInv'
  <2>1. /\ client_handle_rx \in Seq(Outgoing) /\ client_handle_rx # << >>
        /\ x = Head(client_handle_rx) /\ client_handle_rx' = Tail(client_handle_rx)
    BY <1>1, <1>2 DEF TypeOK, HandleType, outgoing_payload_rx!TakeStrong,
                      outgoing_payload_rx!StrongItem
  <2>2. ToSet(client_handle_rx) = {x} \cup ToSet(client_handle_rx')
    BY <2>1, ToSetHeadTail
  <2>3. client_handle_rx' \in Seq(Outgoing)
    BY <2>1
  <2>4. \A e \in pending_client_requests : e \in pending_client_requests'
    <3>1. CASE TakeCall(x)
      <4>1. \A e \in pending_client_requests : e.id < next_id /\ e.id \in Nat /\ next_id \in Nat
        BY <1>1 DEF OwnInv, IdsAgree, Claims, TypeOK, StateType
      <4>2. \A e \in pending_client_requests : e.id # next_id
        BY <4>1
      <4> QED BY <3>1, <4>2 DEF TakeCall, add_new_call
    <3>2. CASE TakeNote(x)
      BY <3>2 DEF TakeNote
    <3> QED BY <1>2, <3>1, <3>2
  <2>5. ASSUME NEW m \in Outgoing, m # x, CompletionHeld(m) PROVE CompletionHeld(m)'
    <3>1. m \in ToSet(client_handle_rx') \/ \E e \in pending_client_requests' : e.body = m
      BY <1>1, <2>2, <2>4, <2>5, CompletionHeldIn
    <3> QED BY <2>3, <3>1, ContainsToSet DEF CompletionHeld
  <2>6. \A m \in Outgoing : m # x => oneshot'[m] = oneshot[m]
    BY <1>1, <1>2 DEF TakeCall, TakeNote, Complete, TypeOK, HandleType
  <2>7. UNCHANGED fut
    BY DEF PollOutgoing
  <2>8. fut[x] # "abandoned" /\ oneshot'[x] = NoValue => CompletionHeld(x)'
    <3>1. CASE TakeCall(x)
      BY <3>1 DEF TakeCall, add_new_call, CompletionHeld
    <3>2. CASE TakeNote(x)
      BY <1>1, <3>2, KindsDiffer DEF TakeNote, Complete, TypeOK, HandleType, Outgoing
    <3> QED BY <1>2, <3>1, <3>2
  <2> QED BY <1>1, <2>5, <2>6, <2>7, <2>8 DEF HeldInv
<1>3. CASE UNCHANGED client_handle_rx /\ UNCHANGED <<oneshot, mapVars>>
  BY <1>1, <1>3, HeldFrame DEF PollOutgoing
<1>4. \/ UNCHANGED client_handle_rx /\ UNCHANGED <<oneshot, mapVars>>
      \/ \E x \in Outgoing : /\ outgoing_payload_rx!TakeStrong(x)
                             /\ TakeCall(x) \/ TakeNote(x)
  BY DEF PollOutgoing, outgoing_payload_rx!TakeWeak, outgoing_payload_rx!NotReady,
         outgoing_payload_rx!Finish
<1> QED BY <1>2, <1>3, <1>4

(* A response that removes a completion channel from the map completes it, *)
(* and only this one, as its id is that of one call (handle_response).     *)
LEMMA HeldHandleRx == ASSUME OwnInv, HeldInv, HandleTransportRxPayload PROVE HeldInv'
<1> DEFINE msg == Head(transport_rx)
<1>1. TypeOK /\ ~Dropped /\ UNCHANGED <<fut, client_handle_rx>>
  BY DEF OwnInv, HandleTransportRxPayload, Dropped
<1>2. CASE UNCHANGED <<oneshot, pending_client_requests>>
  BY <1>1, <1>2, HeldFrame
<1>3. ASSUME msg.kind = "response", NEW e \in Removed(msg.id), Complete(e.body, msg.body),
             pending_client_requests' = pending_client_requests \ Removed(msg.id)
      PROVE  HeldInv'
  <2>1. msg \in ToSet(transport_rx)
    BY <1>1, ToSetHeadTail DEF TypeOK, StreamType, HandleTransportRxPayload
  <2>2. e \in Claims /\ e.id = msg.id /\ e.id # 0 /\ e.body \in Calls
    BY <1>1, <1>3 DEF TypeOK, StateType, Removed, Claims
  <2>3. [id |-> msg.id, body |-> msg.body] \in Claims
    BY <1>3, <2>1, <2>2 DEF Claims
  <2>4. msg.body = e.body
    BY <2>2, <2>3 DEF OwnInv, IdsAgree
  <2>5. \A f \in Removed(msg.id) : f.body = e.body
    <3>1. ASSUME NEW f \in Removed(msg.id) PROVE f.body = e.body
      <4>1. f \in Claims /\ f.id = e.id
        BY <1>3 DEF Removed, Claims
      <4> QED BY <2>2, <4>1 DEF OwnInv, IdsAgree
    <3> QED BY <3>1
  <2>6. \A m : m # e.body /\ CompletionHeld(m) => CompletionHeld(m)'
    BY <1>1, <1>3, <2>5 DEF CompletionHeld
  <2>7. \A m \in Outgoing : m # e.body => oneshot'[m] = oneshot[m]
    BY <1>1, <1>3 DEF Complete, TypeOK, HandleType
  <2>8. fut[e.body] = "abandoned" \/ oneshot'[e.body] # NoValue
    BY <1>1, <1>3, <2>2, <2>4, KindsDiffer DEF Complete, TypeOK, HandleType, Outgoing
  <2> QED BY <1>1, <2>6, <2>7, <2>8 DEF HeldInv
<1>4. ASSUME Removed(msg.id) = {},
             pending_client_requests' = pending_client_requests \ Removed(msg.id),
             UNCHANGED oneshot
      PROVE  HeldInv'
  BY <1>2, <1>4
<1> QED BY <1>2, <1>3, <1>4 DEF HandleTransportRxPayload, handle_response, process_request

(* While the client lives, a message that waits has its value, or somebody *)
(* holds its completion channel: no call fails with Shutdown before the    *)
(* client is gone (handle_client_payload, handle_response).                *)
THEOREM NoCallForgottenHolds == Spec => []NoCallForgotten
<1>1. Init => HeldInv
  BY DEF Init, HandleInit, HeldInv
<1>2. OwnInv /\ HeldInv /\ [Next]_vars => HeldInv'
  <2> SUFFICES ASSUME OwnInv, HeldInv, [Next]_vars PROVE HeldInv'
    OBVIOUS
  <2>1. CASE SendLeftover \/ QuietStep \/ TransportTurn \/ HandlerTurn \/ UNCHANGED vars
    <3>1. UNCHANGED <<fut, oneshot, client_handle_rx, pending_client_requests>>
      BY <2>1, QuietStepFrame DEF SendLeftover, TransportTurn, HandlerTurn
    <3> QED BY <3>1, DroppedForGood, HeldFrame
  <2>2. CASE DropClient
    BY <2>2 DEF DropClient, HeldInv, Dropped
  <2> QED BY <2>1, <2>2, HeldPollOutgoing, HeldHandleRx, HeldUser, NextCases DEF OwnInv
<1>3. HeldInv => NoCallForgotten
  BY DEF HeldInv, NoCallForgotten
<1> QED BY <1>1, <1>2, <1>3, OwnInvHolds, PTL DEF Spec

-----------------------------------------------------------------------------
(* What the client takes goes to the sink                                  *)

\* The members of Wire.
WireSet == ToSet(delivered) \cup ToSet(transport_tx) \cup ToSet(pending_payload)

LEMMA WireMembers ==
  ASSUME TypeOK
  PROVE  Wire \in Seq(Payload) /\ ToSet(Wire) = WireSet
         /\ \A p : OnWire(p) <=> p \in WireSet
<1>1. /\ delivered \in Seq(Payload) /\ transport_tx \in Seq(Payload)
      /\ pending_payload \in Seq(Payload)
  BY DEF TypeOK, SinkType
<1>2. Wire \in Seq(Payload) /\ ToSet(Wire) = WireSet
  BY <1>1, ToSetConcatThree DEF Wire, WireSet
<1> QED BY <1>2 DEF OnWire, ToSet

(* send_payload adds its payload to the wire, unless the sink has failed.  *)
LEMMA SendReaches ==
  ASSUME TypeOK, NEW p \in Payload, NEW next, send_payload(p, next), ~tx_broken,
         UNCHANGED delivered, pending_payload \in {<< >>, <<p>>}
  PROVE  WireSet' = WireSet \cup {p}
<1>1. transport_tx \in Seq(Payload)
  BY DEF TypeOK, SinkType
<1>2. ToSet(Append(transport_tx, p)) = ToSet(transport_tx) \cup {p}
  BY <1>1, ToSetAppend
<1>3. ToSet(pending_payload) \subseteq {p} /\ ToSet(<<p>>) = {p} /\ ToSet(<< >>) = {}
  BY ToSetSmall
<1>4. CASE transport_tx' = Append(transport_tx, p) /\ pending_payload' = << >>
  BY <1>2, <1>3, <1>4 DEF WireSet
<1>5. CASE transport_tx' = transport_tx /\ pending_payload' = <<p>>
  BY <1>3, <1>5 DEF WireSet
<1> QED BY <1>4, <1>5 DEF send_payload, Kept, Taken

\* Unless the sink fails or the client is dropped, a payload of every id
\* that was issued, and of every notification that was reported as sent, is
\* with the peer, in the sink, or kept for it.
AllSent ==
  ~tx_broken /\ ~Dropped =>
    /\ \A id \in 1..(next_id - 1) : \E p \in WireSet : p.id = id
    /\ \A n \in Notes : oneshot[n] = n => [id |-> 0, body |-> n] \in WireSet

(* No step but these takes anything from the wire or adds to the promise.  *)
LEMMA SentFrame ==
  ASSUME AllSent, UNCHANGED <<next_id, oneshot>>, WireSet \subseteq WireSet',
         ~tx_broken' /\ ~Dropped' => ~tx_broken /\ ~Dropped
  PROVE  AllSent'
  BY DEF AllSent

LEMMA SentPollOutgoing == ASSUME TypeOK, AllSent, PollOutgoing PROVE AllSent'
<1>1. ~Dropped /\ UNCHANGED <<tx_broken, delivered>>
  BY DEF PollOutgoing, Dropped
<1>2. SUFFICES ASSUME ~tx_broken PROVE AllSent'
  BY <1>1 DEF AllSent
<1>3. pending_payload \in {<< >>}
  BY DEF PollOutgoing, MayTakeMessage
<1>4. ASSUME NEW c, TakeCall(c) PROVE AllSent'
  <2> DEFINE p == [id |-> next_id, body |-> c]
  <2>1. p \in Payload /\ next_id \in Nat
    BY <1>4 DEF TypeOK, StateType, TakeCall, Payload
  <2>2. WireSet' = WireSet \cup {p}
    BY <1>1, <1>2, <1>3, <1>4, <2>1, SendReaches DEF TakeCall
  <2>3. next_id' = next_id + 1 /\ UNCHANGED oneshot
    BY <1>4 DEF TakeCall, IdAfter
  <2>4. \A id \in 1..(next_id' - 1) : id = next_id \/ id \in 1..(next_id - 1)
    BY <2>1, <2>3
  <2>5. p.id = next_id
    OBVIOUS
  <2>6. \A id \in 1..(next_id' - 1) : \E q \in WireSet' : q.id = id
    <3> HIDE DEF p
    <3> QED BY <1>1, <1>2, <2>2, <2>4, <2>5 DEF AllSent
  <2> QED BY <1>1, <1>2, <2>2, <2>3, <2>6 DEF AllSent
<1>5. ASSUME NEW n, TakeNote(n) PROVE AllSent'
  <2> DEFINE p == [id |-> 0, body |-> n]
  <2>1. p \in Payload
    BY <1>5 DEF TakeNote, Payload
  <2>2. WireSet' = WireSet \cup {p}
    BY <1>1, <1>2, <1>3, <1>5, <2>1, SendReaches DEF TakeNote
  <2>3. UNCHANGED next_id /\ \A m \in Notes : m # n => oneshot'[m] = oneshot[m]
    BY <1>5 DEF TakeNote, Complete, TypeOK, HandleType, Outgoing
  <2> QED BY <1>1, <1>2, <2>2, <2>3 DEF AllSent
<1>6. ASSUME NEW r \in Requests, UNCHANGED <<oneshot, mapVars>>,
             send_payload([id |-> 0, body |-> r], "outgoing")
      PROVE  AllSent'
  <2> DEFINE p == [id |-> 0, body |-> r]
  <2>1. p \in Payload
    BY DEF Payload
  <2>2. WireSet' = WireSet \cup {p}
    BY <1>1, <1>2, <1>3, <1>6, <2>1, SendReaches
  <2> QED BY <1>1, <1>2, <1>6, <2>2, SentFrame
<1>7. CASE UNCHANGED <<oneshot, mapVars, pending_payload, transport_tx>>
  <2>1. WireSet' = WireSet
    BY <1>1, <1>7 DEF WireSet
  <2> QED BY <1>1, <1>2, <1>7, <2>1, SentFrame
<1> QED BY <1>4, <1>5, <1>6, <1>7 DEF PollOutgoing

LEMMA SentLeftover == ASSUME TypeOK, AllSent, SendLeftover PROVE AllSent'
<1>1. ~Dropped /\ UNCHANGED <<tx_broken, delivered, next_id, oneshot>>
  BY DEF SendLeftover, Dropped
<1>2. SUFFICES ASSUME ~tx_broken PROVE AllSent'
  BY <1>1 DEF AllSent
<1>3. CASE UNCHANGED <<transport_tx, pending_payload>>
  BY <1>1, <1>2, <1>3, SentFrame DEF WireSet
<1>4. ASSUME NEW i \in DOMAIN pending_payload, send_payload(pending_payload[i], "server")
      PROVE  AllSent'
  <2>1. pending_payload \in Seq(Payload) /\ Len(pending_payload) <= 1
    BY DEF TypeOK, SinkType
  <2>2. pending_payload[i] \in Payload /\ pending_payload = <<pending_payload[i]>>
    BY <2>1, OneItem
  <2>3. WireSet' = WireSet \cup {pending_payload[i]}
    BY <1>1, <1>2, <1>4, <2>2, SendReaches
  <2> QED BY <1>1, <1>2, <2>3, SentFrame
<1> QED BY <1>3, <1>4 DEF SendLeftover

LEMMA SentTransport == ASSUME TypeOK, AllSent, TransportTurn PROVE AllSent'
<1>1. UNCHANGED <<pc, next_id, oneshot, pending_payload>>
  BY DEF TransportTurn
<1>2. tx_broken => tx_broken'
  BY DEF TransportTurn, TransportNext, Deliver, BreakSink, EndStream, Reply, ReplyAgain,
         ReplyToNobody, SendInvalid, Ask, Arrive
<1>3. CASE Deliver
  <2>1. /\ transport_tx \in Seq(Payload) /\ delivered \in Seq(Payload) /\ transport_tx # << >>
    BY <1>3 DEF TypeOK, SinkType, Deliver, SinkFlushing
  <2>2. ToSet(transport_tx) = {Head(transport_tx)} \cup ToSet(transport_tx')
    BY <1>3, <2>1, ToSetHeadTail DEF Deliver
  <2>3. ToSet(delivered') = ToSet(delivered) \cup {Head(transport_tx)}
    BY <1>3, <2>1, ToSetAppend DEF Deliver
  <2>4. WireSet' = WireSet
    BY <1>1, <2>2, <2>3 DEF WireSet
  <2> QED BY <1>1, <1>2, <2>4, SentFrame DEF Dropped
<1>4. CASE UNCHANGED <<delivered, transport_tx>>
  BY <1>1, <1>2, <1>4, SentFrame DEF Dropped, WireSet
<1> QED BY <1>3, <1>4 DEF TransportTurn, TransportNext, BreakSink, EndStream, Reply, ReplyAgain,
                          ReplyToNobody, SendInvalid, Ask, Arrive

\* A response completes calls only, never a notification.
LEMMA SentHandleRx ==
  ASSUME TypeOK, AllSent, HandleTransportRxPayload PROVE AllSent'
<1>1. /\ ~Dropped /\ UNCHANGED <<tx_broken, delivered, transport_tx, pending_payload, next_id>>
  BY DEF HandleTransportRxPayload, Dropped
<1>2. \A n \in Notes : oneshot'[n] = oneshot[n]
  <2>1. \A id : \A e \in Removed(id) : e.body \in Calls
    BY DEF Removed, TypeOK, StateType
  <2> QED BY <2>1, KindsDiffer
          DEF HandleTransportRxPayload, handle_response, process_request, Complete,
              TypeOK, HandleType, Outgoing
<1>3. UNCHANGED WireSet
  BY <1>1 DEF WireSet
<1> QED BY <1>1, <1>2, <1>3 DEF AllSent

LEMMA AllSentHolds == Spec => []AllSent
<1>1. Init => AllSent
  <2> SUFFICES ASSUME Init PROVE AllSent
    OBVIOUS
  <2>1. next_id = 1 /\ \A n \in Notes : oneshot[n] # n
    BY KindsDiffer DEF Init, HandleInit, Outgoing
  <2> QED BY <2>1 DEF AllSent
<1>2. TypeOK /\ AllSent /\ [Next]_vars => AllSent'
  <2> SUFFICES ASSUME TypeOK, AllSent, [Next]_vars PROVE AllSent'
    OBVIOUS
  <2>1. CASE QuietStep \/ UserTurn \/ HandlerTurn \/ UNCHANGED vars
    <3>1. UNCHANGED <<next_id, oneshot, delivered, transport_tx, pending_payload, tx_broken>>
      BY <2>1, QuietStepFrame, UserFrame DEF HandlerTurn
    <3> QED BY <3>1, DroppedForGood, SentFrame DEF WireSet
  <2>2. CASE DropClient
    BY <2>2 DEF DropClient, AllSent, Dropped
  <2> QED BY <2>1, <2>2, SentPollOutgoing, SentLeftover, SentTransport, SentHandleRx, NextCases
<1> QED BY <1>1, <1>2, TypeCorrect, PTL DEF Spec

(* What waits for an answer, or was reported sent, has been given to the   *)
(* sink or is kept for it (send_payload).                                  *)
THEOREM WaitingIsSentHolds == Spec => []WaitingIsSent
<1>1. OwnInv /\ AllSent => WaitingIsSent
  <2> SUFFICES ASSUME OwnInv, AllSent, ~tx_broken, ~Dropped
               PROVE  /\ \A e \in pending_client_requests : OnWire(e)
                      /\ \A n \in Notes : oneshot[n] = n => OnWire([id |-> 0, body |-> n])
    BY DEF WaitingIsSent
  <2>1. TypeOK
    BY DEF OwnInv
  <2>2. ASSUME NEW e \in pending_client_requests PROVE e \in WireSet
    <3>1. e \in Claims /\ e \in [id : Nat \ {0}, body : Calls]
      BY <2>1 DEF Claims, TypeOK, StateType
    <3>2. e.id \in 1..(next_id - 1)
      BY <2>1, <3>1 DEF OwnInv, IdsAgree, TypeOK, StateType
    <3>3. PICK p \in WireSet : p.id = e.id
      BY <3>2 DEF AllSent
    <3>4. p \in Claims /\ p.body = e.body
      BY <3>1, <3>3 DEF OwnInv, IdsAgree, Claims, WireSet
    <3>5. p \in Payload
      BY <2>1 DEF WireSet, TypeOK, SinkType, ToSet
    <3>6. p = e
      BY <3>1, <3>3, <3>4, <3>5 DEF Payload
    <3> QED BY <3>6
  <2> QED BY <2>1, <2>2, WireMembers DEF AllSent
<1> QED BY <1>1, AllSentHolds, OwnInvHolds, PTL

-----------------------------------------------------------------------------
(* How the client ends                                                     *)

(* What went wrong stays wrong, and users that are gone stay away.         *)
LEMMA FaultsStay ==
  ASSUME TypeOK, [Next]_vars
  PROVE  /\ tx_broken => tx_broken'
         /\ rx_end # "open" => rx_end' = rx_end
         /\ noise > 0 => noise' > 0
         /\ server_handler # "running" => server_handler' = server_handler
         /\ refused \subseteq refused'
         /\ ~StrongOpen => ~StrongOpen'
<1>1. CASE SendLeftover \/ PollOutgoing \/ HandleTransportRxPayload \/ DropClient
  <2>1. UNCHANGED <<tx_broken, rx_end, noise, handle, fut>>
    BY <1>1 DEF SendLeftover, PollOutgoing, HandleTransportRxPayload, DropClient
  <2>2. server_handler # "running" => server_handler' = server_handler
    BY <1>1 DEF SendLeftover, PollOutgoing, HandleTransportRxPayload, DropClient,
                handle_response, process_request
  <2>3. refused \subseteq refused'
    BY <1>1 DEF SendLeftover, PollOutgoing, HandleTransportRxPayload, DropClient,
                handle_response, process_request
  <2> QED BY <2>1, <2>2, <2>3 DEF StrongOpen, OwnsSender
<1>2. CASE QuietStep \/ UNCHANGED vars
  BY <1>2, QuietStepFrame DEF StrongOpen, OwnsSender
<1>3. CASE UserTurn
  <2>1. UNCHANGED <<tx_broken, rx_end, noise, server_handler, refused>>
    BY <1>3, UserFrame
  <2>2. ~StrongOpen => ~StrongOpen'
    BY <1>3 DEF UserTurn, User, UserStep, Invoke, Reject, Send, Sent, Resolve, Abandon, DropHandle,
                Become, StrongOpen, OwnsSender, TypeOK, HandleType
  <2> QED BY <2>1, <2>2
<1>4. CASE TransportTurn
  <2>1. UNCHANGED <<server_handler, refused, handle, fut>>
    BY <1>4 DEF TransportTurn
  <2>2. noise \in Nat
    BY MaxNoiseIsNatural DEF TypeOK, StreamType
  <2> USE DEF TransportTurn, TransportNext, Deliver, BreakSink, EndStream, Reply, ReplyAgain,
              ReplyToNobody, SendInvalid, Ask, Arrive
  <2>3. tx_broken => tx_broken'
    BY <1>4
  <2>5. rx_end # "open" => rx_end' = rx_end
    BY <1>4
  <2>4. noise' = noise \/ noise' = noise + 1
    BY <1>4
  <2> QED BY <2>1, <2>2, <2>3, <2>4, <2>5 DEF StrongOpen, OwnsSender
<1>5. CASE HandlerTurn
  BY <1>5 DEF HandlerTurn, Handler, HandlerRespond, HandlerStops, StrongOpen, OwnsSender
<1> QED BY <1>1, <1>2, <1>3, <1>4, <1>5, NextCases

\* An error that the future keeps, or resolves with, did happen.
Happened(res) ==
  /\ res = "TransportError" => tx_broken \/ rx_end = "error"
  /\ res = "DeserializeError" => noise > 0
  /\ res = "HandlerError" => server_handler = "HandlerError" \/ "HandlerError" \in refused
ErrorInv ==
  /\ Happened(fatal_error) /\ Happened(poll_result)
  /\ \A m \in ToSet(transport_rx) : m.kind = "invalid" => noise > 0

LEMMA HappenedStays ==
  ASSUME TypeOK, [Next]_vars, NEW res, Happened(res) PROVE Happened(res)'
  BY FaultsStay DEF Happened

(* Client::poll keeps errors that happened in the step that reports them.  *)
LEMMA ReturnHappened ==
  ASSUME TypeOK, [Next]_vars, ErrorInv, NEW res, NEW next, Return(res, next) \/ RxReturn(res, next),
         Happened(res)
  PROVE  Happened(fatal_error)'
<1>1. fatal_error' \in {fatal_error, res}
  BY DEF Return, RxReturn
<1>2. Happened(res)' /\ (\A e : Happened(e) => Happened(e)')
  BY HappenedStays
<1> QED BY <1>1, <1>2 DEF ErrorInv, Happened

LEMMA SendHappened ==
  ASSUME TypeOK, [Next]_vars, ErrorInv, NEW p, NEW next, send_payload(p, next)
  PROVE  Happened(fatal_error)'
  BY ReturnHappened DEF send_payload, Happened

LEMMA FatalErrorHappened ==
  ASSUME TypeOK, ErrorInv, [Next]_vars PROVE Happened(fatal_error)'
<1>1. CASE UNCHANGED fatal_error
  BY <1>1, HappenedStays DEF ErrorInv, Happened
<1>2. CASE SendLeftover \/ PollOutgoing
  <2>1. \/ UNCHANGED fatal_error
        \/ \E p, next : send_payload(p, next)
        \/ \E next : \E res \in {"ok", "Shutdown"} : Return(res, next)
    BY <1>2 DEF SendLeftover, PollOutgoing, TakeCall, TakeNote
  <2> QED BY <1>1, <2>1, SendHappened, ReturnHappened DEF Happened
<1>3. CASE HandleTransportRxPayload
  <2> DEFINE msg == Head(transport_rx)
  <2>1. msg.kind = "invalid" => noise > 0
    BY <1>3, ToSetHeadTail DEF ErrorInv, TypeOK, StreamType, HandleTransportRxPayload
  <2>2. ASSUME NEW res, RxReturn(res, DrainOn),
               res \in {"ok", "Shutdown"} \/ (res = "DeserializeError" /\ noise > 0)
        PROVE  Happened(fatal_error)'
    BY <2>2, ReturnHappened DEF Happened
  <2>3. ASSUME NEW kind \in HandlerErrors, RxReturn(kind, DrainOn),
               refused' = refused \cup (IF pc = "rx" THEN {kind} ELSE {})
        PROVE  Happened(fatal_error)'
    <3>1. CASE pc = "rx"
      <4>1. fatal_error' \in {fatal_error, kind} /\ kind \in refused'
        BY <2>3, <3>1 DEF RxReturn, Return
      <4>2. Happened(kind)'
        BY <4>1 DEF Happened, HandlerErrors
      <4>3. Happened(fatal_error) => Happened(fatal_error)'
        BY <1>1, <4>1, <4>2, HappenedStays DEF ErrorInv, Happened
      <4> QED BY <4>3 DEF ErrorInv
    <3>2. CASE pc # "rx"
      BY <1>1, <2>3, <3>2 DEF RxReturn, errorVars
    <3> QED BY <3>1, <3>2
  <2> QED BY <1>3, <2>1, <2>2, <2>3 DEF HandleTransportRxPayload, handle_response, process_request
<1>4. CASE TransportRxDrained
  BY <1>4, ReturnHappened DEF TransportRxDrained, Happened
<1>5. CASE PollServer \/ Flush
  BY <1>1, <1>5, ReturnHappened DEF PollServer, Flush, Happened, HandlerErrors
<1>6. CASE Close
  BY <1>1, <1>6 DEF Close, Happened
<1>7. CASE Poll \/ OutgoingMustWait \/ DropClient \/ UserTurn \/ TransportTurn \/ HandlerTurn
           \/ UNCHANGED vars
  BY <1>1, <1>7 DEF Poll, OutgoingMustWait, DropClient, UserTurn, TransportTurn, HandlerTurn
<1> QED BY <1>2, <1>3, <1>4, <1>5, <1>6, <1>7, NextCases DEF QuietStep

LEMMA ResultHappened ==
  ASSUME TypeOK, ErrorInv, [Next]_vars PROVE Happened(poll_result)'
<1>1. poll_result' \in {poll_result, fatal_error, "ok"}
  <2>1. CASE Close
    BY <2>1 DEF Close
  <2>2. CASE ~Close
    BY <2>2, NextCases DEF QuietStep, Poll, PollServer, TransportRxDrained, OutgoingMustWait, Flush,
       SendLeftover, PollOutgoing, HandleTransportRxPayload, DropClient,
       UserTurn, TransportTurn, HandlerTurn
  <2> QED BY <2>1, <2>2
<1> QED BY <1>1, HappenedStays DEF ErrorInv, Happened

(* A message that is no JSON-RPC 2.0 is noise of the peer.                 *)
LEMMA InvalidIsNoise ==
  ASSUME TypeOK, ErrorInv, [Next]_vars
  PROVE  \A m \in ToSet(transport_rx') : m.kind = "invalid" => noise' > 0
<1>1. CASE ToSet(transport_rx') \subseteq ToSet(transport_rx)
  BY <1>1, FaultsStay DEF ErrorInv
<1>2. CASE HandleTransportRxPayload
  BY <1>1, <1>2, ToSetHeadTail DEF HandleTransportRxPayload, TypeOK, StreamType
<1>3. ASSUME NEW msg \in Incoming, Arrive(msg), msg.kind = "invalid" => noise' > 0
      PROVE  \A m \in ToSet(transport_rx') : m.kind = "invalid" => noise' > 0
  <2>1. ToSet(transport_rx') = ToSet(transport_rx) \cup {msg}
    BY <1>3, ToSetAppend DEF Arrive, TypeOK, StreamType
  <2> QED BY <1>3, <2>1, FaultsStay DEF ErrorInv
<1>4. CASE TransportTurn
  <2>1. CASE UNCHANGED transport_rx
    BY <1>1, <2>1
  <2>2. ASSUME NEW k \in DOMAIN delivered, Reply(k) \/ ReplyAgain(k)
        PROVE  \A m \in ToSet(transport_rx') : m.kind = "invalid" => noise' > 0
    <3>1. delivered[k] \in Payload /\ delivered[k].id # 0
      BY <2>2 DEF TypeOK, SinkType, StreamType, Reply, ReplyAgain
    <3>2. Answer(delivered[k]) \in Incoming /\ Answer(delivered[k]).kind # "invalid"
      BY <3>1 DEF Answer, Payload, Incoming
    <3> QED BY <1>3, <2>2, <3>2 DEF Reply, ReplyAgain
  <2>3. CASE ReplyToNobody
    BY <1>3, <2>3 DEF ReplyToNobody, Incoming
  <2>4. CASE SendInvalid
    <3>1. noise' > 0 /\ [kind |-> "invalid", id |-> 0, body |-> NoValue] \in Incoming
      BY <2>4, MaxNoiseIsNatural DEF SendInvalid, TypeOK, StreamType, Incoming
    <3> QED BY <1>3, <2>4, <3>1 DEF SendInvalid
  <2>5. ASSUME NEW r \in Requests, Ask(r)
        PROVE  \A m \in ToSet(transport_rx') : m.kind = "invalid" => noise' > 0
    BY <1>3, <2>5 DEF Ask, Incoming
  <2> QED BY <1>4, <2>1, <2>2, <2>3, <2>4, <2>5
          DEF TransportTurn, TransportNext, Deliver, BreakSink, EndStream
<1>5. CASE DropClient
  BY <1>5, ToSetSmall DEF DropClient
<1>6. CASE SendLeftover \/ PollOutgoing \/ QuietStep \/ UserTurn \/ HandlerTurn \/ UNCHANGED vars
  BY <1>1, <1>6, QuietStepFrame, UserFrame DEF SendLeftover, PollOutgoing, HandlerTurn
<1> QED BY <1>2, <1>4, <1>5, <1>6, NextCases

LEMMA ErrorInvHolds == Spec => []ErrorInv
<1>1. Init => ErrorInv
  BY ToSetSmall DEF Init, TransportInit, ErrorInv, Happened
<1>2. TypeOK /\ ErrorInv /\ [Next]_vars => ErrorInv'
  BY FatalErrorHappened, ResultHappened, InvalidIsNoise DEF ErrorInv
<1> QED BY <1>1, <1>2, TypeCorrect, PTL DEF Spec

(* What the future resolves with is what happened.                         *)
Excused ==
  \/ rx_end = "eof"
  \/ server_handler \in {"ended", "Shutdown"}
  \/ "Shutdown" \in refused
ClosingPCs == {"shutdown_rx", "close", "idle", "resolved", "dropped"}

\* A client that shuts down without an excuse has no users and has given all
\* it had to the sink; one that shuts down has a reason; one that has
\* resolved has closed the sink.
EndInv ==
  /\ shutting_down =>
       Excused \/ (~StrongOpen /\ pending_payload = << >> /\ pc \in ClosingPCs)
  /\ pc \in {"shutdown_rx", "close"} => should_shut_down
  /\ poll_result = "ok" => shutting_down
  /\ poll_result # "none" => pc \in {"resolved", "dropped"}
  /\ pc = "resolved" /\ ~tx_broken => transport_tx = << >>

LEMMA ExcusedStays == ASSUME TypeOK, [Next]_vars, Excused PROVE Excused'
  BY FaultsStay DEF Excused

(* A part of handle_messages that fails, or finds nothing wrong.           *)
LEMMA EndReturn ==
  ASSUME TypeOK, [Next]_vars, EndInv,
         pc \in {"leftover", "server", "rx", "outgoing", "flush"}, UNCHANGED poll_result,
         NEW res \in FatalErrors \cup {"ok"},
         NEW next \in {"server", "rx", "outgoing", "flush", "idle"}, Return(res, next)
  PROVE  EndInv'
<1>1. shutting_down' = shutting_down /\ (shutting_down => Excused)
  <2>1. res # "Shutdown" /\ shutting_down \in BOOLEAN
    BY DEF FatalErrors, TypeOK, StateType
  <2>2. shutting_down' = shutting_down
    BY <2>1 DEF Return
  <2>3. pc \notin ClosingPCs
    BY DEF ClosingPCs
  <2> QED BY <2>2, <2>3 DEF EndInv
<1>2. pc' = "shutdown_rx" => should_shut_down'
  BY DEF Return, FatalErrors, should_shut_down
<1>3. pc' \notin {"close", "resolved"} /\ poll_result' = "none"
  BY DEF Return, EndInv
<1> QED BY <1>1, <1>2, <1>3, ExcusedStays DEF EndInv

LEMMA EndSend ==
  ASSUME TypeOK, [Next]_vars, EndInv, pc \in {"leftover", "outgoing"}, UNCHANGED poll_result,
         NEW p, NEW next \in {"server", "outgoing"}, send_payload(p, next)
  PROVE  EndInv'
  BY EndReturn DEF send_payload, FatalErrors

(* The same in the loop of poll_transport_rx, where the end of the stream  *)
(* or a handler that refuses one with Shutdown is an excuse.               *)
LEMMA EndRxReturn ==
  ASSUME TypeOK, [Next]_vars, EndInv, pc \in {"rx", "shutdown_rx"},
         UNCHANGED <<poll_result, pending_payload, handle, fut>>,
         NEW res \in Results, NEW next \in {pc, AfterRx}, RxReturn(res, next),
         pc = "rx" /\ res = "Shutdown" => Excused'
  PROVE  EndInv'
<1>1. CASE pc = "rx"
  <2>1. next \in {"rx", "outgoing"} /\ Return(res, next)
    BY <1>1 DEF AfterRx, RxReturn
  <2>2. CASE res # "Shutdown"
    <3>1. res \in FatalErrors \cup {"ok"}
      BY <2>2 DEF Results
    <3> QED BY <1>1, <2>1, <3>1, EndReturn
  <2>3. CASE res = "Shutdown"
    <3>1. shutting_down' /\ Excused' /\ pc' = "shutdown_rx" /\ poll_result' = "none"
      BY <1>1, <2>1, <2>3 DEF Return, EndInv
    <3> QED BY <3>1 DEF EndInv, should_shut_down
  <2> QED BY <2>2, <2>3
<1>2. CASE pc = "shutdown_rx"
  <2>1. pc' \in {"shutdown_rx", "close"} /\ UNCHANGED <<shutting_down, fatal_error>>
    BY <1>2 DEF AfterRx, RxReturn
  <2> QED BY <1>2, <2>1, ExcusedStays
          DEF EndInv, should_shut_down, ClosingPCs, StrongOpen, OwnsSender
<1> QED BY <1>1, <1>2

LEMMA EndPollOutgoing == ASSUME TypeOK, [Next]_vars, EndInv, PollOutgoing PROVE EndInv'
<1>1. pc = "outgoing" /\ pending_payload = << >> /\ UNCHANGED <<poll_result, handle, fut>>
  BY DEF PollOutgoing, MayTakeMessage
<1>2. CASE \E p : send_payload(p, "outgoing")
  BY <1>1, <1>2, EndSend
<1>3. CASE Return("ok", "flush")
  BY <1>1, <1>3, EndReturn
<1>4. CASE outgoing_payload_rx!Finish /\ Return("Shutdown", "flush")
           /\ UNCHANGED pending_payload
  <2>1. ~StrongOpen' /\ pending_payload' = << >> /\ shutting_down' /\ pc' = "shutdown_rx"
    BY <1>1, <1>4 DEF outgoing_payload_rx!Finish, outgoing_payload_rx!StrongEnd, Return,
                      StrongOpen, OwnsSender
  <2>2. poll_result' = "none"
    BY <1>1 DEF EndInv
  <2> QED BY <2>1, <2>2 DEF EndInv, should_shut_down, ClosingPCs
<1> QED BY <1>2, <1>3, <1>4 DEF PollOutgoing, TakeCall, TakeNote

LEMMA EndHandleRx == ASSUME TypeOK, [Next]_vars, EndInv, HandleTransportRxPayload PROVE EndInv'
<1>1. /\ pc \in {"rx", "shutdown_rx"} /\ DrainOn = pc
      /\ UNCHANGED <<poll_result, pending_payload, handle, fut>>
  BY DEF HandleTransportRxPayload, DrainOn
<1>2. \E res \in Results :
        RxReturn(res, DrainOn) /\ (pc = "rx" /\ res = "Shutdown" => Excused')
  BY DEF HandleTransportRxPayload, handle_response, process_request, Results, FatalErrors,
         HandlerErrors, Excused
<1> QED BY <1>1, <1>2, EndRxReturn

LEMMA EndQuiet == ASSUME TypeOK, [Next]_vars, EndInv, QuietStep PROVE EndInv'
<1>1. UNCHANGED <<pending_payload, handle, fut, transport_tx, tx_broken>>
  BY QuietStepFrame
<1>2. CASE Poll
  BY <1>1, <1>2, ExcusedStays
  DEF Poll, EndInv, should_shut_down, ClosingPCs, StrongOpen, OwnsSender
<1>3. CASE PollServer
  <2>1. CASE server_handler = "ended" /\ shutting_down' = TRUE /\ pc' = "rx"
    <3>1. Excused' /\ poll_result' = "none"
      BY <1>3, <2>1, ExcusedStays DEF PollServer, Excused, EndInv
    <3> QED BY <2>1, <3>1 DEF EndInv
  <2>2. ASSUME NEW res \in {"ok", "HandlerError"}, Return(res, "rx") PROVE EndInv'
    BY <1>3, <2>2, EndReturn DEF PollServer, FatalErrors
  <2>3. CASE server_handler = "Shutdown" /\ Return("Shutdown", "rx")
    <3>1. Excused' /\ poll_result' = "none" /\ pc' = "shutdown_rx" /\ should_shut_down'
      BY <1>3, <2>3, ExcusedStays DEF PollServer, Excused, EndInv, Return, should_shut_down
    <3> QED BY <3>1 DEF EndInv
  <2> QED BY <1>3, <2>1, <2>2, <2>3 DEF PollServer, HandlerErrors
<1>4. CASE TransportRxDrained
  <2>1. \E res \in Results : RxReturn(res, AfterRx) /\ (res = "Shutdown" => Excused')
    BY <1>4, ExcusedStays DEF TransportRxDrained, Results, FatalErrors, Excused
  <2> QED BY <1>1, <1>4, <2>1, EndRxReturn DEF TransportRxDrained
<1>5. CASE OutgoingMustWait
  BY <1>5, ExcusedStays DEF OutgoingMustWait, EndInv, ClosingPCs
<1>6. CASE Flush
  <2>1. pc = "flush" /\ UNCHANGED poll_result
        /\ \E res \in {"ok", "TransportError"} : Return(res, "idle")
    BY <1>6 DEF Flush
  <2> QED BY <2>1, EndReturn DEF FatalErrors
<1>7. CASE Close
  <2>1. /\ pc = "close" /\ should_shut_down /\ poll_result = "none"
        /\ shutting_down' = shutting_down /\ pc' \in {"idle", "resolved"}
    BY <1>7 DEF Close, EndInv
  <2>2. shutting_down' => Excused' \/ (~StrongOpen' /\ pending_payload' = << >> /\ pc' \in ClosingPCs)
    BY <1>1, <2>1, ExcusedStays DEF EndInv, ClosingPCs, StrongOpen, OwnsSender
  <2>3. poll_result' = "ok" => shutting_down'
    BY <1>7, <2>1 DEF Close, should_shut_down, TypeOK, StateType, FatalErrors
  <2>4. poll_result' # "none" => pc' = "resolved"
    BY <1>7, <2>1 DEF Close
  <2>5. pc' = "resolved" /\ ~tx_broken' => transport_tx' = << >>
    BY <1>1, <1>7 DEF Close, Closed, SinkFlushing
  <2> QED BY <2>1, <2>2, <2>3, <2>4, <2>5 DEF EndInv
<1> QED BY <1>2, <1>3, <1>4, <1>5, <1>6, <1>7 DEF QuietStep

LEMMA EndInvHolds == Spec => []EndInv
<1>1. Init => EndInv
  BY DEF Init, TaskInit, EndInv
<1>2. TypeOK /\ EndInv /\ [Next]_vars => EndInv'
  <2> SUFFICES ASSUME TypeOK, EndInv, [Next]_vars PROVE EndInv'
    OBVIOUS
  <2>1. CASE SendLeftover
    <3>1. CASE UNCHANGED <<pending_payload, errorVars>> /\ pc' = "server"
      <4>1. shutting_down' => Excused' /\ poll_result' = "none"
        BY <2>1, <3>1, ExcusedStays DEF SendLeftover, EndInv, ClosingPCs
      <4> QED BY <2>1, <3>1, <4>1 DEF SendLeftover, EndInv
    <3>2. CASE \E p : send_payload(p, "server")
      BY <2>1, <3>2, EndSend DEF SendLeftover
    <3> QED BY <2>1, <3>1, <3>2 DEF SendLeftover
  <2>2. CASE DropClient
    <3>1. /\ pc' = "dropped" /\ pending_payload' = << >>
          /\ UNCHANGED <<shutting_down, poll_result, handle, fut>>
      BY <2>2 DEF DropClient
    <3> QED BY <2>2, <3>1, ExcusedStays DEF DropClient, EndInv, ClosingPCs, StrongOpen, OwnsSender
  <2>3. CASE UserTurn \/ TransportTurn \/ HandlerTurn \/ UNCHANGED vars
    <3>1. UNCHANGED <<pc, errorVars, poll_result, pending_payload>>
      BY <2>3, UserFrame DEF TransportTurn, HandlerTurn
    <3>2. ~StrongOpen => ~StrongOpen'
      BY FaultsStay
    <3>3. pc' = "resolved" /\ ~tx_broken' => transport_tx' = << >>
      <4>1. transport_tx = << >> => transport_tx' = << >>
        BY <2>3, UserFrame DEF TransportTurn, HandlerTurn, TransportNext, Deliver, SinkFlushing,
                    BreakSink, EndStream, Reply, ReplyAgain, ReplyToNobody, SendInvalid, Ask, Arrive
      <4>2. ~tx_broken' => ~tx_broken
        BY FaultsStay
      <4> QED BY <3>1, <4>1, <4>2 DEF EndInv
    <3> QED BY <3>1, <3>2, <3>3, ExcusedStays DEF EndInv, should_shut_down
  <2> QED BY <2>1, <2>2, <2>3, EndPollOutgoing, EndHandleRx, EndQuiet, NextCases
<1> QED BY <1>1, <1>2, TypeCorrect, PTL DEF Spec

(* The result is what happened: Ok when the stream, the handler or the     *)
(* users ended, otherwise an error that did happen (Client::poll).         *)
THEOREM ResultJustifiedHolds == Spec => []ResultJustified
<1>1. ErrorInv /\ EndInv => ResultJustified
  BY DEF ErrorInv, Happened, EndInv, Excused, ResultJustified
<1> QED BY <1>1, ErrorInvHolds, EndInvHolds, PTL

(* Unless the sink fails, all that is lost of what the client took from    *)
(* its users is the payload a full sink had refused (handle_shutdown).     *)
THEOREM OnlyLeftoverIsLostHolds == Spec => []OnlyLeftoverIsLost
<1>1. TypeOK /\ AllSent /\ EndInv => OnlyLeftoverIsLost
  <2> SUFFICES ASSUME TypeOK, AllSent, EndInv, pc = "resolved", ~tx_broken
               PROVE  LET safe == delivered \o pending_payload IN
                        /\ \A id \in 1..(next_id - 1) : \E i \in DOMAIN safe : safe[i].id = id
                        /\ \A n \in Notes : oneshot[n] = n => \E i \in DOMAIN safe : safe[i].body = n
    BY DEF OnlyLeftoverIsLost
  <2> DEFINE safe == delivered \o pending_payload
  <2>1. ToSet(safe) = ToSet(delivered) \cup ToSet(pending_payload)
    BY ToSetConcat DEF TypeOK, SinkType
  <2>2. ToSet(safe) = WireSet
    BY <2>1, ToSetSmall DEF EndInv, WireSet
  <2>3. ~Dropped
    BY DEF Dropped
  <2>4. \A id \in 1..(next_id - 1) : \E p \in ToSet(safe) : p.id = id
    BY <2>2, <2>3 DEF AllSent
  <2>5. \A n \in Notes : oneshot[n] = n => \E p \in ToSet(safe) : p.body = n
    BY <2>2, <2>3 DEF AllSent
  <2> HIDE DEF safe
  <2>6. (\A id \in 1..(next_id - 1) : \E i \in DOMAIN safe : safe[i].id = id)
        /\ \A n \in Notes : oneshot[n] = n => \E i \in DOMAIN safe : safe[i].body = n
    BY <2>4, <2>5 DEF ToSet
  <2> QED BY <2>6 DEF safe
<1> QED BY <1>1, TypeCorrect, AllSentHolds, EndInvHolds, PTL

(* A client that ends because its users are gone has given the peer all it *)
(* took from them, and so it stays (handle_shutdown closes the sink).      *)
THEOREM CleanEndDeliversHolds == Spec => []CleanEndDelivers
<1>1. Init => CleanEndDelivers
  BY DEF Init, CleanEndDelivers, EndedByUsers
<1>2. TypeOK /\ AllSent /\ EndInv /\ ~Dropped => CleanEndDelivers
  <2> SUFFICES ASSUME TypeOK, AllSent, EndInv, ~Dropped, EndedByUsers
               PROVE  /\ \A id \in 1..(next_id - 1) : \E i \in DOMAIN delivered : delivered[i].id = id
                      /\ \A n \in Notes : oneshot[n] = n => n \in DeliveredBodies
    BY DEF CleanEndDelivers
  <2>1. pc = "resolved" /\ shutting_down /\ ~Excused /\ ~tx_broken /\ ~Dropped
    BY DEF EndInv, EndedByUsers, Excused, Dropped
  <2>2. WireSet = ToSet(delivered)
    BY <2>1, ToSetSmall DEF EndInv, WireSet
  <2> QED BY <2>1, <2>2 DEF AllSent, ToSet, DeliveredBodies
<1>3. CleanEndDelivers /\ Dropped' /\ TypeOK /\ [Next]_vars => CleanEndDelivers'
  <2> SUFFICES ASSUME CleanEndDelivers, pc' = "dropped", TypeOK, [Next]_vars
               PROVE  CleanEndDelivers'
    BY DEF Dropped
  <2>1. UNCHANGED <<delivered, next_id, oneshot, poll_result>>
    <3>1. CASE Dropped
      <4>1. ~QuietStep /\ ~SendLeftover /\ ~PollOutgoing /\ ~HandleTransportRxPayload
        BY <3>1, QuietStepFrame DEF Dropped, SendLeftover, PollOutgoing, HandleTransportRxPayload
      <4>2. ~TransportTurn
        BY <3>1 DEF TransportTurn, TransportNext, Deliver, BreakSink, EndStream, Reply, ReplyAgain,
                    ReplyToNobody, SendInvalid, Ask, Arrive
      <4> QED BY <4>1, <4>2, UserFrame, NextCases DEF HandlerTurn, DropClient
    <3>2. CASE ~Dropped
      <4>1. DropClient
        <5>1. ~UserTurn /\ ~TransportTurn /\ ~HandlerTurn /\ ~UNCHANGED vars
          BY <3>2, UserFrame DEF TransportTurn, HandlerTurn, Dropped
        <5>2. ~QuietStep
          BY DEF QuietStep, Poll, PollServer, TransportRxDrained, OutgoingMustWait, Flush, Close,
                 Return, RxReturn, AfterRx
        <5>3. ~SendLeftover /\ ~PollOutgoing /\ ~HandleTransportRxPayload
          BY DEF SendLeftover, PollOutgoing, HandleTransportRxPayload, send_payload, Return, RxReturn,
                 TakeCall, TakeNote, handle_response, process_request, DrainOn
        <5> QED BY <5>1, <5>2, <5>3, NextCases
      <4> QED BY <4>1 DEF DropClient
    <3> QED BY <3>1, <3>2
  <2>2. EndedByUsers' => EndedByUsers
    BY <2>1, FaultsStay DEF EndedByUsers, TypeOK, StreamType, ServerType
  <2> QED BY <2>1, <2>2 DEF CleanEndDelivers, DeliveredBodies
<1> QED BY <1>1, <1>2, <1>3, TypeCorrect, AllSentHolds, EndInvHolds, PTL DEF Spec

-----------------------------------------------------------------------------
(* The client hears of what it has to do                                   *)

\* What a part of the poll leaves behind that has found nothing more to do.
ServerHeard == "server" \in registered
RxHeard == transport_rx = << >> /\ rx_end = "open" /\ "rx" \in registered
LeftoverHeard == pending_payload # << >> => SinkFull /\ "tx" \in registered
MessagesHeard ==
  pending_payload = << >> =>
    /\ client_handle_rx = << >> /\ StrongOpen /\ "strong" \in registered
    /\ server_response_rx = << >> /\ "weak" \in registered
SinkHeard == transport_tx # << >> => "tx" \in registered

\* What has been polled in this poll or the last has nothing to do, unless
\* something happened there since, which has woken the task.  A handler that
\* has ended is not polled again.
HeardSoFar ==
  /\ pc \in {"rx", "outgoing", "flush", "idle"} => should_shut_down \/ ServerHeard
  /\ pc \in {"outgoing", "flush", "idle"} => RxHeard
  /\ pc \in {"server", "rx", "outgoing", "flush", "idle"} => LeftoverHeard
  /\ pc \in {"flush", "idle"} => MessagesHeard
  /\ pc = "idle" => SinkHeard

WakeInv ==
  /\ pc \in {"leftover", "server", "rx", "outgoing", "flush"} /\ should_shut_down =>
       server_handler = "ended"
  /\ ~woken => HeardSoFar \/ (pc = "idle" /\ should_shut_down /\ AsleepClosing)
  /\ pc = "idle" /\ ~woken /\ should_shut_down => server_handler = "ended" \/ AsleepClosing

(* An event at a source that does not wake the task finds it unregistered. *)
LEMMA Unheard ==
  ASSUME TypeOK, NEW s, Notify(s), ~woken'
  PROVE  ~woken /\ s \notin registered /\ registered' = registered
  BY DEF Notify

LEMMA WakeUser == ASSUME TypeOK, WakeInv, UserTurn PROVE WakeInv'
<1>1. UNCHANGED <<pc, should_shut_down, server_handler, transport_rx, rx_end, pending_payload,
                  transport_tx, tx_broken, server_response_rx>>
  BY UserFrame DEF should_shut_down
<1>2. CASE UNCHANGED taskVars /\ UNCHANGED client_handle_rx /\ (StrongOpen => StrongOpen')
  BY <1>1, <1>2 DEF WakeInv, HeardSoFar, ServerHeard, RxHeard, LeftoverHeard, MessagesHeard,
                    SinkHeard, SinkFull, SinkFlushing, AsleepClosing
<1>3. CASE Notify("strong")
  <2> SUFFICES ASSUME ~woken' PROVE WakeInv'
    BY <1>1 DEF WakeInv
  <2>1. ~woken /\ "strong" \notin registered /\ registered' = registered
    BY <1>3, Unheard
  <2>2. HeardSoFar /\ pc \in {"flush", "idle"} => pending_payload # << >>
    BY <2>1 DEF HeardSoFar, MessagesHeard
  <2> QED BY <1>1, <2>1, <2>2 DEF WakeInv, HeardSoFar, ServerHeard, RxHeard, LeftoverHeard,
                                  MessagesHeard, SinkHeard, SinkFull, SinkFlushing, AsleepClosing
<1>4. CASE Dropped
  BY <1>1, <1>4 DEF WakeInv, HeardSoFar, Dropped
<1>5. ASSUME ~Dropped
      PROVE  \/ UNCHANGED taskVars /\ UNCHANGED client_handle_rx /\ (StrongOpen => StrongOpen')
             \/ Notify("strong")
  <2>1. CASE DropHandle
    BY <2>1 DEF DropHandle, SendersMayHaveGone
  <2>2. ASSUME NEW m \in Outgoing, Invoke(m) PROVE StrongOpen'
    BY <2>2 DEF Invoke, StrongOpen
  <2>3. ASSUME NEW m \in Outgoing, NEW held, Resolve(m, held) PROVE StrongOpen => StrongOpen'
    BY <2>3 DEF Resolve, Become, StrongOpen, OwnsSender, TypeOK, HandleType
  <2>4. ASSUME NEW m \in Outgoing, Reject(m) \/ Sent(m) \/ Abandon(m)
        PROVE  \/ UNCHANGED taskVars /\ UNCHANGED client_handle_rx /\ StrongOpen'
               \/ Notify("strong")
    BY <2>4 DEF Reject, Sent, Abandon, SendersMayHaveGone
  <2>5. ASSUME NEW m \in Outgoing, Send(m) PROVE Notify("strong")
    BY <1>5, <2>5 DEF Send
  <2> QED BY <2>1, <2>2, <2>3, <2>4, <2>5 DEF UserTurn, User, UserStep, Invoke, Resolve
<1> QED BY <1>2, <1>3, <1>4, <1>5

LEMMA WakeTransport == ASSUME TypeOK, WakeInv, TransportTurn PROVE WakeInv'
<1>1. UNCHANGED <<pc, should_shut_down, server_handler, pending_payload, client_handle_rx,
                  StrongOpen, server_response_rx>>
  BY DEF TransportTurn, should_shut_down, StrongOpen, OwnsSender
<1>2. SUFFICES ASSUME ~woken' PROVE WakeInv'
  BY <1>1 DEF WakeInv
<1>3. CASE Deliver \/ BreakSink
  <2>1. ~woken /\ "tx" \notin registered /\ registered' = registered
    BY <1>2, <1>3, Unheard DEF Deliver, BreakSink
  <2>2. UNCHANGED <<transport_rx, rx_end>>
    BY <1>3 DEF Deliver, BreakSink
  <2>3. /\ HeardSoFar /\ pc \in {"server", "rx", "outgoing", "flush", "idle"} =>
             pending_payload = << >>
        /\ HeardSoFar /\ pc = "idle" => transport_tx = << >>
    BY <2>1 DEF HeardSoFar, LeftoverHeard, SinkHeard
  <2>4. transport_tx = << >> => transport_tx' = << >>
    BY <1>3 DEF Deliver, BreakSink, SinkFlushing
  <2> QED BY <1>1, <2>1, <2>2, <2>3, <2>4
          DEF WakeInv, HeardSoFar, ServerHeard, RxHeard, LeftoverHeard, MessagesHeard,
              SinkHeard, AsleepClosing
<1>4. CASE Notify("rx") /\ UNCHANGED sinkVars
  <2>1. ~woken /\ "rx" \notin registered /\ registered' = registered
    BY <1>2, <1>4, Unheard
  <2>2. HeardSoFar => pc \notin {"outgoing", "flush", "idle"}
    BY <2>1 DEF HeardSoFar, RxHeard
  <2> QED BY <1>1, <1>4, <2>1, <2>2
          DEF WakeInv, HeardSoFar, ServerHeard, LeftoverHeard, SinkFull, SinkFlushing, AsleepClosing
<1>5. Deliver \/ BreakSink \/ (Notify("rx") /\ UNCHANGED sinkVars)
  BY DEF TransportTurn, TransportNext, EndStream, Reply, ReplyAgain, ReplyToNobody, SendInvalid,
         Ask, Arrive
<1> QED BY <1>3, <1>4, <1>5

LEMMA WakeHandler == ASSUME TypeOK, WakeInv, HandlerTurn PROVE WakeInv'
<1>1. UNCHANGED <<pc, should_shut_down, pending_payload, client_handle_rx, StrongOpen,
                  transport_rx, rx_end, transport_tx, tx_broken, SinkFull, SinkFlushing>>
  BY DEF HandlerTurn, should_shut_down, StrongOpen, OwnsSender, SinkFull, SinkFlushing
<1>2. server_handler = "ended" => server_handler' = "ended"
  BY DEF HandlerTurn, Handler, HandlerRespond, HandlerStops
<1>3. SUFFICES ASSUME ~woken' PROVE WakeInv'
  BY <1>1, <1>2 DEF WakeInv
<1>4. CASE Notify("weak") /\ UNCHANGED server_handler
  <2>1. ~woken /\ "weak" \notin registered /\ registered' = registered
    BY <1>3, <1>4, Unheard
  <2>2. HeardSoFar /\ pc \in {"flush", "idle"} => pending_payload # << >>
    BY <2>1 DEF HeardSoFar, MessagesHeard
  <2> QED BY <1>1, <1>2, <2>1, <2>2
          DEF WakeInv, HeardSoFar, ServerHeard, RxHeard, LeftoverHeard, MessagesHeard, SinkHeard,
              AsleepClosing
<1>5. CASE Notify("server") /\ UNCHANGED server_response_rx
  <2>1. ~woken /\ "server" \notin registered /\ registered' = registered
    BY <1>3, <1>5, Unheard
  <2>2. HeardSoFar /\ pc \in {"rx", "outgoing", "flush", "idle"} => should_shut_down
    BY <2>1 DEF HeardSoFar, ServerHeard
  <2> QED BY <1>1, <1>2, <1>5, <2>1, <2>2
          DEF WakeInv, HeardSoFar, ServerHeard, RxHeard, LeftoverHeard, MessagesHeard, SinkHeard,
              AsleepClosing
<1>6. \/ Notify("weak") /\ UNCHANGED server_handler
      \/ Notify("server") /\ UNCHANGED server_response_rx
  BY DEF HandlerTurn, Handler, HandlerRespond, HandlerStops
<1> QED BY <1>4, <1>5, <1>6

(* A part of the poll that finds nothing wrong leaves things as they are.  *)
LEMMA ReturnOk ==
  ASSUME TypeOK, NEW next, Return("ok", next)
  PROVE  pc' = next /\ UNCHANGED errorVars /\ should_shut_down' = should_shut_down
<1>1. pc' = next /\ UNCHANGED errorVars
  BY DEF Return, FatalErrors, TypeOK, StateType, errorVars
<1> QED BY <1>1 DEF should_shut_down, errorVars

(* A part of the poll that fails hands over to handle_shutdown; of one     *)
(* that does not, it is enough to know what it leaves to be heard of.      *)
LEMMA WakeReturn ==
  ASSUME TypeOK, WakeInv, pc \in {"leftover", "server", "rx", "outgoing", "flush"},
         NEW res \in Results, NEW next \in {"server", "rx", "outgoing", "flush", "idle"},
         Return(res, next), server_handler = "ended" => server_handler' = "ended",
         res = "ok" /\ ~woken' => HeardSoFar'
  PROVE  WakeInv'
<1>1. CASE res = "ok"
  BY <1>1, ReturnOk DEF WakeInv
<1>2. CASE res # "ok"
  <2>1. pc' = "shutdown_rx"
    BY <1>2 DEF Return
  <2> QED BY <2>1 DEF WakeInv, HeardSoFar
<1> QED BY <1>1, <1>2

(* send_payload leaves a payload behind only when the sink will tell.      *)
LEMMA SendHeard ==
  ASSUME TypeOK, NEW p, NEW next, send_payload(p, next), UNCHANGED tx_broken
  PROVE  /\ \E res \in {"ok", "TransportError"} : Return(res, next) /\ (res = "ok" => LeftoverHeard')
         /\ registered \subseteq registered'
<1>1. CASE SinkReady /\ pending_payload' = Taken /\ UNCHANGED registered /\ Return("ok", next)
  BY <1>1 DEF Taken, LeftoverHeard
<1>2. CASE SinkFull /\ Register({"tx"}) /\ UNCHANGED transport_tx /\ Return("ok", next)
  BY <1>2 DEF LeftoverHeard, SinkFull
<1>3. CASE UNCHANGED registered /\ Return("TransportError", next)
  BY <1>3
<1> QED BY <1>1, <1>2, <1>3 DEF send_payload

LEMMA WakeLeftover == ASSUME TypeOK, WakeInv, SendLeftover PROVE WakeInv'
<1>1. pc = "leftover" /\ UNCHANGED <<woken, server_handler, tx_broken>>
  BY DEF SendLeftover
<1>2. CASE pending_payload = << >> /\ UNCHANGED <<pending_payload, errorVars>> /\ pc' = "server"
  BY <1>1, <1>2 DEF WakeInv, HeardSoFar, LeftoverHeard, should_shut_down
<1>3. ASSUME NEW p, send_payload(p, "server") PROVE WakeInv'
  <2>1. PICK res \in {"ok", "TransportError"} : Return(res, "server") /\ (res = "ok" => LeftoverHeard')
    BY <1>1, <1>3, SendHeard
  <2>2. res = "ok" => HeardSoFar'
    BY <2>1, ReturnOk DEF HeardSoFar
  <2> QED BY <1>1, <2>1, <2>2, WakeReturn DEF Results, FatalErrors
<1> QED BY <1>2, <1>3 DEF SendLeftover

LEMMA WakeOutgoing == ASSUME TypeOK, WakeInv, PollOutgoing PROVE WakeInv'
<1>1. /\ pc = "outgoing" /\ pending_payload = << >>
      /\ UNCHANGED <<woken, server_handler, tx_broken, transport_rx, rx_end, handle, fut>>
  BY DEF PollOutgoing, MayTakeMessage
<1>2. ~woken => (should_shut_down \/ ServerHeard) /\ RxHeard
  BY <1>1 DEF WakeInv, HeardSoFar
<1>3. ASSUME NEW p, send_payload(p, "outgoing") PROVE WakeInv'
  <2>1. PICK res \in {"ok", "TransportError"} :
          Return(res, "outgoing") /\ (res = "ok" => LeftoverHeard')
    BY <1>1, <1>3, SendHeard
  <2>2. registered \subseteq registered'
    BY <1>1, <1>3, SendHeard
  <2>3. res = "ok" /\ ~woken' => HeardSoFar'
    BY <1>1, <1>2, <2>1, <2>2, ReturnOk DEF HeardSoFar, ServerHeard, RxHeard
  <2> QED BY <1>1, <2>1, <2>3, WakeReturn DEF Results, FatalErrors
<1>4. CASE /\ outgoing_payload_rx!NotReady /\ Register({"strong", "weak"}) /\ Return("ok", "flush")
           /\ UNCHANGED pending_payload
  <2>1. client_handle_rx' = << >> /\ StrongOpen'
    BY <1>1, <1>4 DEF outgoing_payload_rx!NotReady, outgoing_payload_rx!StrongIdle,
                      StrongOpen, OwnsSender
  <2>2. server_response_rx' = << >>
    BY <1>4 DEF outgoing_payload_rx!NotReady, outgoing_payload_rx!WeakItem, TypeOK, ServerType
  <2>3. ~woken' => HeardSoFar'
    BY <1>1, <1>2, <1>4, <2>1, <2>2, ReturnOk
    DEF HeardSoFar, ServerHeard, RxHeard, LeftoverHeard, MessagesHeard
  <2> QED BY <1>1, <1>4, <2>3, WakeReturn DEF Results
<1>5. CASE Return("Shutdown", "flush")
  BY <1>1, <1>5, WakeReturn DEF Results
<1> QED BY <1>3, <1>4, <1>5 DEF PollOutgoing, TakeCall, TakeNote

LEMMA WakeHandleRx == ASSUME TypeOK, WakeInv, HandleTransportRxPayload PROVE WakeInv'
<1>1. /\ pc \in {"rx", "shutdown_rx"} /\ DrainOn = pc
      /\ UNCHANGED <<taskVars, pending_payload, sinkVars>>
      /\ server_handler = "ended" => server_handler' = "ended"
  BY DEF HandleTransportRxPayload, DrainOn, handle_response, process_request
<1>2. PICK res \in Results : RxReturn(res, DrainOn)
  BY DEF HandleTransportRxPayload, handle_response, process_request, Results, FatalErrors,
         HandlerErrors
<1>3. CASE pc = "rx"
  <2>1. Return(res, "rx")
    BY <1>1, <1>2, <1>3 DEF RxReturn
  <2>2. res = "ok" /\ ~woken' => HeardSoFar'
    BY <1>1, <1>3, <2>1, ReturnOk DEF WakeInv, HeardSoFar, ServerHeard, LeftoverHeard, SinkFull
  <2> QED BY <1>1, <1>3, <2>1, <2>2, WakeReturn
<1>4. CASE pc = "shutdown_rx"
  BY <1>1, <1>2, <1>4 DEF RxReturn, WakeInv, HeardSoFar
<1> QED BY <1>1, <1>3, <1>4

LEMMA WakeQuiet == ASSUME TypeOK, WakeInv, EndInv, QuietStep PROVE WakeInv'
<1>1. UNCHANGED <<handle, fut, client_handle_rx, transportVars, pending_payload, serverVars>>
  BY QuietStepFrame
<1> USE DEF HeardSoFar, ServerHeard, RxHeard, LeftoverHeard, MessagesHeard, SinkHeard, SinkFull,
            StrongOpen, OwnsSender
<1>2. CASE Poll
  BY <1>2 DEF Poll, WakeInv, should_shut_down
<1>3. CASE PollServer
  <2>1. CASE server_handler = "ended" /\ shutting_down' = TRUE /\ pc' = "rx"
    BY <1>1, <1>3, <2>1 DEF PollServer, WakeInv, should_shut_down
  <2>2. CASE Register({"server"}) /\ Return("ok", "rx")
    <3>1. ~woken' => HeardSoFar'
      BY <1>1, <1>3, <2>2, ReturnOk DEF PollServer, WakeInv
    <3> QED BY <1>1, <1>3, <2>2, <3>1, WakeReturn DEF PollServer, Results
  <2>3. ASSUME NEW kind \in HandlerErrors, Return(kind, "rx") PROVE WakeInv'
    BY <1>1, <1>3, <2>3, WakeReturn DEF PollServer, Results, FatalErrors, HandlerErrors
  <2> QED BY <1>3, <2>1, <2>2, <2>3 DEF PollServer
<1>4. CASE TransportRxDrained
  <2>1. PICK res \in Results :
          RxReturn(res, AfterRx) /\ (res = "ok" => rx_end = "open" /\ Register({"rx"}))
    BY <1>4 DEF TransportRxDrained, Results, FatalErrors
  <2>2. CASE pc = "rx"
    <3>1. Return(res, "outgoing")
      BY <2>1, <2>2 DEF RxReturn, AfterRx
    <3>2. res = "ok" /\ ~woken' => HeardSoFar'
      BY <1>1, <1>4, <2>1, <2>2, <3>1, ReturnOk DEF TransportRxDrained, WakeInv
    <3> QED BY <1>1, <2>2, <3>1, <3>2, WakeReturn
  <2>3. CASE pc = "shutdown_rx"
    BY <1>1, <2>1, <2>3 DEF RxReturn, AfterRx, WakeInv
  <2> QED BY <1>4, <2>2, <2>3 DEF TransportRxDrained
<1>5. CASE OutgoingMustWait
  BY <1>1, <1>5 DEF OutgoingMustWait, MayTakeMessage, WakeInv, should_shut_down
<1>6. CASE Flush
  <2>1. ASSUME Return("ok", "idle"), registered \subseteq registered',
               SinkFlushing => "tx" \in registered', ~tx_broken
        PROVE  WakeInv'
    <3>1. ~woken' => HeardSoFar'
      BY <1>1, <1>6, <2>1, ReturnOk DEF Flush, WakeInv, SinkFlushing
    <3> QED BY <1>1, <1>6, <2>1, <3>1, WakeReturn DEF Flush, Results
  <2>2. CASE Return("TransportError", "idle")
    BY <1>1, <1>6, <2>2, WakeReturn DEF Flush, Results, FatalErrors
  <2> QED BY <1>6, <2>1, <2>2 DEF Flush, SinkFlushing, SinkFlushed
<1>7. CASE Close
  <2>1. CASE pc' = "idle" /\ SinkFlushing /\ Register({"tx"}) /\ UNCHANGED fatal_error
    <3>1. should_shut_down' /\ AsleepClosing'
      BY <1>1, <1>7, <2>1 DEF Close, EndInv, should_shut_down, AsleepClosing, SinkFlushing
    <3> QED BY <2>1, <3>1 DEF WakeInv
  <2>2. CASE pc' = "resolved"
    BY <2>2 DEF WakeInv
  <2> QED BY <1>7, <2>1, <2>2 DEF Close
<1> QED BY <1>2, <1>3, <1>4, <1>5, <1>6, <1>7 DEF QuietStep

(* The client never sleeps while there is something it should do: not when *)
(* it serves, not when it closes, and not in the one sleep between the end *)
(* of its server handler and its own (Client::poll, poll_server).          *)
THEOREM NoLostWakeupHolds == Spec => []NoLostWakeup
<1>1. Init => WakeInv
  BY DEF Init, TaskInit, WakeInv, should_shut_down
<1>2. TypeOK /\ EndInv /\ WakeInv /\ [Next]_vars => WakeInv'
  <2> SUFFICES ASSUME TypeOK, EndInv, WakeInv, [Next]_vars PROVE WakeInv'
    OBVIOUS
  <2>1. CASE DropClient
    BY <2>1 DEF DropClient, WakeInv, HeardSoFar
  <2>2. CASE UNCHANGED vars
    BY <2>2 DEF WakeInv, HeardSoFar, ServerHeard, RxHeard, LeftoverHeard, MessagesHeard, SinkHeard,
                SinkFull, SinkFlushing, AsleepClosing, StrongOpen, OwnsSender, should_shut_down
  <2> QED BY <2>1, <2>2, WakeLeftover, WakeOutgoing, WakeHandleRx, WakeQuiet, WakeUser,
             WakeTransport, WakeHandler, NextCases
<1>3. WakeInv => NoLostWakeup
  BY DEF WakeInv, NoLostWakeup, AsleepServing, HeardSoFar, ServerHeard, RxHeard, LeftoverHeard,
         MessagesHeard, SinkHeard
<1> QED BY <1>1, <1>2, <1>3, TypeCorrect, EndInvHolds, PTL DEF Spec

-----------------------------------------------------------------------------
(* Payloads reach the sink once and in order                               *)

\* What OnceAndInOrder says of Wire.
Ordered(w) ==
  \A i, j \in DOMAIN w : i < j =>
    /\ w[i].body # w[j].body
    /\ w[i].id > 0 /\ w[j].id > 0 => w[i].id < w[j].id

(* A payload of a new message with the highest id may be added at the end. *)
LEMMA OrderedAppend ==
  ASSUME NEW w \in Seq(Payload), NEW p \in Payload, Ordered(w),
         \A q \in ToSet(w) : q.body # p.body /\ (q.id > 0 /\ p.id > 0 => q.id < p.id)
  PROVE  Ordered(Append(w, p))
<1> DEFINE n == Len(w)
           v == Append(w, p)
<1>1. /\ n \in Nat /\ DOMAIN w = 1..n /\ DOMAIN v = 1..(n + 1)
      /\ v[n + 1] = p /\ \A i \in 1..n : v[i] = w[i] /\ w[i] \in ToSet(w)
  BY DEF ToSet
<1> HIDE DEF v, n
<1>2. ASSUME NEW i \in 1..(n + 1), NEW j \in 1..(n + 1), i < j
      PROVE  /\ v[i].body # v[j].body
             /\ v[i].id > 0 /\ v[j].id > 0 => v[i].id < v[j].id
  <2>1. i \in 1..n
    BY <1>1, <1>2
  <2>2. CASE j = n + 1
    BY <1>1, <2>1, <2>2
  <2>3. CASE j \in 1..n
    BY <1>1, <1>2, <2>1, <2>3 DEF Ordered
  <2> QED BY <1>1, <1>2, <2>2, <2>3
<1>3. Ordered(v)
  BY <1>1, <1>2 DEF Ordered
<1> QED BY <1>3 DEF v

(* Losing the end of the wire keeps the rest in order.                     *)
LEMMA OrderedPrefix ==
  ASSUME NEW w \in Seq(Payload), NEW t \in Seq(Payload), Ordered(w \o t)
  PROVE  Ordered(w)
<1>1. /\ Len(w) \in Nat /\ Len(t) \in Nat /\ DOMAIN w = 1..Len(w)
      /\ DOMAIN (w \o t) = 1..(Len(w) + Len(t))
      /\ \A i \in 1..Len(w) : (w \o t)[i] = w[i]
  OBVIOUS
<1>2. DOMAIN w \subseteq DOMAIN (w \o t)
  BY <1>1
<1> QED BY <1>1, <1>2 DEF Ordered

\* A step leaves the wire as it is, up to what is lost at its end.
Shortens == \E t \in Seq(Payload) : Wire = Wire' \o t

LEMMA SendAppends ==
  ASSUME TypeOK, NEW p \in Payload, NEW next, send_payload(p, next), UNCHANGED delivered
  PROVE  \/ Wire' = Append(delivered \o transport_tx, p)
         \/ Wire' = delivered \o transport_tx
<1>1. delivered \in Seq(Payload) /\ transport_tx \in Seq(Payload)
      /\ delivered \o transport_tx \in Seq(Payload)
  BY DEF TypeOK, SinkType
<1>2. CASE transport_tx' = Append(transport_tx, p) /\ pending_payload' = << >>
  <2>1. Append(transport_tx, p) \in Seq(Payload)
    BY <1>1
  <2>2. Wire' = delivered \o Append(transport_tx, p)
    BY <1>1, <1>2, <2>1, ConcatEmptySeq DEF Wire
  <2> QED BY <1>1, <2>2, AppendLast
<1>3. CASE transport_tx' = transport_tx /\ pending_payload' = <<p>>
  <2>1. Wire' = (delivered \o transport_tx) \o <<p>>
    BY <1>3 DEF Wire
  <2> QED BY <1>1, <2>1, AppendLast
<1>4. CASE transport_tx' = transport_tx /\ pending_payload' = << >>
  BY <1>1, <1>4, ConcatEmptySeq DEF Wire
<1> QED BY <1>2, <1>3, <1>4 DEF send_payload, Kept, Taken

LEMMA WireShortens ==
  ASSUME TypeOK, TypeOK', [Next]_vars, ~PollOutgoing
  PROVE  Shortens /\ Wire' \in Seq(Payload)
<1>1. /\ delivered \in Seq(Payload) /\ transport_tx \in Seq(Payload)
      /\ pending_payload \in Seq(Payload) /\ Len(pending_payload) <= 1
      /\ Wire \in Seq(Payload) /\ delivered \o transport_tx \in Seq(Payload)
  BY WireMembers DEF TypeOK, SinkType
<1>2. Wire' \in Seq(Payload)
  <2>1. /\ delivered' \in Seq(Payload) /\ transport_tx' \in Seq(Payload)
        /\ pending_payload' \in Seq(Payload)
    BY DEF TypeOK, SinkType
  <2>2. delivered' \o transport_tx' \in Seq(Payload)
    BY <2>1
  <2> QED BY <2>1, <2>2 DEF Wire
<1> SUFFICES Shortens
  BY <1>2
<1>3. ASSUME Wire' = Wire PROVE Shortens
  <2>1. Wire = Wire' \o << >> /\ << >> \in Seq(Payload)
    BY <1>1, <1>3, ConcatEmptySeq
  <2> QED BY <2>1 DEF Shortens
<1>4. CASE SendLeftover
  <2>1. CASE UNCHANGED <<transport_tx, pending_payload>>
    BY <1>3, <1>4, <2>1 DEF SendLeftover, Wire
  <2>2. ASSUME NEW i \in DOMAIN pending_payload, send_payload(pending_payload[i], "server")
        PROVE  Shortens
    <3> DEFINE p == pending_payload[i]
    <3>1. p \in Payload /\ pending_payload = <<p>>
      BY <1>1, OneItem
    <3> HIDE DEF p
    <3>2. Wire = Append(delivered \o transport_tx, p)
      BY <1>1, <3>1, AppendLast DEF Wire
    <3>3. CASE Wire' = Append(delivered \o transport_tx, p)
      BY <1>3, <3>2, <3>3
    <3>4. CASE Wire' = delivered \o transport_tx
      <4>1. Wire = Wire' \o <<p>> /\ <<p>> \in Seq(Payload)
        BY <1>1, <3>1, <3>2, <3>4, AppendLast
      <4> QED BY <4>1 DEF Shortens
    <3> QED BY <1>4, <2>2, <3>1, <3>3, <3>4, SendAppends DEF SendLeftover, p
  <2> QED BY <1>4, <2>1, <2>2 DEF SendLeftover
<1>5. CASE DropClient
  <2>1. Wire' = delivered
    BY <1>1, <1>5, ConcatEmptySeq DEF DropClient, Wire
  <2>2. Wire = delivered \o (transport_tx \o pending_payload)
    BY <1>1, ConcatAssociative DEF Wire
  <2>3. transport_tx \o pending_payload \in Seq(Payload)
    BY <1>1
  <2> QED BY <2>1, <2>2, <2>3 DEF Shortens
<1>6. CASE TransportTurn
  <2>1. CASE Deliver
    <3>1. transport_tx # << >>
      BY <2>1 DEF Deliver, SinkFlushing
    <3>2. Append(delivered, Head(transport_tx)) \o Tail(transport_tx) = delivered \o transport_tx
      BY <1>1, <3>1, MoveHead
    <3>3. Wire' = Wire
      BY <1>6, <2>1, <3>2 DEF Deliver, TransportTurn, Wire
    <3> QED BY <1>3, <3>3
  <2>2. CASE UNCHANGED <<delivered, transport_tx>>
    BY <1>3, <1>6, <2>2 DEF TransportTurn, Wire
  <2> QED BY <1>6, <2>1, <2>2 DEF TransportTurn, TransportNext, BreakSink, EndStream, Reply,
                                  ReplyAgain, ReplyToNobody, SendInvalid, Ask, Arrive
<1>7. CASE QuietStep \/ HandleTransportRxPayload \/ UserTurn \/ HandlerTurn \/ UNCHANGED vars
  <2>1. UNCHANGED <<delivered, transport_tx, pending_payload>>
    BY <1>7, QuietStepFrame, UserFrame DEF HandleTransportRxPayload, HandlerTurn
  <2> QED BY <1>3, <2>1 DEF Wire
<1> QED BY <1>4, <1>5, <1>6, <1>7, NextCases

LEMMA ShorterWire ==
  ASSUME TypeOK, TypeOK', [Next]_vars, ~PollOutgoing, OnceAndInOrder
  PROVE  OnceAndInOrder' /\ WireSet' \subseteq WireSet
<1>1. PICK t \in Seq(Payload) : Wire = Wire' \o t
  BY WireShortens DEF Shortens
<1>2. Wire' \in Seq(Payload)
  BY WireShortens
<1>3. Ordered(Wire' \o t)
  BY <1>1 DEF OnceAndInOrder, Ordered
<1>4. Ordered(Wire')
  BY <1>2, <1>3, OrderedPrefix
<1>5. ToSet(Wire) = ToSet(Wire') \cup ToSet(t)
  BY <1>1, <1>2, ToSetConcat
<1>6. ToSet(Wire) = WireSet /\ (ToSet(Wire) = WireSet)'
  <2>1. ToSet(Wire) = WireSet
    BY WireMembers
  <2>2. (ToSet(Wire) = WireSet)'
    <3>1. /\ delivered' \in Seq(Payload) /\ transport_tx' \in Seq(Payload)
          /\ pending_payload' \in Seq(Payload)
      BY DEF TypeOK, SinkType
    <3> QED BY <3>1, ToSetConcatThree DEF Wire, WireSet
  <2> QED BY <2>1, <2>2
<1> QED BY <1>4, <1>5, <1>6 DEF OnceAndInOrder, Ordered

WireBodies == {p.body : p \in WireSet}

\* The future of a message that was never sent.
Unsent == {"none", "created", "rejected"}

\* A message of the users is at one place at most: not sent yet, in the
\* channel, or on the wire.
MessagesOnce ==
  /\ IsInjective(client_handle_rx)
  /\ \A m \in ToSet(client_handle_rx) : fut[m] \notin Unsent /\ m \notin WireBodies
  /\ \A m \in Outgoing \cap WireBodies : fut[m] \notin Unsent

LEMMA MessagesFrame ==
  ASSUME MessagesOnce, UNCHANGED <<client_handle_rx, fut>>, WireSet' \subseteq WireSet
  PROVE  MessagesOnce'
<1>1. WireBodies' \subseteq WireBodies
  BY DEF WireBodies
<1> QED BY <1>1 DEF MessagesOnce, IsInjective

LEMMA MessagesUser == ASSUME TypeOK, MessagesOnce, UserTurn PROVE MessagesOnce'
<1>1. UNCHANGED WireBodies
  BY UserFrame DEF WireBodies, WireSet
<1>2. client_handle_rx \in Seq(Outgoing)
  BY DEF TypeOK, HandleType
<1>3. \A m \in Outgoing : fut'[m] \in Unsent => fut[m] \in Unsent
  BY DEF UserTurn, User, UserStep, Invoke, Reject, Send, Sent, Resolve, Abandon, DropHandle, Become,
         TypeOK, HandleType, Unsent
<1>4. CASE UNCHANGED client_handle_rx
  <2>1. \A m \in ToSet(client_handle_rx) : m \in Outgoing
    BY <1>2 DEF ToSet
  <2> QED BY <1>1, <1>3, <1>4, <2>1 DEF MessagesOnce, IsInjective
<1>5. ASSUME NEW x \in Outgoing, Send(x), client_handle_rx' = Append(client_handle_rx, x)
      PROVE  MessagesOnce'
  <2>1. fut[x] = "created" /\ fut'[x] \notin Unsent /\ fut[x] \in Unsent
    BY <1>5 DEF Send, Become, TypeOK, HandleType, Unsent
  <2>2. x \notin ToSet(client_handle_rx) /\ x \notin WireBodies
    BY <2>1 DEF MessagesOnce
  <2>3. IsInjective(client_handle_rx')
    BY <1>2, <1>5, <2>2, InjectiveAppend DEF MessagesOnce
  <2>4. ToSet(client_handle_rx') = ToSet(client_handle_rx) \cup {x}
    BY <1>2, <1>5, ToSetAppend
  <2>5. \A m \in ToSet(client_handle_rx) : m \in Outgoing
    BY <1>2 DEF ToSet
  <2> QED BY <1>1, <1>3, <2>1, <2>2, <2>3, <2>4, <2>5 DEF MessagesOnce
<1> QED BY <1>4, <1>5 DEF UserTurn, User, UserStep, Invoke, Reject, Send, Sent, Resolve, Abandon,
                          DropHandle

\* So is a request of the peer: not made yet, in the stream, with the
\* handler, in the channel of its response, or on the wire as a response.
RequestAt(i) == transport_rx[i].kind = "request"
InStream == {transport_rx[i].body : i \in {j \in DOMAIN transport_rx : RequestAt(j)}}
RequestsOnce ==
  /\ \A i, j \in DOMAIN transport_rx :
       RequestAt(i) /\ RequestAt(j) /\ transport_rx[i].body = transport_rx[j].body => i = j
  /\ IsInjective(server_response_rx)
  /\ InStream \cap (handling \cup ToSet(server_response_rx) \cup WireBodies) = {}
  /\ handling \cap (ToSet(server_response_rx) \cup WireBodies) = {}
  /\ ToSet(server_response_rx) \cap WireBodies = {}
  /\ InStream \cup handling \cup ToSet(server_response_rx) \cup (Requests \cap WireBodies)
       \subseteq asked

LEMMA RequestsFrame ==
  ASSUME RequestsOnce, UNCHANGED <<transport_rx, handling, server_response_rx, asked>>,
         WireSet' \subseteq WireSet
  PROVE  RequestsOnce'
<1>1. WireBodies' \subseteq WireBodies /\ InStream' = InStream
  BY DEF WireBodies, InStream, RequestAt
<1> QED BY <1>1 DEF RequestsOnce, IsInjective, RequestAt

(* A message comes in: nothing is added to the stream but a new request.   *)
LEMMA RequestsArrive ==
  ASSUME TypeOK, RequestsOnce, NEW msg \in Incoming, Arrive(msg),
         UNCHANGED <<handling, server_response_rx, WireSet>>,
         IF msg.kind = "request" THEN msg.body \notin asked /\ asked' = asked \cup {msg.body}
                                 ELSE UNCHANGED asked
  PROVE  RequestsOnce'
<1> DEFINE n == Len(transport_rx)
<1>1. /\ n \in Nat /\ DOMAIN transport_rx = 1..n /\ DOMAIN transport_rx' = 1..(n + 1)
      /\ transport_rx'[n + 1] = msg /\ \A i \in 1..n : transport_rx'[i] = transport_rx[i]
  BY DEF TypeOK, StreamType, Arrive
<1> HIDE DEF n
<1>2. InStream' = IF msg.kind = "request" THEN InStream \cup {msg.body} ELSE InStream
  <2>1. ASSUME NEW x, x \in InStream' PROVE x \in InStream \/ (msg.kind = "request" /\ x = msg.body)
    BY <1>1, <2>1 DEF InStream, RequestAt
  <2>2. InStream \subseteq InStream'
    BY <1>1 DEF InStream, RequestAt
  <2>3. msg.kind = "request" => msg.body \in InStream'
    BY <1>1 DEF InStream, RequestAt
  <2> QED BY <2>1, <2>2, <2>3
<1>3. UNCHANGED WireBodies
  BY DEF WireBodies
<1>4. ASSUME NEW i \in 1..n, RequestAt(i) PROVE transport_rx[i].body \in asked
  BY <1>1, <1>4 DEF RequestsOnce, InStream
<1>5. ASSUME NEW i \in 1..(n + 1), NEW j \in 1..(n + 1), RequestAt(i)', RequestAt(j)',
             transport_rx'[i].body = transport_rx'[j].body
      PROVE  i = j
  <2>1. CASE i \in 1..n /\ j \in 1..n
    BY <1>1, <1>5, <2>1 DEF RequestsOnce, RequestAt
  <2>2. CASE i = n + 1 /\ j \in 1..n
    BY <1>1, <1>4, <1>5, <2>2 DEF RequestAt
  <2>3. CASE i \in 1..n /\ j = n + 1
    BY <1>1, <1>4, <1>5, <2>3 DEF RequestAt
  <2> QED BY <1>1, <2>1, <2>2, <2>3
<1>6. CASE msg.kind = "request"
  <2>1. msg.body \in Requests
    BY <1>6 DEF Incoming
  <2>2. msg.body \notin handling \cup ToSet(server_response_rx) \cup WireBodies
    BY <1>6, <2>1 DEF RequestsOnce
  <2> QED BY <1>1, <1>2, <1>3, <1>5, <1>6, <2>2 DEF RequestsOnce
<1>7. CASE msg.kind # "request"
  BY <1>1, <1>2, <1>3, <1>5, <1>7 DEF RequestsOnce
<1> QED BY <1>6, <1>7

(* A message is taken out of a stream: a response or a message that is not *)
(* JSON-RPC is gone, a request may go to the handler.                      *)
LEMMA RequestsHandle ==
  ASSUME TypeOK, RequestsOnce, HandleTransportRxPayload PROVE RequestsOnce'
<1> DEFINE n == Len(transport_rx)
           msg == Head(transport_rx)
<1>1. /\ n \in Nat /\ n > 0 /\ DOMAIN transport_rx = 1..n /\ DOMAIN transport_rx' = 1..(n - 1)
      /\ msg = transport_rx[1] /\ \A i \in 1..(n - 1) : transport_rx'[i] = transport_rx[i + 1]
  BY DEF TypeOK, StreamType, HandleTransportRxPayload
<1>2. UNCHANGED <<server_response_rx, asked, WireBodies>>
  BY DEF HandleTransportRxPayload, WireBodies, WireSet
<1>3. msg \in Incoming
  BY <1>1 DEF TypeOK, StreamType
<1>4. /\ msg.kind = "request" => handling' \subseteq handling \cup {msg.body}
      /\ msg.kind # "request" => handling' = handling
  BY <1>3 DEF HandleTransportRxPayload, handle_response, process_request
<1>5. UNCHANGED <<server_response_rx, asked, WireBodies>>
  BY <1>2
<1> HIDE DEF n, msg
<1>6. \A i \in 1..(n - 1) : i + 1 \in 1..n /\ i + 1 # 1
  BY <1>1
<1>7. InStream' \subseteq InStream
  BY <1>1, <1>6 DEF InStream, RequestAt
<1>8. 1 \in 1..n
  BY <1>1
<1>9. msg.kind = "request" => msg.body \in InStream /\ msg.body \notin InStream'
  <2> SUFFICES ASSUME msg.kind = "request" PROVE msg.body \in InStream /\ msg.body \notin InStream'
    OBVIOUS
  <2>1. RequestAt(1) /\ transport_rx[1].body = msg.body
    BY <1>1 DEF RequestAt
  <2>2. ASSUME NEW i \in 1..(n - 1), RequestAt(i)' PROVE transport_rx'[i].body # msg.body
    BY <1>1, <1>6, <1>8, <2>1, <2>2 DEF RequestAt, RequestsOnce
  <2>3. msg.body \notin InStream'
    BY <1>1, <2>2 DEF InStream
  <2> QED BY <1>1, <1>8, <2>1, <2>3 DEF InStream
<1>10. ASSUME NEW i \in 1..(n - 1), NEW j \in 1..(n - 1), RequestAt(i)', RequestAt(j)',
              transport_rx'[i].body = transport_rx'[j].body
       PROVE  i = j
  <2>1. i + 1 = j + 1
    BY <1>1, <1>6, <1>10 DEF RequestsOnce, RequestAt
  <2> QED BY <2>1, <1>1
<1>11. CASE msg.kind = "request"
  BY <1>1, <1>2, <1>4, <1>7, <1>9, <1>10, <1>11 DEF RequestsOnce
<1>12. CASE msg.kind # "request"
  BY <1>1, <1>2, <1>4, <1>7, <1>10, <1>12 DEF RequestsOnce
<1> QED BY <1>11, <1>12

LEMMA RequestsTransport ==
  ASSUME TypeOK, RequestsOnce, TransportTurn, WireSet' \subseteq WireSet PROVE RequestsOnce'
<1>1. UNCHANGED <<handling, server_response_rx>>
  BY DEF TransportTurn
<1>2. CASE Deliver \/ BreakSink \/ \E end \in {"eof", "error"} : EndStream(end)
  BY <1>1, <1>2, RequestsFrame DEF Deliver, BreakSink, EndStream
<1>3. ASSUME NEW msg \in Incoming, Arrive(msg),
             IF msg.kind = "request" THEN msg.body \notin asked /\ asked' = asked \cup {msg.body}
                                     ELSE UNCHANGED asked
      PROVE  RequestsOnce'
  <2>1. UNCHANGED WireSet
    BY <1>3 DEF Arrive, TransportTurn, WireSet
  <2> QED BY <1>1, <1>3, <2>1, RequestsArrive
<1>4. ASSUME NEW k \in DOMAIN delivered, Reply(k) \/ ReplyAgain(k) PROVE RequestsOnce'
  <2>1. Answer(delivered[k]) \in Incoming /\ Answer(delivered[k]).kind = "response"
    <3>1. delivered[k] \in Payload /\ (delivered[k].id > 0 \/ delivered[k].id \in replied)
      BY <1>4 DEF TypeOK, SinkType, Reply, ReplyAgain
    <3>2. delivered[k].id # 0
      BY <3>1 DEF TypeOK, StreamType
    <3> QED BY <3>1, <3>2 DEF Payload, Answer, Incoming
  <2> QED BY <1>3, <1>4, <2>1 DEF Reply, ReplyAgain
<1>5. CASE ReplyToNobody \/ SendInvalid
  BY <1>3, <1>5 DEF ReplyToNobody, SendInvalid, Incoming
<1>6. ASSUME NEW r \in Requests, Ask(r) PROVE RequestsOnce'
  BY <1>3, <1>6 DEF Ask, Incoming
<1> QED BY <1>2, <1>4, <1>5, <1>6 DEF TransportTurn, TransportNext

(* The handler answers a request it owed a response.                       *)
LEMMA RequestsHandler == ASSUME TypeOK, RequestsOnce, HandlerTurn PROVE RequestsOnce'
<1>1. UNCHANGED <<transport_rx, asked, WireSet>>
  BY DEF HandlerTurn, WireSet
<1>2. CASE UNCHANGED <<handling, server_response_rx>>
  BY <1>1, <1>2, RequestsFrame
<1>3. ASSUME NEW r \in Requests, HandlerRespond(r) PROVE RequestsOnce'
  <2>1. server_response_rx \in Seq(Requests) /\ r \notin ToSet(server_response_rx)
    BY <1>3 DEF HandlerRespond, RequestsOnce, TypeOK, ServerType
  <2>2. ToSet(server_response_rx') = ToSet(server_response_rx) \cup {r}
    BY <1>3, <2>1, ToSetAppend DEF HandlerRespond
  <2>3. IsInjective(server_response_rx')
    BY <1>3, <2>1, InjectiveAppend DEF HandlerRespond, RequestsOnce
  <2>4. InStream' = InStream /\ WireBodies' = WireBodies
    BY <1>1 DEF InStream, RequestAt, WireBodies
  <2> QED BY <1>1, <1>3, <2>2, <2>3, <2>4 DEF HandlerRespond, RequestsOnce, RequestAt
<1> QED BY <1>2, <1>3 DEF HandlerTurn, Handler, HandlerStops

(* A new payload goes behind everything on the wire, or is lost.           *)
LEMMA WireGrows ==
  ASSUME TypeOK, TypeOK', OnceAndInOrder, pending_payload = << >>, UNCHANGED delivered,
         NEW p \in Payload, NEW next, send_payload(p, next), p.body \notin WireBodies,
         \A q \in WireSet : q.id > 0 /\ p.id > 0 => q.id < p.id
  PROVE  OnceAndInOrder' /\ WireBodies' \subseteq WireBodies \cup {p.body}
<1>1. delivered \o transport_tx \in Seq(Payload)
  BY DEF TypeOK, SinkType
<1>2. Wire = delivered \o transport_tx
  BY <1>1, ConcatEmptySeq DEF Wire
<1>3. Wire \in Seq(Payload) /\ ToSet(Wire) = WireSet
  BY WireMembers
<1>4. ToSet(Wire') = WireSet'
  <2>1. /\ delivered' \in Seq(Payload) /\ transport_tx' \in Seq(Payload)
        /\ pending_payload' \in Seq(Payload)
    BY DEF TypeOK, SinkType
  <2> QED BY <2>1, ToSetConcatThree DEF Wire, WireSet
<1>5. CASE Wire' = Append(Wire, p)
  <2>1. \A q \in ToSet(Wire) : q.body # p.body /\ (q.id > 0 /\ p.id > 0 => q.id < p.id)
    BY <1>3 DEF WireBodies
  <2>2. Ordered(Wire')
    BY <1>3, <1>5, <2>1, OrderedAppend DEF OnceAndInOrder, Ordered
  <2>3. WireSet' = WireSet \cup {p}
    BY <1>3, <1>4, <1>5, ToSetAppend
  <2> QED BY <2>2, <2>3 DEF OnceAndInOrder, Ordered, WireBodies
<1>6. CASE Wire' = Wire
  BY <1>3, <1>4, <1>6 DEF OnceAndInOrder, WireBodies
<1> QED BY <1>2, <1>5, <1>6, SendAppends

LEMMA OrderPollOutgoing ==
  ASSUME OwnInv, TypeOK', OnceAndInOrder, MessagesOnce, RequestsOnce, PollOutgoing
  PROVE  OnceAndInOrder' /\ MessagesOnce' /\ RequestsOnce'
<1>1. /\ TypeOK /\ pending_payload = << >>
      /\ UNCHANGED <<delivered, fut, transport_rx, handling, asked>>
  BY DEF OwnInv, PollOutgoing, MayTakeMessage
<1>2. asked \subseteq Requests /\ next_id \in Nat \ {0} /\ Requests \cap Outgoing = {}
  BY <1>1, KindsDiffer DEF TypeOK, StreamType, StateType, Outgoing
<1>3. InStream' = InStream
  BY <1>1 DEF InStream, RequestAt
<1>4. ASSUME NEW x \in Outgoing, outgoing_payload_rx!TakeStrong(x), NEW p \in Payload,
             p.body = x, p.id \in {0, next_id}, send_payload(p, "outgoing")
      PROVE  OnceAndInOrder' /\ MessagesOnce' /\ RequestsOnce'
  <2>1. /\ client_handle_rx \in Seq(Outgoing) /\ client_handle_rx # << >>
        /\ x = Head(client_handle_rx) /\ client_handle_rx' = Tail(client_handle_rx)
        /\ UNCHANGED server_response_rx
    BY <1>1, <1>4 DEF TypeOK, HandleType, outgoing_payload_rx!TakeStrong,
                      outgoing_payload_rx!StrongItem
  <2>2. x \in ToSet(client_handle_rx)
    BY <2>1, ToSetHeadTail
  <2>3. IsInjective(client_handle_rx') /\ ToSet(client_handle_rx') = ToSet(client_handle_rx) \ {x}
    BY <2>1, InjectiveTail DEF MessagesOnce
  <2>4. x \notin WireBodies /\ fut[x] \notin Unsent
    BY <2>2 DEF MessagesOnce
  <2>5. \A q \in WireSet : q.id > 0 /\ p.id > 0 => q.id < p.id
    <3>1. \A q \in WireSet : q.id > 0 => q \in Claims
      <4>1. \A q \in WireSet : q.id > 0 => q.id # 0
        OBVIOUS
      <4> QED BY <4>1 DEF WireSet, Claims
    <3>2. \A q \in WireSet : q.id > 0 => q.id < next_id
      BY <3>1 DEF OwnInv, IdsAgree
    <3>3. p.id > 0 => p.id = next_id
      BY <1>4
    <3> QED BY <3>2, <3>3
  <2>6. OnceAndInOrder' /\ WireBodies' \subseteq WireBodies \cup {x}
    BY <1>1, <1>4, <2>4, <2>5, WireGrows
  <2>7. MessagesOnce'
    BY <1>1, <2>3, <2>4, <2>6 DEF MessagesOnce
  <2>8. RequestsOnce'
    BY <1>1, <1>2, <1>3, <2>1, <2>6 DEF RequestsOnce, RequestAt, IsInjective
  <2> QED BY <2>6, <2>7, <2>8
<1>5. ASSUME NEW r \in Requests, outgoing_payload_rx!TakeWeak(r),
             send_payload([id |-> 0, body |-> r], "outgoing")
      PROVE  OnceAndInOrder' /\ MessagesOnce' /\ RequestsOnce'
  <2>1. /\ server_response_rx \in Seq(Requests) /\ server_response_rx # << >>
        /\ r = Head(server_response_rx) /\ server_response_rx' = Tail(server_response_rx)
        /\ UNCHANGED client_handle_rx
    BY <1>1, <1>5 DEF TypeOK, ServerType, outgoing_payload_rx!TakeWeak,
                      outgoing_payload_rx!WeakItem
  <2>2. r \in ToSet(server_response_rx)
    BY <2>1, ToSetHeadTail
  <2>3. /\ IsInjective(server_response_rx')
        /\ ToSet(server_response_rx') = ToSet(server_response_rx) \ {r}
    BY <2>1, InjectiveTail DEF RequestsOnce
  <2>4. r \notin WireBodies /\ r \notin InStream \cup handling /\ r \in asked
    BY <2>2 DEF RequestsOnce
  <2>5. OnceAndInOrder' /\ WireBodies' \subseteq WireBodies \cup {r}
    <3> DEFINE p == [id |-> 0, body |-> r]
    <3>1. p \in Payload /\ p.body = r /\ ~(p.id > 0)
      BY DEF Payload
    <3> HIDE DEF p
    <3>2. send_payload(p, "outgoing")
      BY <1>5 DEF p
    <3> QED BY <1>1, <2>4, <3>1, <3>2, WireGrows
  <2>6. MessagesOnce'
    <3>1. \A m \in ToSet(client_handle_rx) : m \in Outgoing
      BY <1>1 DEF ToSet, TypeOK, HandleType
    <3> QED BY <1>1, <1>2, <2>1, <2>5, <3>1 DEF MessagesOnce, IsInjective
  <2>7. RequestsOnce'
    BY <1>1, <1>2, <1>3, <2>3, <2>4, <2>5 DEF RequestsOnce, RequestAt
  <2> QED BY <2>5, <2>6, <2>7
<1>6. ASSUME outgoing_payload_rx!NotReady \/ outgoing_payload_rx!Finish,
             UNCHANGED <<transport_tx, pending_payload>>
      PROVE  OnceAndInOrder' /\ MessagesOnce' /\ RequestsOnce'
  <2>1. UNCHANGED <<client_handle_rx, server_response_rx>>
    BY <1>6 DEF outgoing_payload_rx!NotReady, outgoing_payload_rx!Finish
  <2>2. UNCHANGED <<Wire, WireSet>>
    BY <1>1, <1>6 DEF Wire, WireSet
  <2> QED BY <1>1, <2>1, <2>2, MessagesFrame, RequestsFrame DEF OnceAndInOrder
<1>7. ASSUME NEW x \in Outgoing, outgoing_payload_rx!TakeStrong(x), TakeCall(x) \/ TakeNote(x)
      PROVE  OnceAndInOrder' /\ MessagesOnce' /\ RequestsOnce'
  <2>1. CASE TakeCall(x)
    <3>1. [id |-> next_id, body |-> x] \in Payload
      BY <1>2, <2>1 DEF TakeCall, Payload
    <3> QED BY <1>4, <1>7, <2>1, <3>1 DEF TakeCall
  <2>2. CASE TakeNote(x)
    <3>1. [id |-> 0, body |-> x] \in Payload
      BY <2>2 DEF TakeNote, Payload
    <3> QED BY <1>4, <1>7, <2>2, <3>1 DEF TakeNote
  <2> QED BY <1>7, <2>1, <2>2
<1> QED BY <1>5, <1>6, <1>7 DEF PollOutgoing

OrderInv == OnceAndInOrder /\ MessagesOnce /\ RequestsOnce

LEMMA OrderInvHolds == Spec => []OrderInv
<1> USE DEF OrderInv
<1>1. Init => OrderInv
  <2> SUFFICES ASSUME Init PROVE OrderInv
    OBVIOUS
  <2>1. /\ delivered = << >> /\ transport_tx = << >> /\ pending_payload = << >>
        /\ client_handle_rx = << >> /\ transport_rx = << >> /\ server_response_rx = << >>
        /\ handling = {} /\ asked = {}
    BY DEF Init, HandleInit, TransportInit, outgoing_payload_rx!SelectInit
  <2>2. Wire = << >> /\ WireBodies = {} /\ InStream = {}
    BY <2>1, ToSetSmall DEF Wire, WireBodies, WireSet, InStream
  <2> QED BY <2>1, <2>2, ToSetSmall DEF OnceAndInOrder, MessagesOnce, RequestsOnce, IsInjective
<1>2. OwnInv /\ TypeOK' /\ OrderInv /\ [Next]_vars => OrderInv'
  <2> SUFFICES ASSUME OwnInv, TypeOK', OrderInv, [Next]_vars PROVE OrderInv'
    OBVIOUS
  <2>1. CASE PollOutgoing
    BY <2>1, OrderPollOutgoing
  <2> SUFFICES ASSUME ~PollOutgoing PROVE OrderInv'
    BY <2>1
  <2>2. TypeOK /\ OnceAndInOrder' /\ WireSet' \subseteq WireSet
    BY ShorterWire DEF OwnInv
  <2> SUFFICES MessagesOnce' /\ RequestsOnce'
    BY <2>2
  <2>3. CASE SendLeftover \/ QuietStep \/ UNCHANGED vars
    <3>1. UNCHANGED <<client_handle_rx, fut, transport_rx, handling, server_response_rx, asked>>
      BY <2>3, QuietStepFrame DEF SendLeftover
    <3> QED BY <2>2, <3>1, MessagesFrame, RequestsFrame
  <2>4. CASE HandleTransportRxPayload
    BY <2>2, <2>4, MessagesFrame, RequestsHandle DEF HandleTransportRxPayload
  <2>5. CASE DropClient
    <3>1. /\ client_handle_rx' = << >> /\ transport_rx' = << >> /\ server_response_rx' = << >>
          /\ handling' = {} /\ UNCHANGED <<fut, asked>>
      BY <2>5 DEF DropClient
    <3>2. WireBodies' \subseteq WireBodies /\ InStream' = {}
      BY <2>2, <3>1 DEF WireBodies, InStream
    <3> QED BY <3>1, <3>2, ToSetSmall DEF MessagesOnce, RequestsOnce, IsInjective
  <2>6. CASE UserTurn
    BY <2>2, <2>6, MessagesUser, UserFrame, RequestsFrame
  <2>7. CASE TransportTurn
    BY <2>2, <2>7, MessagesFrame, RequestsTransport DEF TransportTurn
  <2>8. CASE HandlerTurn
    BY <2>2, <2>8, MessagesFrame, RequestsHandler DEF HandlerTurn
  <2> QED BY <2>3, <2>4, <2>5, <2>6, <2>7, <2>8, NextCases
<1>3. OwnInv => TypeOK
  BY DEF OwnInv
<1> QED BY <1>1, <1>2, <1>3, OwnInvHolds, PTL DEF Spec

(* Payloads reach the sink once and in the order in which the messages     *)
(* were taken from the channel: the payload a full sink refused goes first *)
(* (handle_messages, poll_outgoing_messages).                              *)
THEOREM OnceAndInOrderHolds == Spec => []OnceAndInOrder
<1>1. OrderInv => OnceAndInOrder
  BY DEF OrderInv
<1> QED BY <1>1, OrderInvHolds, PTL
=============================================================================
