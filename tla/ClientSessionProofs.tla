------------------------ MODULE ClientSessionProofs ------------------------
(***************************************************************************)
(* A Client with its handles, its transport and the peer implements        *)
(* RpcSession, without its fairness: a call ends at most once, answered    *)
(* only if the peer has answered this very call, and with Shutdown only    *)
(* after the client has gone.                                              *)
(***************************************************************************)
EXTENDS ClientDeliveryProofs

\* A response that is on its way, and a value that has arrived, come from an
\* answer of the peer to a payload it has received.
AnswersInv ==
  /\ \A n \in replied : \E i \in DOMAIN delivered : delivered[i].id = n
  /\ \A m \in ToSet(transport_rx) : m.kind = "response" /\ m.id # 0 => m.id \in replied
  /\ \A c \in Calls : oneshot[c] # NoValue => c \in Served

\* A future has resolved with an answer, or with the end of the client.
EndedInv ==
  \A c \in Calls : /\ fut[c] = "answered" => c \in Served
                   /\ fut[c] = "shutdown" => Dropped

\* What the steps below rest on.
SessionInv == OwnInv /\ OrderInv /\ NoCallForgotten

-----------------------------------------------------------------------------
(* Payloads the peer has received                                          *)

\* A payload with an id is a call's, and claims its id.
LEMMA DeliveredFacts ==
  ASSUME TypeOK
  PROVE  /\ delivered \in Seq(Payload) /\ Len(delivered) \in Nat
         /\ DOMAIN delivered = 1..Len(delivered)
         /\ \A i \in DOMAIN delivered :
              /\ delivered[i] \in WireSet /\ delivered[i].id \in Nat
              /\ delivered[i].id # 0 => delivered[i] \in Claims /\ delivered[i].body \in Calls
<1>1. delivered \in Seq(Payload)
  BY DEF TypeOK, SinkType
<1>2. ASSUME NEW i \in DOMAIN delivered
      PROVE  /\ delivered[i] \in WireSet /\ delivered[i].id \in Nat
             /\ delivered[i].id # 0 => delivered[i] \in Claims /\ delivered[i].body \in Calls
  <2>1. delivered[i] \in Payload /\ delivered[i] \in ToSet(delivered)
    BY <1>1 DEF ToSet
  <2> QED BY <2>1 DEF WireSet, Claims, Payload
<1> QED BY <1>1, <1>2

\* They are the first part of the wire.
LEMMA DeliveredOrdered ==
  ASSUME TypeOK, OnceAndInOrder
  PROVE  \A i, j \in DOMAIN delivered :
            /\ delivered[i].body = delivered[j].body => i = j
            /\ i < j /\ delivered[i].id > 0 /\ delivered[j].id > 0
                 => delivered[i].id < delivered[j].id
<1> DEFINE rest == transport_tx \o pending_payload
<1>1. delivered \in Seq(Payload) /\ rest \in Seq(Payload) /\ Wire = delivered \o rest
  <2>1. delivered \in Seq(Payload) /\ transport_tx \in Seq(Payload) /\ pending_payload \in Seq(Payload)
    BY DEF TypeOK, SinkType
  <2> QED BY <2>1 DEF Wire
<1> HIDE DEF rest
<1>2. \A i \in DOMAIN delivered : i \in DOMAIN Wire /\ Wire[i] = delivered[i] /\ i \in Nat
  BY <1>1
<1>3. \A i, j \in Nat : i < j \/ i = j \/ j < i
  OBVIOUS
<1>4. \A i, j \in DOMAIN delivered : i < j =>
         /\ delivered[i].body # delivered[j].body
         /\ delivered[i].id > 0 /\ delivered[j].id > 0 => delivered[i].id < delivered[j].id
  <2> SUFFICES ASSUME NEW i \in DOMAIN delivered, NEW j \in DOMAIN delivered, i < j
               PROVE  /\ delivered[i].body # delivered[j].body
                      /\ delivered[i].id > 0 /\ delivered[j].id > 0
                           => delivered[i].id < delivered[j].id
    OBVIOUS
  <2>1. /\ i \in DOMAIN Wire /\ j \in DOMAIN Wire
        /\ Wire[i] = delivered[i] /\ Wire[j] = delivered[j]
    BY <1>2
  <2> QED BY <2>1 DEF OnceAndInOrder
<1> QED BY <1>2, <1>3, <1>4

\* The payload the peer receives next is none it has answered.
LEMMA NextIsNotReplied ==
  ASSUME TypeOK, OnceAndInOrder, AnswersInv, transport_tx # << >>
  PROVE  Head(transport_tx).id \notin replied
<1> DEFINE p == Head(transport_tx)
           k == Len(delivered)
<1>1. \A q, r, t \in Seq(Payload) : r # << >> =>
         /\ Len(q) + 1 \in DOMAIN (q \o r \o t) /\ (q \o r \o t)[Len(q) + 1] = Head(r)
         /\ \A i \in DOMAIN q : i \in DOMAIN (q \o r \o t) /\ i < Len(q) + 1 /\ (q \o r \o t)[i] = q[i]
  BY ConcatIndex
<1>2. delivered \in Seq(Payload) /\ transport_tx \in Seq(Payload) /\ pending_payload \in Seq(Payload)
  BY DEF TypeOK, SinkType
<1>3. /\ k + 1 \in DOMAIN Wire /\ Wire[k + 1] = p
      /\ \A i \in DOMAIN delivered : i \in DOMAIN Wire /\ i < k + 1 /\ Wire[i] = delivered[i]
  BY <1>1, <1>2 DEF Wire
<1> SUFFICES ASSUME p.id \in replied PROVE FALSE
  OBVIOUS
<1>4. PICK i \in DOMAIN delivered : delivered[i].id = p.id
  BY DEF AnswersInv
<1>5. p.id \in Nat \ {0}
  BY DEF TypeOK, StreamType
<1>6. i \in DOMAIN Wire /\ i < k + 1 /\ Wire[i].id = p.id
  BY <1>3, <1>4
<1> HIDE DEF k, p
<1>7. Wire[i].id > 0 /\ Wire[k + 1].id > 0
  BY <1>3, <1>5, <1>6
<1>8. Wire[i].id < Wire[k + 1].id
  BY <1>3, <1>6, <1>7 DEF OnceAndInOrder
<1> QED BY <1>3, <1>5, <1>6, <1>8

-----------------------------------------------------------------------------
(* Answers                                                                 *)

\* Steps that add no answer and complete no call.
LEMMA AnswersFrame ==
  ASSUME AnswersInv, UNCHANGED <<delivered, replied>>,
         ToSet(transport_rx') \subseteq ToSet(transport_rx),
         \A c \in Calls : oneshot'[c] = oneshot[c]
  PROVE  AnswersInv' /\ Served' = Served
<1>1. Served' = Served
  BY DEF Served
<1> QED BY <1>1 DEF AnswersInv

\* What a completed call is given comes from an answer to this call.
LEMMA AnswersHandle ==
  ASSUME OwnInv, AnswersInv, HandleTransportRxPayload PROVE AnswersInv' /\ Served' = Served
<1> DEFINE msg == Head(transport_rx)
<1>1. /\ TypeOK /\ IdsAgree /\ transport_rx \in Seq(Incoming) /\ transport_rx # << >>
      /\ transport_rx' = Tail(transport_rx) /\ UNCHANGED <<delivered, replied>>
  BY DEF OwnInv, HandleTransportRxPayload, TypeOK, StreamType, sinkVars, peerVars
<1>2. msg \in ToSet(transport_rx) /\ ToSet(transport_rx') \subseteq ToSet(transport_rx)
  BY <1>1, ToSetHeadTail
<1>3. CASE UNCHANGED oneshot
  BY <1>1, <1>2, <1>3, AnswersFrame
<1>4. ASSUME msg.kind = "response", NEW e \in Removed(msg.id), Complete(e.body, msg.body)
      PROVE  AnswersInv' /\ Served' = Served
  <2>1. Served' = Served
    BY <1>1 DEF Served
  <2>2. e \in Claims /\ e.id = msg.id /\ e.id \in Nat \ {0} /\ e.body \in Calls
    BY <1>1, <1>4 DEF Removed, Claims, TypeOK, StateType
  <2>3. msg.id \in replied
    BY <1>2, <1>4, <2>2 DEF AnswersInv
  <2>4. PICK i \in DOMAIN delivered : delivered[i].id = msg.id
    BY <2>3 DEF AnswersInv
  <2>5. delivered[i] \in Claims
    BY <1>1, <2>2, <2>4, DeliveredFacts
  <2>6. delivered[i].body = e.body
    BY <1>1, <2>2, <2>4, <2>5 DEF IdsAgree
  <2>7. e.body \in Served
    BY <2>2, <2>3, <2>4, <2>6 DEF Served
  <2>8. \A c \in Calls : c # e.body => oneshot'[c] = oneshot[c]
    <3>1. oneshot \in [Outgoing -> Outgoing \cup {NoValue}] /\ Calls \subseteq Outgoing
      BY <1>1 DEF TypeOK, HandleType, Outgoing
    <3> QED BY <1>4, <3>1 DEF Complete
  <2> QED BY <1>1, <1>2, <2>1, <2>7, <2>8 DEF AnswersInv
<1> QED BY <1>3, <1>4 DEF HandleTransportRxPayload, handle_response, process_request

\* A payload reaches the peer, which has not answered it yet.
LEMMA AnswersDeliver ==
  ASSUME TypeOK, OnceAndInOrder, AnswersInv, Deliver, UNCHANGED oneshot
  PROVE  AnswersInv' /\ Served' = Served
<1> DEFINE p == Head(transport_tx)
<1>1. /\ delivered \in Seq(Payload) /\ p \in Payload /\ p.id \notin replied
      /\ delivered' = Append(delivered, p) /\ UNCHANGED <<transport_rx, replied>>
  <2>1. transport_tx \in Seq(Payload) /\ transport_tx # << >> /\ delivered \in Seq(Payload)
    BY DEF Deliver, SinkFlushing, TypeOK, SinkType
  <2>2. p \in Payload
    BY <2>1
  <2> QED BY <2>1, <2>2, NextIsNotReplied DEF Deliver, streamVars, peerVars
<1> HIDE DEF p
<1>2. /\ \A i \in DOMAIN delivered : i \in DOMAIN delivered' /\ delivered'[i] = delivered[i]
      /\ \A i \in DOMAIN delivered' :
           delivered'[i] = p \/ (i \in DOMAIN delivered /\ delivered'[i] = delivered[i])
  BY <1>1
<1>3. \A c \in Calls : c \in Served' <=> c \in Served
  BY <1>1, <1>2 DEF Served
<1>4. Served' = Served
  BY <1>3 DEF Served
<1>5. \A n \in replied' : \E i \in DOMAIN delivered' : delivered'[i].id = n
  BY <1>1, <1>2 DEF AnswersInv
<1> QED BY <1>1, <1>4, <1>5 DEF AnswersInv

\* The peer answers a call for the first time.
LEMMA AnswersReply ==
  ASSUME OwnInv, OnceAndInOrder, AnswersInv, NEW k \in DOMAIN delivered, Reply(k), UNCHANGED oneshot
  PROVE  /\ AnswersInv' /\ delivered[k].body \in Calls \ Served
         /\ Served' = Served \cup {delivered[k].body}
<1> DEFINE p == delivered[k]
<1>1. /\ TypeOK /\ IdsAgree /\ p.id > 0 /\ p.id \notin replied /\ p.id \in Nat /\ p.id # 0
      /\ replied' = replied \cup {p.id} /\ UNCHANGED delivered
      /\ p.body \in Calls /\ p \in Claims
      /\ transport_rx \in Seq(Incoming) /\ transport_rx' = Append(transport_rx, Answer(p))
  <2>1. TypeOK /\ IdsAgree /\ transport_rx \in Seq(Incoming)
    BY DEF OwnInv, TypeOK, StreamType
  <2>2. p.id \in Nat /\ p.id > 0 /\ p.id # 0
    BY <2>1, DeliveredFacts DEF Reply
  <2> QED BY <2>1, <2>2, DeliveredFacts DEF Reply, Arrive, sinkVars
<1>2. \A i \in DOMAIN delivered : delivered[i].body = p.body => i = k
  BY <1>1, DeliveredOrdered
<1>3. p.body \notin Served
  BY <1>1, <1>2 DEF Served
<1>4. \A i \in DOMAIN delivered : delivered[i].id = p.id => delivered[i].body = p.body
  <2>1. \A i \in DOMAIN delivered : delivered[i].id = p.id => delivered[i] \in Claims
    BY <1>1, DeliveredFacts
  <2> QED BY <1>1, <2>1 DEF IdsAgree
<1> HIDE DEF p
<1>5. \A c \in Calls : c \in Served' <=> c \in Served \/ c = p.body
  BY <1>1, <1>4 DEF Served, p
<1>6. Served' = Served \cup {p.body}
  BY <1>1, <1>5 DEF Served
<1>7. \A n \in replied' : \E i \in DOMAIN delivered' : delivered'[i].id = n
  BY <1>1 DEF AnswersInv, p
<1>8. ToSet(transport_rx') = ToSet(transport_rx) \cup {Answer(p)}
  <2>1. Answer(p) \in Incoming
    BY <1>1 DEF Answer, Incoming
  <2> QED BY <1>1, <2>1, ToSetAppend
<1>9. \A m \in ToSet(transport_rx') : m.kind = "response" /\ m.id # 0 => m.id \in replied'
  BY <1>1, <1>8 DEF AnswersInv, Answer
<1> QED BY <1>1, <1>3, <1>6, <1>7, <1>9 DEF AnswersInv, p

\* Everything else the transport and the peer do.
LEMMA AnswersTransport ==
  ASSUME OwnInv, OnceAndInOrder, AnswersInv, TransportTurn,
         \A k \in DOMAIN delivered : ~Reply(k)
  PROVE  AnswersInv' /\ Served' = Served
<1>1. TypeOK /\ transport_rx \in Seq(Incoming) /\ UNCHANGED oneshot
  BY DEF OwnInv, TransportTurn, handleVars, TypeOK, StreamType
<1>2. CASE Deliver
  BY <1>1, <1>2, AnswersDeliver
<1>3. CASE BreakSink \/ \E end \in {"eof", "error"} : EndStream(end)
  BY <1>1, <1>3, AnswersFrame DEF BreakSink, EndStream, sinkVars, streamVars, peerVars
<1>4. ASSUME NEW msg \in Incoming, Arrive(msg), UNCHANGED replied,
             msg.kind = "response" /\ msg.id # 0 => msg.id \in replied
      PROVE  AnswersInv' /\ Served' = Served
  <2>1. UNCHANGED delivered /\ ToSet(transport_rx') = ToSet(transport_rx) \cup {msg}
    BY <1>1, <1>4, ToSetAppend DEF Arrive, sinkVars
  <2>2. Served' = Served
    BY <1>4, <2>1 DEF Served
  <2> QED BY <1>1, <1>4, <2>1, <2>2 DEF AnswersInv
<1>5. ASSUME NEW k \in DOMAIN delivered, ReplyAgain(k) PROVE AnswersInv' /\ Served' = Served
  <2>1. delivered[k].id \in replied /\ delivered[k].id \in Nat \ {0}
    BY <1>1, <1>5 DEF ReplyAgain, TypeOK, StreamType
  <2>2. delivered[k].body \in Calls
    BY <1>1, <2>1, DeliveredFacts
  <2>3. Answer(delivered[k]) \in Incoming /\ Answer(delivered[k]).id = delivered[k].id
    BY <2>1, <2>2 DEF Answer, Incoming
  <2> QED BY <1>4, <1>5, <2>1, <2>3 DEF ReplyAgain
<1>6. CASE ReplyToNobody \/ SendInvalid \/ \E r \in Requests : Ask(r)
  BY <1>4, <1>6 DEF ReplyToNobody, SendInvalid, Ask, Incoming
<1> QED BY <1>2, <1>3, <1>5, <1>6 DEF TransportTurn, TransportNext

\* Nothing but the first reply to a call changes what is served.
LEMMA AnswersStep ==
  ASSUME OwnInv, OnceAndInOrder, AnswersInv, [Next]_vars,
         \A k \in DOMAIN delivered : ~(TransportTurn /\ Reply(k))
  PROVE  AnswersInv' /\ Served' = Served
<1>1. TypeOK /\ Calls \cap Notes = {} /\ transport_rx \in Seq(Incoming)
  BY KindsDiffer DEF OwnInv, TypeOK, StreamType
<1>2. CASE HandleTransportRxPayload
  BY <1>2, AnswersHandle
<1>3. CASE TransportTurn
  BY <1>3, AnswersTransport
<1>4. CASE PollOutgoing
  <2>1. UNCHANGED <<delivered, replied, transport_rx>>
    BY <1>4 DEF PollOutgoing, streamVars, peerVars
  <2>2. \A c \in Calls : oneshot'[c] = oneshot[c]
    <3>1. oneshot \in [Outgoing -> Outgoing \cup {NoValue}] /\ Calls \subseteq Outgoing
      BY <1>1 DEF TypeOK, HandleType, Outgoing
    <3>2. ASSUME NEW m \in Outgoing, TakeNote(m) PROVE \A c \in Calls : oneshot'[c] = oneshot[c]
      BY <1>1, <3>1, <3>2 DEF TakeNote, Complete
    <3> QED BY <1>4, <3>2 DEF PollOutgoing, TakeCall
  <2> QED BY <2>1, <2>2, AnswersFrame
<1>5. CASE SendLeftover \/ QuietStep \/ UserTurn \/ HandlerTurn \/ UNCHANGED vars
  <2>1. UNCHANGED <<delivered, replied, transport_rx, oneshot>>
    BY <1>5, QuietStepFrame, UserFrame
       DEF SendLeftover, HandlerTurn, vars, handleVars, transportVars, sinkVars, streamVars, peerVars
  <2> QED BY <2>1, AnswersFrame
<1>6. CASE DropClient
  <2>1. transport_rx' = << >> /\ UNCHANGED <<delivered, replied, oneshot>>
    BY <1>6 DEF DropClient, peerVars
  <2> QED BY <2>1, ToSetSmall, AnswersFrame
<1> QED BY <1>2, <1>3, <1>4, <1>5, <1>6, NextCases

\* No answer is taken back.
LEMMA AnswersNext ==
  ASSUME OwnInv, OnceAndInOrder, AnswersInv, [Next]_vars
  PROVE  AnswersInv' /\ Served \subseteq Served'
<1>1. ASSUME NEW k \in DOMAIN delivered, TransportTurn, Reply(k)
      PROVE  AnswersInv' /\ Served \subseteq Served'
  BY <1>1, AnswersReply DEF TransportTurn, handleVars
<1> QED BY <1>1, AnswersStep

-----------------------------------------------------------------------------
(* Ends of calls                                                           *)

\* What a user does to its call, as the session sees it.
LEMMA UserEnds ==
  ASSUME TypeOK, AnswersInv, NoCallForgotten, MessagesOnce, NEW c \in Calls, UserStep(c),
         fut'[c] # fut[c]
  PROVE  \/ fut[c] = "none" /\ fut'[c] \in Unresolved
         \/ fut[c] \in Unresolved /\ fut'[c] \in Unresolved
         \/ /\ fut[c] \in Unresolved
            /\ \/ fut'[c] = "answered" /\ c \in Served
               \/ fut'[c] = "shutdown" /\ Dropped
               \/ fut'[c] = "rejected" /\ c \notin Served
               \/ fut'[c] = "abandoned"
<1>1. c \in Outgoing /\ fut \in [Outgoing -> FutureStates]
  BY DEF Outgoing, TypeOK, HandleType
<1>2. fut[c] = "created" => c \notin Served
  <2>1. fut[c] = "created" => c \notin WireBodies
    BY <1>1 DEF MessagesOnce, Unsent
  <2>2. c \in Served => c \in WireBodies
    BY DeliveredFacts DEF Served, WireBodies
  <2> QED BY <2>1, <2>2
<1>3. CASE Invoke(c) \/ Sent(c) \/ Send(c) \/ Abandon(c)
  BY <1>1, <1>3 DEF Invoke, Sent, Send, Abandon, Become, Unresolved
<1>4. CASE Reject(c)
  BY <1>1, <1>2, <1>4 DEF Reject, Become, Unresolved
<1>5. CASE Resolve(c, CompletionHeld(c))
  <2>1. oneshot[c] = NoValue /\ ~CompletionHeld(c) /\ fut[c] = "waiting" => Dropped
    BY <1>1 DEF NoCallForgotten
  <2>2. oneshot[c] # NoValue => c \in Served
    BY DEF AnswersInv
  <2> QED BY <1>1, <1>5, <2>1, <2>2 DEF Resolve, Become, Unresolved
<1> QED BY <1>3, <1>4, <1>5 DEF UserStep

\* Only users change futures, one at a time.
LEMMA FuturesStep ==
  ASSUME TypeOK, [Next]_vars
  PROVE  \/ UNCHANGED fut
         \/ /\ UserTurn
            /\ \E m \in Outgoing : UserStep(m) /\ fut' = [fut EXCEPT ![m] = fut'[m]]
<1>1. fut \in [Outgoing -> FutureStates]
  BY DEF TypeOK, HandleType
<1>2. CASE UserTurn
  <2>1. CASE DropHandle
    BY <2>1 DEF DropHandle
  <2>2. ASSUME NEW m \in Outgoing, UserStep(m) PROVE fut' = [fut EXCEPT ![m] = fut'[m]]
    <3>1. PICK state : fut' = [fut EXCEPT ![m] = state]
      BY <2>2 DEF UserStep, Invoke, Reject, Send, Sent, Resolve, Abandon, Become
    <3>2. fut'[m] = state
      BY <1>1, <3>1
    <3> QED BY <3>1, <3>2
  <2> QED BY <1>2, <2>1, <2>2 DEF UserTurn, User
<1>3. CASE ~UserTurn
  BY <1>3, NextCases, QuietStepFrame
     DEF SendLeftover, PollOutgoing, HandleTransportRxPayload, DropClient, TransportTurn,
         HandlerTurn, vars, handleVars
<1> QED BY <1>2, <1>3

\* A call ends for a reason that stays.
LEMMA EndedStep ==
  ASSUME OwnInv, OrderInv, NoCallForgotten, AnswersInv, EndedInv, [Next]_vars,
         Served \subseteq Served'
  PROVE  EndedInv'
<1>1. TypeOK /\ MessagesOnce
  BY DEF OwnInv, OrderInv
<1>2. Dropped => Dropped'
  BY DroppedForGood
<1>3. CASE UNCHANGED fut
  BY <1>2, <1>3 DEF EndedInv
<1>4. ASSUME NEW m \in Outgoing, UserStep(m), fut' = [fut EXCEPT ![m] = fut'[m]]
      PROVE  EndedInv'
  <2> SUFFICES ASSUME NEW c \in Calls
               PROVE  /\ fut'[c] = "answered" => c \in Served'
                      /\ fut'[c] = "shutdown" => Dropped'
    BY DEF EndedInv
  <2>1. CASE fut'[c] = fut[c]
    BY <1>2, <2>1 DEF EndedInv
  <2>2. CASE fut'[c] # fut[c]
    <3>1. c = m
      BY <1>1, <1>4, <2>2 DEF TypeOK, HandleType, Outgoing
    <3> QED BY <1>1, <1>2, <1>4, <2>2, <3>1, UserEnds DEF Unresolved
  <2> QED BY <2>1, <2>2
<1> QED BY <1>1, <1>3, <1>4, FuturesStep

\* The inductive invariant of the refinement.
LEMMA SessionInvHolds == Spec => [](SessionInv /\ AnswersInv /\ EndedInv)
<1>1. Init => AnswersInv /\ EndedInv
  <2> SUFFICES ASSUME Init PROVE AnswersInv /\ EndedInv
    OBVIOUS
  <2>1. /\ replied = {} /\ transport_rx = << >> /\ \A m \in Outgoing : oneshot[m] = NoValue
        /\ \A m \in Outgoing : fut[m] = "none"
    BY DEF Init, HandleInit, TransportInit
  <2> QED BY <2>1, ToSetSmall DEF AnswersInv, EndedInv, Outgoing
<1>2. SessionInv /\ AnswersInv /\ EndedInv /\ [Next]_vars => AnswersInv' /\ EndedInv'
  <2> SUFFICES ASSUME SessionInv, AnswersInv, EndedInv, [Next]_vars PROVE AnswersInv' /\ EndedInv'
    OBVIOUS
  <2>1. AnswersInv' /\ Served \subseteq Served'
    BY AnswersNext DEF SessionInv, OrderInv
  <2> QED BY <2>1, EndedStep DEF SessionInv
<1>3. Spec => []SessionInv
  <2>1. OwnInv /\ OrderInv /\ NoCallForgotten => SessionInv
    BY DEF SessionInv
  <2> QED BY <2>1, OwnInvHolds, OrderInvHolds, NoCallForgottenHolds, PTL
<1> QED BY <1>1, <1>2, <1>3, PTL DEF Spec

-----------------------------------------------------------------------------
(* The refinement                                                          *)

\* The client is up until it is dropped.
LEMMA OnlyDropClientDrops ==
  ASSUME [Next]_vars, ~DropClient PROVE Dropped' = Dropped
<1>1. CASE SendLeftover \/ PollOutgoing
  BY <1>1 DEF SendLeftover, PollOutgoing, TakeCall, TakeNote, send_payload, Return, Dropped
<1>2. CASE HandleTransportRxPayload
  BY <1>2 DEF HandleTransportRxPayload, handle_response, process_request, RxReturn, Return, DrainOn,
              Dropped
<1>3. CASE TransportRxDrained
  BY <1>3 DEF TransportRxDrained, RxReturn, Return, AfterRx, Dropped
<1>4. CASE Poll \/ PollServer \/ OutgoingMustWait \/ Flush \/ Close
  BY <1>4 DEF Poll, PollServer, OutgoingMustWait, Flush, Close, Return, Dropped
<1>5. CASE UserTurn \/ TransportTurn \/ HandlerTurn \/ UNCHANGED vars
  BY <1>5 DEF UserTurn, TransportTurn, HandlerTurn, vars, Dropped
<1> QED BY <1>1, <1>2, <1>3, <1>4, <1>5, NextCases DEF QuietStep

(* To its users a Client with its handles, its transport and the peer is   *)
(* an RpcSession: every step is one of the session, or one it does not     *)
(* see.  A call ends once; with an answer only if the peer has answered    *)
(* this call; with Shutdown only when the client is gone (Client::poll,    *)
(* handle_response, ClientHandle).                                         *)
THEOREM ClientImplementsSession == Spec => Session!Spec
<1> DEFINE Phase(c) == IF fut[c] \in Unresolved THEN "open" ELSE fut[c]
<1>1. Init => Session!Init
  <2> SUFFICES ASSUME Init PROVE Session!Init
    OBVIOUS
  <2>1. \A m \in Outgoing : fut[m] = "none"
    BY DEF Init, HandleInit
  <2>2. Served = {} /\ ~Dropped
    BY DEF Init, TaskInit, TransportInit, Served, Dropped
  <2> QED BY <2>1, <2>2 DEF Session!Init, Outgoing, Unresolved
<1>2. SessionInv /\ AnswersInv /\ EndedInv /\ [Next]_vars => [Session!Next]_(Session!vars)
  <2> SUFFICES ASSUME SessionInv, AnswersInv, EndedInv, [Next]_vars
               PROVE  Session!Next \/ UNCHANGED Session!vars
    OBVIOUS
  <2>1. /\ OwnInv /\ TypeOK /\ OnceAndInOrder /\ MessagesOnce /\ NoCallForgotten
        /\ fut \in [Outgoing -> FutureStates] /\ Calls \subseteq Outgoing
    BY DEF SessionInv, OwnInv, OrderInv, TypeOK, HandleType, Outgoing
  <2>2. CASE DropClient
    <3>1. Served' = Served /\ UNCHANGED fut /\ ~Dropped /\ Dropped'
      BY <2>2 DEF DropClient, Served, Dropped, peerVars
    <3> QED BY <3>1 DEF Session!Next, Session!Stop
  <2>3. ASSUME NEW k \in DOMAIN delivered, TransportTurn, Reply(k) PROVE Session!Next
    <3>1. PICK c \in Calls : c \notin Served /\ c = delivered[k].body /\ Served' = Served \cup {c}
      BY <2>1, <2>3, AnswersReply DEF TransportTurn, handleVars
    <3>2. ~Dropped /\ ~Dropped' /\ UNCHANGED fut
      BY <2>3 DEF Reply, Arrive, TransportTurn, Dropped, handleVars
    <3>3. c \in WireBodies
      BY <2>1, <3>1, DeliveredFacts DEF WireBodies
    <3>4. fut[c] \notin Unsent
      BY <2>1, <3>3 DEF MessagesOnce
    <3>5. Phase(c) \in {"open", "abandoned"}
      BY <2>1, <3>1, <3>2, <3>4 DEF EndedInv, Unsent, FutureStates, Unresolved, Resolved
    <3>6. Session!Serve(c)
      BY <3>1, <3>2, <3>5 DEF Session!Serve
    <3> QED BY <3>6 DEF Session!Next
  <2>4. ASSUME ~DropClient, Served' = Served PROVE Session!Next \/ UNCHANGED Session!vars
    <3>1. Dropped' = Dropped
      BY <2>4, OnlyDropClientDrops
    <3>2. CASE UNCHANGED fut
      BY <2>4, <3>1, <3>2 DEF Session!vars
    <3>3. ASSUME NEW m \in Outgoing, UserStep(m), fut' = [fut EXCEPT ![m] = fut'[m]], UserTurn
          PROVE  Session!Next \/ UNCHANGED Session!vars
      <4>1. \A c \in Calls : c # m => fut'[c] = fut[c]
        BY <2>1, <3>3
      <4>2. CASE m \notin Calls \/ Phase(m)' = Phase(m)
        <5>1. \A c \in Calls : Phase(c)' = Phase(c)
          BY <4>1, <4>2
        <5> QED BY <2>4, <3>1, <5>1 DEF Session!vars
      <4>3. CASE m \in Calls /\ Phase(m)' # Phase(m)
        <5>1. [c \in Calls |-> Phase(c)'] = [[c \in Calls |-> Phase(c)] EXCEPT ![m] = Phase(m)']
          BY <4>1, <4>3
        <5>2. Phase(m) = "none" /\ Phase(m)' = "open" => Session!Open(m)
          BY <2>4, <3>1, <4>3, <5>1 DEF Session!Open
        <5>3. \A how \in {"answered", "shutdown", "rejected", "abandoned"} :
                 Phase(m) = "open" /\ Phase(m)' = how
                 /\ (how = "answered" => m \in Served) /\ (how = "shutdown" => Dropped)
                 /\ (how = "rejected" => m \notin Served)
                   => Session!End(m, how)
          BY <2>4, <3>1, <4>3, <5>1 DEF Session!End
        <5>4. \/ Phase(m) = "none" /\ Phase(m)' = "open"
              \/ \E how \in {"answered", "shutdown", "rejected", "abandoned"} :
                   /\ Phase(m) = "open" /\ Phase(m)' = how
                   /\ how = "answered" => m \in Served
                   /\ how = "shutdown" => Dropped
                   /\ how = "rejected" => m \notin Served
          BY <2>1, <3>3, <4>3, UserEnds DEF SessionInv, Unresolved
        <5> QED BY <4>3, <5>2, <5>3, <5>4 DEF Session!Next
      <4> QED BY <4>2, <4>3
    <3> QED BY <2>1, <3>2, <3>3, FuturesStep
  <2>5. CASE \A k \in DOMAIN delivered : ~(TransportTurn /\ Reply(k))
    BY <2>1, <2>2, <2>4, <2>5, AnswersStep
  <2> QED BY <2>3, <2>5
<1> QED BY <1>1, <1>2, SessionInvHolds, PTL DEF Spec, Session!Spec
=============================================================================
