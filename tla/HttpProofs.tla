----------------------------- MODULE HttpProofs -----------------------------
(***************************************************************************)
(* Theorems about HttpTransport for any number of handles and requests:    *)
(* type correctness, that a request is where it should be between the sink *)
(* of its client, the core and the stream, that a client fails by its own  *)
(* requests only, and that it never sleeps with something to do.           *)
(***************************************************************************)
EXTENDS HttpTransport, SequenceLemmas, TLAPS

USE DEF vars, coreVars

-----------------------------------------------------------------------------
(* The types, client by client                                             *)

Sane(c) == c \in ClientType /\ (c.with = "empty" <=> c.in_flight = << >>)

LEMMA SaneClients == TypeOK <=>
  /\ core \in {"starting", "failed", "running", "stopped"}
  /\ handle \in BOOLEAN
  /\ request_rx \in Seq(Requests)
  /\ current \in AtMostOne
  /\ in_body \in BOOLEAN
  /\ response \in [Requests -> Values]
  /\ client \in [Handles -> ClientType]
  /\ \A h \in Handles : Sane(client[h])
  BY DEF TypeOK, Sane

LEMMA NotifySane == ASSUME NEW c, Sane(c), NEW s PROVE Sane(Notify(c, s))
  BY DEF Sane, ClientType, Notify

LEMMA RegisterSane ==
  ASSUME NEW c, Sane(c), NEW s \in {"strong", "rx", "oneshot", "slot"}
  PROVE  Sane(Register(c, s))
  BY DEF Sane, ClientType, Register

LEMMA GoesSane ==
  ASSUME NEW c, Sane(c),
         NEW next \in {"idle", "leftover", "rx", "outgoing", "flush", "shutdown_rx", "close"}
  PROVE  Sane(Goes(c, next)) /\ Sane(Fails(c))
  BY DEF Sane, ClientType, Goes, Fails

LEMMA PollWithSane == ASSUME NEW c, Sane(c) PROVE Sane(PollWith(c))
<1>1. Sane(Emptied(c))
  BY DEF Sane, ClientType, AtMostOne, Emptied
<1>2. Sane([c EXCEPT !.with = "buffered"]) \/ c.with = "empty"
  BY DEF Sane, ClientType
<1>3. c.responses = << >> => Sane(Emptied(Put(c)))
  <2>1. c.responses = << >> => c.responses \o c.in_flight = c.in_flight
    BY DEF Sane, ClientType, AtMostOne
  <2> QED BY <2>1 DEF Sane, ClientType, AtMostOne, Emptied, Put
<1>4. SinkBlocked(c) => c.with # "empty"
  BY DEF SinkBlocked, Unanswered, Responded
<1> QED BY <1>1, <1>2, <1>3, <1>4, NotifySane, RegisterSane
        DEF PollWith, SinkBlocked, Responded

(* A step of one client leaves the others alone.                           *)
LEMMA UpdateOne ==
  ASSUME TypeOK, NEW h \in Handles, NEW c, client' = [client EXCEPT ![h] = c]
  PROVE  client'[h] = c /\ \A g \in Handles \ {h} : client'[g] = client[g]
  BY DEF TypeOK

LEMMA UpdateSane ==
  ASSUME TypeOK, NEW h \in Handles, NEW c, Sane(c), client' = [client EXCEPT ![h] = c]
  PROVE  client' \in [Handles -> ClientType] /\ \A g \in Handles : Sane(client'[g])
<1>1. client' \in [Handles -> ClientType]
  BY DEF TypeOK, Sane
<1> QED BY <1>1, UpdateOne, SaneClients

LEMMA RequestSentType ==
  ASSUME TypeOK, NEW p \in Requests, unbounded_send(p)
  PROVE  request_rx' \in Seq(Requests) /\ response' \in [Requests -> Values]
  BY DEF TypeOK, unbounded_send, Values

\* The record of a client after start_send: it took the payload, refused it,
\* or failed.
SendTaken(c, p, next) ==
  Goes([PollWith(c) EXCEPT !.with = "process", !.in_flight = <<p>>, !.accepted = Append(@, p)], next)
SendRefused(c, p, next) == Goes([PollWith(c) EXCEPT !.pending_payload = <<p>>], next)

LEMMA SendSane ==
  ASSUME NEW c, Sane(c), NEW p \in Requests, NEW next \in {"rx", "outgoing"}
  PROVE  Sane(SendTaken(c, p, next)) /\ Sane(SendRefused(c, p, next)) /\ Sane(Fails(PollWith(c)))
<1>1. Sane(PollWith(c))
  BY PollWithSane
<1>2. ASSUME NEW d, Sane(d)
      PROVE  /\ Sane([d EXCEPT !.with = "process", !.in_flight = <<p>>, !.accepted = Append(@, p)])
             /\ Sane([d EXCEPT !.pending_payload = <<p>>])
  <2>1. Append(d.accepted, p) \in Seq(Requests) /\ <<p>> \in AtMostOne /\ <<p>> # << >>
    BY <1>2 DEF Sane, ClientType, AtMostOne
  <2>2. Sane([d EXCEPT !.pending_payload = <<p>>])
    BY <1>2, <2>1 DEF Sane, ClientType
  <2>3. Sane([d EXCEPT !.with = "process", !.in_flight = <<p>>, !.accepted = Append(@, p)])
    BY <1>2, <2>1 DEF Sane, ClientType
  <2> QED BY <2>2, <2>3
<1> QED BY <1>1, <1>2, GoesSane DEF SendTaken, SendRefused

LEMMA StartSendSane ==
  ASSUME TypeOK, NEW h \in Handles, NEW c, Sane(c), NEW p \in Requests,
         NEW next \in {"rx", "outgoing"}, start_send(h, c, p, next),
         UNCHANGED <<core, current, in_body, handle>>
  PROVE  TypeOK'
<1>1. request_rx' \in Seq(Requests) /\ response' \in [Requests -> Values]
  BY RequestSentType DEF start_send, TypeOK
<1>2. \E d : Sane(d) /\ client' = [client EXCEPT ![h] = d]
  BY SendSane DEF start_send, SendTaken, SendRefused
<1> QED BY <1>1, <1>2, UpdateSane, SaneClients DEF TypeOK, Sane

\* A step of a client in which the core gets no request.
OwnStep(h) ==
  /\ \E c : Sane(c) /\ client' = [client EXCEPT ![h] = c]
  /\ UNCHANGED <<coreVars, handle, response>>

LEMMA OwnStepSane == ASSUME TypeOK, NEW h \in Handles, OwnStep(h) PROVE TypeOK'
<1>1. client' \in [Handles -> ClientType] /\ \A g \in Handles : Sane(client'[g])
  BY UpdateSane DEF OwnStep
<1> QED BY <1>1 DEF OwnStep, TypeOK, Sane

LEMMA PollSane ==
  ASSUME TypeOK, NEW h \in Handles, Poll(h) \/ Flush(h) \/ Close(h) \/ DropClient(h) \/ LastUserGoes(h)
  PROVE  OwnStep(h)
<1> DEFINE c == client[h]
<1>1. Sane(c) /\ Sane(PollWith(c)) /\ \A s : Sane(Notify(c, s))
  BY SaneClients, PollWithSane, NotifySane
<1> USE DEF OwnStep, Update
<1>2. CASE Poll(h)
  <2>1. Sane([c EXCEPT !.woken = FALSE, !.pc = "shutdown_rx"])
        /\ Sane([c EXCEPT !.woken = FALSE, !.pc = "leftover"])
    BY <1>1 DEF Sane, ClientType
  <2> QED BY <1>2, <2>1 DEF Poll
<1>3. CASE Flush(h)
  BY <1>1, <1>3, GoesSane DEF Flush, Flushed
<1>4. CASE Close(h)
  <2>1. ASSUME NEW d, Sane(d), NEW r \in {"ok", "error"}
        PROVE  Sane([d EXCEPT !.pc = "resolved", !.result = r])
    BY <2>1 DEF Sane, ClientType
  <2> QED BY <1>1, <1>4, <2>1, GoesSane DEF Close
<1>5. CASE DropClient(h)
  <2>1. Sane([c EXCEPT !.pc = "dropped", !.woken = FALSE, !.registered = {}, !.todo = << >>,
                       !.pending_payload = << >>, !.with = "empty", !.in_flight = << >>,
                       !.responses = << >>])
    <3>1. << >> \in Seq(Requests) /\ << >> \in AtMostOne
      BY DEF AtMostOne
    <3> QED BY <1>1, <3>1 DEF Sane, ClientType
  <2> QED BY <1>5, <2>1 DEF DropClient
<1>6. CASE LastUserGoes(h)
  <2>1. Sane([c EXCEPT !.users = FALSE])
    BY <1>1 DEF Sane, ClientType
  <2> QED BY <1>6, <2>1, NotifySane DEF LastUserGoes
<1> QED BY <1>2, <1>3, <1>4, <1>5, <1>6

\* What PollStream takes from the stream.
StreamTaken(c) ==
  Notify([c EXCEPT !.responses = Tail(@), !.received = Append(@, c.responses[1])], "slot")

LEMMA StreamSane ==
  ASSUME NEW c, Sane(c), c.responses # << >>
  PROVE  c.responses[1] \in Requests /\ c.responses = <<c.responses[1]>> /\ Sane(StreamTaken(c))
<1>1. PICK p \in Requests : c.responses = <<p>>
  BY DEF Sane, ClientType, AtMostOne
<1>2. c.responses[1] = p /\ Tail(c.responses) = << >> /\ Append(c.received, p) \in Seq(Requests)
  BY <1>1 DEF Sane, ClientType
<1>3. Sane([c EXCEPT !.responses = Tail(@), !.received = Append(@, p)])
  BY <1>2 DEF Sane, ClientType, AtMostOne
<1> QED BY <1>1, <1>2, <1>3, NotifySane DEF StreamTaken

LEMMA PollStreamSane ==
  ASSUME TypeOK, NEW h \in Handles, PollStream(h) PROVE OwnStep(h)
<1> DEFINE c == client[h]
<1>1. Sane(c) /\ Sane(Register(c, "rx")) /\ (c.responses # << >> => Sane(StreamTaken(c)))
  BY SaneClients, RegisterSane, StreamSane
<1>2. \/ \E next \in {"outgoing", "close"} : Update(h, Goes(Register(c, "rx"), next))
      \/ /\ c.responses # << >>
         /\ \/ Update(h, StreamTaken(c))
            \/ Update(h, Fails(StreamTaken(c)))
            \/ Update(h, Goes(StreamTaken(c), "close"))
  BY DEF PollStream, StreamTaken
<1> QED BY <1>1, <1>2, GoesSane DEF OwnStep, Update, PollStream

LEMMA SendLeftoverSane ==
  ASSUME TypeOK, NEW h \in Handles, SendLeftover(h) PROVE TypeOK'
<1> DEFINE c == client[h]
<1>1. Sane(c)
  BY SaneClients
<1>2. CASE c.pending_payload = << >>
  BY <1>1, <1>2, GoesSane, OwnStepSane DEF SendLeftover, OwnStep, Update
<1>3. CASE c.pending_payload # << >>
  <2>1. c.pending_payload[1] \in Requests
    BY <1>1, <1>3 DEF Sane, ClientType, AtMostOne
  <2>2. Sane([c EXCEPT !.pending_payload = << >>])
    BY <1>1 DEF Sane, ClientType, AtMostOne
  <2> QED BY <1>3, <2>1, <2>2, StartSendSane DEF SendLeftover
<1> QED BY <1>2, <1>3

LEMMA PollOutgoingSane ==
  ASSUME TypeOK, NEW h \in Handles, PollOutgoing(h) PROVE TypeOK'
<1> DEFINE c == client[h]
<1>1. Sane(c) /\ Sane(Register(c, "strong")) /\ Sane([c EXCEPT !.shutting_down = TRUE])
  <2>1. Sane(c)
    BY SaneClients
  <2>2. Sane([c EXCEPT !.shutting_down = TRUE])
    BY <2>1 DEF Sane, ClientType
  <2> QED BY <2>1, <2>2, RegisterSane
<1>2. CASE c.pending_payload = << >> /\ c.todo # << >>
  <2>1. Head(c.todo) \in Requests /\ Tail(c.todo) \in Seq(Requests)
    BY <1>1, <1>2 DEF Sane, ClientType
  <2>2. Sane([c EXCEPT !.todo = Tail(@)])
    BY <1>1, <2>1 DEF Sane, ClientType
  <2> QED BY <1>2, <2>1, <2>2, StartSendSane DEF PollOutgoing
<1>3. CASE ~(c.pending_payload = << >> /\ c.todo # << >>)
  <2>1. OwnStep(h)
    BY <1>1, <1>3, GoesSane DEF PollOutgoing, OwnStep, Update
  <2> QED BY <2>1, OwnStepSane
<1> QED BY <1>2, <1>3

LEMMA CallSane ==
  ASSUME TypeOK, NEW p \in Requests, Call(p) PROVE Owner[p] \in Handles /\ OwnStep(Owner[p])
<1> DEFINE c == client[Owner[p]]
<1>1. Owner[p] \in Handles
  BY DEF Call
<1>2. Sane(c)
  BY <1>1, SaneClients
<1>3. Append(c.todo, p) \in Seq(Requests)
  BY <1>2 DEF Sane, ClientType
<1>4. Sane([c EXCEPT !.todo = Append(@, p)])
  BY <1>2, <1>3 DEF Sane, ClientType
<1> QED BY <1>1, <1>4, NotifySane DEF Call, OwnStep, Update

LEMMA NewClientSane == Sane(NewClient)
  BY DEF Sane, ClientType, NewClient, AtMostOne

LEMMA IoPairSane == ASSUME TypeOK, NEW h \in Handles, io_pair(h) PROVE OwnStep(h)
  BY NewClientSane DEF io_pair, OwnStep

(* The core answers, or goes.                                              *)
LEMMA NotifyAllSane ==
  ASSUME TypeOK, client' \in [Handles -> {client'[h] : h \in Handles}],
         \A h \in Handles : client'[h] \in {client[h], Notify(client[h], "oneshot")}
  PROVE  client' \in [Handles -> ClientType] /\ \A h \in Handles : Sane(client'[h])
<1>1. \A h \in Handles : Sane(client'[h])
  BY SaneClients, NotifySane
<1> QED BY <1>1 DEF Sane

LEMMA FinishSane ==
  ASSUME TypeOK, NEW value \in {"ok", "bad", "error"}, Finish(value) PROVE TypeOK'
<1>1. client' \in [Handles -> ClientType] /\ \A h \in Handles : Sane(client'[h])
  BY NotifyAllSane DEF Finish
<1>2. response' \in [Requests -> Values] /\ current' \in AtMostOne
  BY DEF Finish, TypeOK, AtMostOne, Values
<1> QED BY <1>1, <1>2 DEF Finish, TypeOK, Sane

LEMMA CoreSane ==
  ASSUME TypeOK, Build \/ TakeRequest \/ CoreEnds \/ CoreStops \/ HeadArrives PROVE TypeOK'
<1>1. CASE Build \/ CoreEnds \/ HeadArrives
  BY <1>1 DEF Build, create, CoreEnds, HeadArrives, TypeOK
<1>2. CASE TakeRequest
  <2>1. current' \in AtMostOne /\ request_rx' \in Seq(Requests)
    BY <1>2 DEF TakeRequest, TypeOK, AtMostOne
  <2> QED BY <1>2, <2>1 DEF TakeRequest, TypeOK
<1>3. CASE CoreStops
  <2>1. client' \in [Handles -> ClientType] /\ \A h \in Handles : Sane(client'[h])
    BY <1>3, NotifyAllSane DEF CoreStops
  <2>2. response' \in [Requests -> Values] /\ current' \in AtMostOne /\ request_rx' \in Seq(Requests)
    BY <1>3 DEF CoreStops, TypeOK, AtMostOne, Values
  <2> QED BY <1>3, <2>1, <2>2 DEF CoreStops, TypeOK, Sane
<1> QED BY <1>1, <1>2, <1>3

(* Every variable keeps its type.                                          *)
THEOREM TypeCorrect == Spec => []TypeOK
<1>1. Init => TypeOK
  <2> SUFFICES ASSUME Init PROVE TypeOK
    OBVIOUS
  <2>1. Sane(NoClient)
    BY NewClientSane DEF Sane, ClientType, NoClient
  <2>2. client \in [Handles -> ClientType] /\ \A h \in Handles : Sane(client[h])
    BY <2>1 DEF Init, Sane
  <2>3. response \in [Requests -> Values]
    BY DEF Init, Values
  <2>4. request_rx \in Seq(Requests) /\ current \in AtMostOne
    BY DEF Init, AtMostOne
  <2> QED BY <2>2, <2>3, <2>4, SaneClients DEF Init
<1>2. TypeOK /\ [Next]_vars => TypeOK'
  <2> SUFFICES ASSUME TypeOK, [Next]_vars PROVE TypeOK'
    OBVIOUS
  <2>1. ASSUME NEW h \in Handles,
               io_pair(h) \/ Poll(h) \/ PollStep(h) \/ DropClient(h) \/ LastUserGoes(h)
        PROVE  TypeOK'
    BY <2>1, IoPairSane, PollSane, PollStreamSane, OwnStepSane, SendLeftoverSane, PollOutgoingSane
    DEF PollStep
  <2>2. ASSUME NEW p \in Requests, Call(p) PROVE TypeOK'
    BY <2>2, CallSane, OwnStepSane
  <2>3. ASSUME NEW p \in Requests, Send(p) PROVE TypeOK'
    BY <2>3, RequestSentType DEF Send, TypeOK
  <2>4. CASE DropHandle \/ UNCHANGED vars
    BY <2>4 DEF DropHandle, TypeOK
  <2> QED BY <2>1, <2>2, <2>3, <2>4, CoreSane, FinishSane
          DEF Next, Peer, BodyEnds, HttpFails, TimesOut
<1> QED BY <1>1, <1>2, PTL DEF Spec

-----------------------------------------------------------------------------
(* Where the requests are                                                  *)

Alive(c) == ~Gone(c) /\ ~c.failed /\ c.result = "none"
HasReason(h, r) == \E p \in Requests : Owner[p] = h /\ r[p] \in {"error", "gone", "bad"}

\* The requests that a client c of the handle h has, when the oneshots of all
\* requests hold r: those not sent yet are new, the one in flight and those
\* in the stream are its own, and none but the one in flight is pending.
Place(h, c, r) ==
  /\ \A p \in ToSet(c.todo) \cup ToSet(c.pending_payload) : Owner[p] = h /\ r[p] = "none"
  /\ IsInjective(c.todo) /\ ToSet(c.todo) \cap ToSet(c.pending_payload) = {}
  /\ \A p \in ToSet(c.in_flight) : Owner[p] = h /\ r[p] # "none"
  /\ c.with = "buffered" => \A p \in ToSet(c.in_flight) : r[p] \in Bodies
  /\ \A p \in ToSet(c.responses) : Owner[p] = h /\ r[p] \in Bodies
  /\ c.pc = "none" => c.in_flight = << >>
  /\ c.pc # "dropped" =>
       \A p \in Requests : Owner[p] = h /\ r[p] = "pending" => p \in ToSet(c.in_flight)

InOrder(c) == Alive(c) => c.accepted = c.received \o c.responses \o c.in_flight
Reason(h, c, r) == c.failed => HasReason(h, r)
ClientInv(h, c, r) == Place(h, c, r) /\ InOrder(c) /\ Reason(h, c, r)

\* What is pending is in the core, once; of a client there is one.
CoreInv ==
  /\ IsInjective(request_rx) /\ ToSet(request_rx) \cap ToSet(current) = {}
  /\ \A p \in Requests : response[p] = "pending" <=> p \in ToSet(request_rx) \cup ToSet(current)
  /\ \A p, q \in Requests :
       response[p] = "pending" /\ response[q] = "pending" /\ Owner[p] = Owner[q]
         /\ Owner[p] \in Handles => p = q

HoldInv == CoreInv /\ \A h \in Handles : ClientInv(h, client[h], response)

(* The members of what holds one request at most.                          *)
LEMMA OneRequest ==
  ASSUME NEW s \in AtMostOne
  PROVE  /\ s = << >> \/ (s[1] \in Requests /\ s = <<s[1]>> /\ ToSet(s) = {s[1]} /\ Tail(s) = << >>)
         /\ s \in Seq(Requests)
<1>1. CASE s = << >>
  BY <1>1
<1>2. ASSUME NEW p \in Requests, s = <<p>>
      PROVE  s[1] \in Requests /\ s = <<s[1]>> /\ ToSet(s) = {s[1]} /\ Tail(s) = << >>
             /\ s \in Seq(Requests)
  <2>1. s[1] = p /\ Tail(s) = << >> /\ s \in Seq(Requests)
    BY <1>2
  <2> QED BY <1>2, <2>1, ToSetSmall
<1> QED BY <1>1, <1>2 DEF AtMostOne

\* The fields that ClientInv is about.
SameRequests(c, d) ==
  /\ d.todo = c.todo /\ d.pending_payload = c.pending_payload
  /\ d.with = c.with /\ d.in_flight = c.in_flight /\ d.responses = c.responses
  /\ d.accepted = c.accepted /\ d.received = c.received

LEMMA ClientInvKept ==
  ASSUME NEW h, NEW c, NEW d, NEW r, ClientInv(h, c, r), SameRequests(c, d),
         d.pc # "dropped" => c.pc # "dropped", d.pc = "none" => c.pc = "none",
         Alive(d) => Alive(c),
         d.failed => c.failed \/ HasReason(h, r)
  PROVE  ClientInv(h, d, r)
  BY DEF ClientInv, Place, InOrder, Reason, SameRequests

(* The state of the task, and where its poll is, matter to none of it.     *)
LEMMA TaskKept ==
  ASSUME NEW h, NEW c, Sane(c), NEW r, ClientInv(h, c, r)
  PROVE  /\ \A s : ClientInv(h, Notify(c, s), r) /\ ClientInv(h, Register(c, s), r)
         /\ \A next \in {"idle", "leftover", "rx", "outgoing", "flush", "shutdown_rx", "close"} :
              c.pc \notin {"none", "dropped"} => ClientInv(h, Goes(c, next), r)
         /\ HasReason(h, r) /\ c.pc \notin {"none", "dropped"} => ClientInv(h, Fails(c), r)
<1>1. ASSUME NEW s PROVE ClientInv(h, Notify(c, s), r)
  <2>1. /\ SameRequests(c, Notify(c, s)) /\ Notify(c, s).pc = c.pc
        /\ Notify(c, s).failed = c.failed /\ Notify(c, s).result = c.result
    BY DEF Sane, ClientType, Notify, SameRequests
  <2> QED BY <2>1, ClientInvKept DEF Alive, Gone
<1>2. ASSUME NEW s PROVE ClientInv(h, Register(c, s), r)
  <2>1. /\ SameRequests(c, Register(c, s)) /\ Register(c, s).pc = c.pc
        /\ Register(c, s).failed = c.failed /\ Register(c, s).result = c.result
    BY DEF Sane, ClientType, Register, SameRequests
  <2> QED BY <2>1, ClientInvKept DEF Alive, Gone
<1>3. ASSUME NEW next \in {"idle", "leftover", "rx", "outgoing", "flush", "shutdown_rx", "close"},
             c.pc \notin {"none", "dropped"}
      PROVE  ClientInv(h, Goes(c, next), r)
  <2>1. /\ SameRequests(c, Goes(c, next)) /\ Goes(c, next).pc = next
        /\ Goes(c, next).failed = c.failed /\ Goes(c, next).result = c.result
    BY DEF Sane, ClientType, Goes, SameRequests
  <2> QED BY <1>3, <2>1, ClientInvKept DEF Alive, Gone
<1>4. ASSUME HasReason(h, r), c.pc \notin {"none", "dropped"} PROVE ClientInv(h, Fails(c), r)
  <2>1. SameRequests(c, Fails(c)) /\ Fails(c).failed /\ Fails(c).pc = "shutdown_rx"
    BY DEF Sane, ClientType, Fails, SameRequests
  <2> QED BY <1>4, <2>1, ClientInvKept DEF Alive
<1> QED BY <1>1, <1>2, <1>3, <1>4

(* The oneshots of other requests get values, or lose their senders.       *)
LEMMA OthersAnswered ==
  ASSUME NEW h \in Handles, NEW c, Sane(c), NEW r, NEW r2, ClientInv(h, c, r),
         \A p \in Requests : \/ r2[p] = r[p]
                             \/ r[p] = "pending" /\ r2[p] \notin {"none", "pending"}
                             \/ r[p] = "none" /\ Owner[p] # h
  PROVE  ClientInv(h, c, r2)
<1>1. \A s \in Seq(Requests) : ToSet(s) \subseteq Requests
  BY DEF ToSet
<1>2. /\ c.todo \in Seq(Requests) /\ c.pending_payload \in Seq(Requests)
      /\ c.in_flight \in Seq(Requests) /\ c.responses \in Seq(Requests)
  BY OneRequest DEF Sane, ClientType
<1>3. Place(h, c, r2)
  BY <1>1, <1>2 DEF ClientInv, Place, Bodies
<1>4. Reason(h, c, r2)
  BY DEF ClientInv, Reason, HasReason
<1> QED BY <1>3, <1>4 DEF ClientInv

(* What With::poll does with the request in flight.                        *)
LEMMA PollWithEffect ==
  ASSUME NEW c, Sane(c)
  PROVE  LET d == PollWith(c) IN
         /\ d.pc = c.pc /\ d.failed = c.failed /\ d.result = c.result /\ d.users = c.users
         /\ d.shutting_down = c.shutting_down
         /\ d.todo = c.todo /\ d.pending_payload = c.pending_payload
         /\ d.accepted = c.accepted /\ d.received = c.received
         /\ \/ /\ SinkFails(c)
               /\ d.with = "empty" /\ d.in_flight = << >> /\ d.responses = c.responses
            \/ /\ ~SinkFails(c) /\ Responded(c) /\ c.responses = << >>
               /\ d.with = "empty" /\ d.in_flight = << >> /\ d.responses = c.in_flight
            \/ /\ ~SinkFails(c) /\ SinkBlocked(c)
               /\ d.with \in {c.with, "buffered"} /\ (d.with = "buffered" => Responded(c))
               /\ d.in_flight = c.in_flight /\ d.responses = c.responses
            \/ /\ ~SinkFails(c) /\ ~Responded(c) /\ ~SinkBlocked(c) /\ d = c
<1>1. CASE SinkFails(c)
  BY <1>1 DEF Sane, ClientType, PollWith, Emptied
<1>2. CASE ~SinkFails(c) /\ Unanswered(c)
  BY <1>2 DEF Sane, ClientType, PollWith, Register, SinkBlocked, Responded, Unanswered, Bodies
<1>3. CASE ~SinkFails(c) /\ ~Unanswered(c) /\ SinkBlocked(c)
  <2>1. PollWith(c) = Register([c EXCEPT !.with = "buffered"], "slot") /\ Responded(c)
    BY <1>3 DEF PollWith, SinkBlocked
  <2> QED BY <1>3, <2>1 DEF Sane, ClientType, Register
<1>4. CASE ~SinkFails(c) /\ ~Unanswered(c) /\ ~SinkBlocked(c) /\ Responded(c)
  <2>1. PollWith(c) = Notify(Emptied(Put(c)), "rx") /\ c.responses = << >>
    BY <1>4 DEF PollWith, SinkBlocked
  <2>2. c.responses \o c.in_flight = c.in_flight
    BY <2>1, OneRequest, ConcatEmptySeq DEF Sane, ClientType
  <2> QED BY <1>4, <2>1, <2>2 DEF Sane, ClientType, Notify, Emptied, Put
<1>5. CASE ~SinkFails(c) /\ ~Unanswered(c) /\ ~SinkBlocked(c) /\ ~Responded(c)
  BY <1>5 DEF PollWith
<1> QED BY <1>1, <1>2, <1>3, <1>4, <1>5

(* It keeps every request in its place, and if it fails, that has a reason.*)
LEMMA PollWithKeeps ==
  ASSUME NEW h, NEW c, Sane(c), ClientInv(h, c, response)
  PROVE  /\ Place(h, PollWith(c), response) /\ Reason(h, PollWith(c), response)
         /\ ~SinkFails(c) => ClientInv(h, PollWith(c), response)
         /\ SinkFails(c) => HasReason(h, response)
<1> DEFINE d == PollWith(c)
<1>1. /\ c.in_flight \in AtMostOne /\ c.in_flight \in Seq(Requests) /\ c.received \in Seq(Requests)
      /\ c.responses \in AtMostOne /\ c.responses \in Seq(Requests)
  BY OneRequest DEF Sane, ClientType
<1>2. CASE SinkFails(c)
  <2>1. c.in_flight # << >> /\ response[c.in_flight[1]] \in {"error", "gone"}
    BY <1>2 DEF Sane, SinkFails
  <2>2. c.in_flight[1] \in Requests /\ ToSet(c.in_flight) = {c.in_flight[1]}
    BY <1>1, <2>1, OneRequest
  <2>3. HasReason(h, response)
    BY <2>1, <2>2 DEF ClientInv, Place, HasReason
  <2>4. Place(h, d, response)
    BY <1>2, <2>1, <2>2, PollWithEffect, ToSetSmall DEF ClientInv, Place
  <2> QED BY <1>2, <2>3, <2>4 DEF Reason
<1>3. CASE ~SinkFails(c) /\ Responded(c) /\ c.responses = << >>
  <2>1. c.in_flight # << >> /\ response[c.in_flight[1]] \in Bodies
    <3>1. c.in_flight # << >>
      BY <1>3 DEF Sane, Responded
    <3>2. ToSet(c.in_flight) = {c.in_flight[1]}
      BY <1>1, <3>1, OneRequest
    <3> QED BY <1>3, <3>1, <3>2 DEF Responded, ClientInv, Place
  <2>2. ToSet(c.in_flight) = {c.in_flight[1]}
    BY <1>1, <2>1, OneRequest
  <2>3. d.with = "empty" /\ d.in_flight = << >> /\ d.responses = c.in_flight
    BY <1>3, PollWithEffect DEF SinkBlocked, Unanswered, Responded, Bodies
  <2>4. Place(h, d, response)
    BY <2>1, <2>2, <2>3, PollWithEffect, ToSetSmall DEF ClientInv, Place, Bodies
  <2>5. d.received \o d.responses \o d.in_flight = c.received \o c.responses \o c.in_flight
    <3>1. c.received \o c.in_flight \in Seq(Requests)
      BY <1>1
    <3>2. d.received = c.received
      BY PollWithEffect
    <3>3. c.received \o c.in_flight \o << >> = c.received \o c.in_flight
      BY <3>1, ConcatEmptySeq
    <3>4. c.received \o << >> = c.received
      BY <1>1, ConcatEmptySeq
    <3> HIDE DEF d
    <3> QED BY <1>3, <2>3, <3>2, <3>3, <3>4
  <2>6. InOrder(d) /\ Reason(h, d, response)
    BY <2>5, PollWithEffect DEF ClientInv, InOrder, Reason, Alive, Gone
  <2> QED BY <1>3, <2>4, <2>6 DEF ClientInv
<1>4. CASE ~SinkFails(c) /\ ~(Responded(c) /\ c.responses = << >>)
  <2>1. /\ d.in_flight = c.in_flight /\ d.responses = c.responses
        /\ d.with \in {c.with, "buffered"} /\ (d.with = "buffered" => c.with = "buffered" \/ Responded(c))
    BY <1>4, PollWithEffect
  <2>2. d.with = "buffered" => \A p \in ToSet(d.in_flight) : response[p] \in Bodies
    <3>1. CASE c.with = "buffered"
      BY <2>1, <3>1 DEF ClientInv, Place
    <3>2. CASE c.with # "buffered" /\ d.with = "buffered"
      <4>1. Responded(c) /\ c.with = "process" /\ response[c.in_flight[1]] \in Bodies
        BY <2>1, <3>2 DEF Responded
      <4>2. ToSet(c.in_flight) = {c.in_flight[1]}
        BY <1>1, <4>1, OneRequest DEF Sane
      <4> QED BY <2>1, <4>1, <4>2
    <3> QED BY <3>1, <3>2
  <2>3. Place(h, d, response)
    BY <2>1, <2>2, PollWithEffect DEF ClientInv, Place
  <2>4. InOrder(d) /\ Reason(h, d, response)
    BY <2>1, PollWithEffect DEF ClientInv, InOrder, Reason, Alive, Gone
  <2> QED BY <1>4, <2>3, <2>4 DEF ClientInv
<1> QED BY <1>2, <1>3, <1>4

(* A new request goes to the core.                                         *)
LEMMA RequestQueued ==
  ASSUME TypeOK, CoreInv, NEW p \in Requests, response[p] = "none", unbounded_send(p),
         UNCHANGED current,
         Owner[p] \in Handles => \A q \in Requests : Owner[q] = Owner[p] => response[q] # "pending"
  PROVE  /\ CoreInv' /\ response' \in [Requests -> Values]
         /\ response'[p] \in {"pending", "error"}
         /\ \A q \in Requests : q # p => response'[q] = response[q]
<1>1. /\ response'[p] \in {"pending", "error"} /\ response' \in [Requests -> Values]
      /\ \A q \in Requests : q # p => response'[q] = response[q]
  BY RequestSentType DEF TypeOK, unbounded_send
<1>2. p \notin ToSet(request_rx) \cup ToSet(current)
  BY DEF CoreInv
<1>3. CASE core = "running"
  <2>1. response'[p] = "pending" /\ request_rx' = Append(request_rx, p)
    BY <1>3 DEF TypeOK, unbounded_send
  <2>2. /\ ToSet(request_rx') = ToSet(request_rx) \cup {p} /\ IsInjective(request_rx')
    BY <1>2, <2>1, ToSetAppend, InjectiveAppend DEF TypeOK, CoreInv
  <2> QED BY <1>1, <1>2, <2>1, <2>2 DEF CoreInv
<1>4. CASE core # "running"
  <2>1. response'[p] = "error" /\ UNCHANGED request_rx
    BY <1>4 DEF TypeOK, unbounded_send
  <2> QED BY <1>1, <1>2, <2>1 DEF CoreInv
<1> QED BY <1>1, <1>3, <1>4

LEMMA UpdateHold ==
  ASSUME TypeOK, HoldInv, NEW h \in Handles, NEW c, client' = [client EXCEPT ![h] = c],
         ClientInv(h, c, response), UNCHANGED <<request_rx, current, response>>
  PROVE  HoldInv'
  BY UpdateOne DEF HoldInv, CoreInv

LEMMA StartSendHold ==
  ASSUME TypeOK, HoldInv, NEW h \in Handles, NEW c, Sane(c), ClientInv(h, c, response),
         c.pc \in {"leftover", "outgoing"}, c.pending_payload = << >>,
         NEW p \in Requests, Owner[p] = h, response[p] = "none", p \notin ToSet(c.todo),
         NEW next \in {"rx", "outgoing"}, start_send(h, c, p, next), UNCHANGED current
  PROVE  HoldInv'
<1> DEFINE d == PollWith(c)
<1>1. Sane(d) /\ d.pc = c.pc /\ d.todo = c.todo /\ d.pending_payload = << >>
      /\ d.failed = c.failed /\ d.result = c.result
  BY PollWithSane, PollWithEffect
<1>2. CASE Takes(c) /\ unbounded_send(p) /\ client' = [client EXCEPT ![h] = SendTaken(c, p, next)]
  <2>1. ~SinkFails(c)
    BY <1>2 DEF Takes, SinkReady, SinkFails, Responded, Bodies, Place, ClientInv
  <2>2. ClientInv(h, d, response)
    BY <2>1, PollWithKeeps
  <2>3. d.with = "empty" /\ d.in_flight = << >>
    BY <1>2, <2>1, PollWithEffect DEF Takes, SinkReady, SinkBlocked, Responded, Unanswered, Sane, Bodies
  <2>4. \A q \in Requests : Owner[q] = h => response[q] # "pending"
    BY <1>1, <2>2, <2>3, ToSetSmall DEF ClientInv, Place
  <2>5. /\ CoreInv' /\ response'[p] \in {"pending", "error"}
        /\ \A q \in Requests : q # p => response'[q] = response[q]
    BY <1>2, <2>4, RequestQueued DEF HoldInv
  <2> DEFINE e == SendTaken(c, p, next)
  <2>6. /\ e.pc = next /\ e.with = "process" /\ e.in_flight = <<p>>
        /\ e.accepted = Append(d.accepted, p)
        /\ e.todo = d.todo /\ e.pending_payload = d.pending_payload /\ e.responses = d.responses
        /\ e.received = d.received /\ e.failed = d.failed /\ e.result = d.result
    BY <1>1 DEF SendTaken, Goes, Sane, ClientType
  <2> HIDE DEF d, e
  <2>7. /\ d.todo \in Seq(Requests) /\ d.responses \in Seq(Requests)
        /\ d.received \in Seq(Requests) /\ d.accepted \in Seq(Requests)
    BY <1>1, OneRequest DEF Sane, ClientType
  <2>8. Place(h, e, response')
    <3>1. \A q \in ToSet(e.todo) \cup ToSet(e.pending_payload) : Owner[q] = h /\ response'[q] = "none"
      <4>1. \A q \in ToSet(d.todo) : q \in Requests /\ q # p
        BY <1>1, <2>7 DEF ToSet
      <4> QED BY <1>1, <2>2, <2>5, <2>6, <4>1, ToSetSmall DEF ClientInv, Place
    <3>2. \A q \in ToSet(e.in_flight) : Owner[q] = h /\ response'[q] # "none"
      BY <2>5, <2>6, ToSetSmall
    <3>3. \A q \in ToSet(e.responses) : Owner[q] = h /\ response'[q] \in Bodies
      <4>1. \A q \in ToSet(d.responses) : q \in Requests /\ response[q] \in Bodies /\ Owner[q] = h
        BY <2>2, <2>7 DEF ToSet, ClientInv, Place
      <4>2. \A q \in ToSet(d.responses) : q # p
        BY <4>1 DEF Bodies
      <4> QED BY <2>5, <2>6, <4>1, <4>2
    <3>4. \A q \in Requests : Owner[q] = h /\ response'[q] = "pending" => q \in ToSet(e.in_flight)
      BY <2>4, <2>5, <2>6, ToSetSmall
    <3>5. IsInjective(e.todo) /\ ToSet(e.todo) \cap ToSet(e.pending_payload) = {}
      BY <2>2, <2>6 DEF ClientInv, Place
    <3> QED BY <2>6, <3>1, <3>2, <3>3, <3>4, <3>5 DEF Place
  <2>9. InOrder(e)
    <3>1. SUFFICES ASSUME Alive(e) PROVE e.accepted = e.received \o e.responses \o e.in_flight
      BY DEF InOrder
    <3>2. Alive(d)
      BY <1>1, <2>6, <3>1 DEF Alive, Gone
    <3>3. d.accepted = d.received \o d.responses
      <4>1. d.received \o d.responses \in Seq(Requests)
        BY <2>7
      <4>2. d.accepted = d.received \o d.responses \o << >>
        BY <2>2, <2>3, <3>2 DEF ClientInv, InOrder
      <4> QED BY <4>1, <4>2, ConcatEmptySeq
    <3>4. d.received \o d.responses \in Seq(Requests)
      BY <2>7
    <3>5. Append(d.received \o d.responses, p) = d.received \o d.responses \o <<p>>
      BY <3>4, AppendLast
    <3> QED BY <2>6, <3>3, <3>5
  <2>10. Reason(h, e, response')
    <3>1. HasReason(h, response) => HasReason(h, response')
      BY <2>5 DEF HasReason
    <3> QED BY <2>2, <2>6, <3>1 DEF ClientInv, Reason
  <2>11. ASSUME NEW g \in Handles \ {h} PROVE ClientInv(g, client'[g], response')
    <3>1. client'[g] = client[g] /\ Sane(client[g]) /\ ClientInv(g, client[g], response)
      BY <1>2, UpdateOne, SaneClients DEF HoldInv
    <3> QED BY <2>5, <3>1, OthersAnswered
  <2>12. client'[h] = e
    BY <1>2, UpdateOne DEF e
  <2> QED BY <2>5, <2>8, <2>9, <2>10, <2>11, <2>12 DEF HoldInv, ClientInv
<1>3. ASSUME NEW e, client' = [client EXCEPT ![h] = e], UNCHANGED <<request_rx, response>>,
             ClientInv(h, e, response)
      PROVE  HoldInv'
  BY <1>3, UpdateHold
<1>4. CASE /\ ~Takes(c) /\ ~SinkFails(c) /\ UNCHANGED <<request_rx, response>>
           /\ client' = [client EXCEPT ![h] = SendRefused(c, p, next)]
  <2>1. ClientInv(h, d, response)
    BY <1>4, PollWithKeeps
  <2> DEFINE e == SendRefused(c, p, next)
  <2>2. /\ e.pc = next /\ e.pending_payload = <<p>>
        /\ e.with = d.with /\ e.in_flight = d.in_flight /\ e.accepted = d.accepted
        /\ e.todo = d.todo /\ e.responses = d.responses
        /\ e.received = d.received /\ e.failed = d.failed /\ e.result = d.result
    BY <1>1 DEF SendRefused, Goes, Sane, ClientType
  <2>3. Place(h, e, response)
    BY <1>1, <2>1, <2>2, ToSetSmall DEF ClientInv, Place
  <2>4. InOrder(e) /\ Reason(h, e, response)
    BY <1>1, <2>1, <2>2 DEF ClientInv, InOrder, Reason, Alive, Gone
  <2> QED BY <1>3, <1>4, <2>3, <2>4 DEF ClientInv
<1>5. CASE /\ SinkFails(c) /\ UNCHANGED <<request_rx, response>>
           /\ client' = [client EXCEPT ![h] = Fails(d)]
  <2>1. Place(h, d, response) /\ HasReason(h, response)
    BY <1>5, PollWithKeeps
  <2>2. ClientInv(h, Fails(d), response)
    BY <1>1, <2>1 DEF ClientInv, Place, InOrder, Reason, Alive, Fails, Sane, ClientType
  <2> QED BY <1>3, <1>5, <2>2
<1> QED BY <1>2, <1>4, <1>5 DEF start_send, SendTaken, SendRefused

(* A client is made: nothing of it is in the core yet.                     *)
LEMMA IoPairHold == ASSUME TypeOK, HoldInv, NEW h \in Handles, io_pair(h) PROVE HoldInv'
<1>1. client[h].pc = "none" /\ ClientInv(h, client[h], response)
  BY DEF io_pair, HoldInv
<1>2. \A p \in Requests : Owner[p] = h => response[p] # "pending"
  BY <1>1, ToSetSmall DEF ClientInv, Place
<1>3. << >> = << >> \o << >> \o << >>
  <2>1. << >> \in Seq(Requests)
    OBVIOUS
  <2> QED BY <2>1, ConcatEmptySeq
<1>4. Place(h, NewClient, response)
  BY <1>2, ToSetSmall DEF Place, NewClient, IsInjective
<1>5. ClientInv(h, NewClient, response)
  BY <1>3, <1>4 DEF ClientInv, InOrder, Reason, NewClient
<1> QED BY <1>5, UpdateHold DEF io_pair

LEMMA PollHold ==
  ASSUME TypeOK, HoldInv, NEW h \in Handles, Poll(h) \/ LastUserGoes(h) PROVE HoldInv'
<1> DEFINE c == client[h]
<1>1. Sane(c) /\ ClientInv(h, c, response) /\ c.pc \notin {"none", "dropped"}
  BY SaneClients DEF HoldInv, Poll, LastUserGoes, Gone
<1>2. CASE Poll(h)
  <2> DEFINE e == [c EXCEPT !.woken = FALSE,
                            !.pc = IF c.failed \/ c.shutting_down THEN "shutdown_rx" ELSE "leftover"]
  <2>1. /\ SameRequests(c, e) /\ e.failed = c.failed /\ e.result = c.result
        /\ e.pc \in {"shutdown_rx", "leftover"}
    BY <1>1 DEF SameRequests, Sane, ClientType
  <2>2. ClientInv(h, e, response)
    <3> HIDE DEF e
    <3> QED BY <1>1, <2>1, ClientInvKept DEF Alive, Gone
  <2> QED BY <1>2, <2>2, UpdateHold DEF Poll, Update
<1>3. CASE LastUserGoes(h)
  <2> DEFINE e == [c EXCEPT !.users = FALSE]
  <2>1. SameRequests(c, e) /\ e.failed = c.failed /\ e.result = c.result /\ e.pc = c.pc /\ Sane(e)
    BY <1>1 DEF SameRequests, Sane, ClientType
  <2>2. ClientInv(h, e, response)
    BY <1>1, <2>1, ClientInvKept DEF Alive, Gone
  <2>3. ClientInv(h, Notify(e, "strong"), response)
    BY <2>1, <2>2, TaskKept
  <2> QED BY <1>3, <2>3, UpdateHold DEF LastUserGoes, Update
<1> QED BY <1>2, <1>3

LEMMA FlushHold == ASSUME TypeOK, HoldInv, NEW h \in Handles, Flush(h) PROVE HoldInv'
<1> DEFINE c == client[h]
           d == PollWith(c)
<1>1. /\ Sane(c) /\ ClientInv(h, c, response) /\ c.pc = "flush" /\ Sane(d) /\ d.pc = "flush"
      /\ d.failed = c.failed /\ d.result = c.result
  BY SaneClients, PollWithSane, PollWithEffect DEF HoldInv, Flush
<1>2. CASE SinkFails(c)
  <2>1. Place(h, d, response) /\ HasReason(h, response)
    BY <1>1, <1>2, PollWithKeeps
  <2>2. ClientInv(h, Fails(d), response)
    BY <1>1, <2>1 DEF ClientInv, Place, InOrder, Reason, Alive, Fails, Sane, ClientType
  <2> QED BY <1>2, <2>2, UpdateHold DEF Flush, Update
<1>3. CASE ~SinkFails(c)
  <2>1. ClientInv(h, Goes(d, "idle"), response)
    BY <1>1, <1>3, PollWithKeeps, TaskKept
  <2> QED BY <1>3, <2>1, UpdateHold DEF Flush, Flushed, Update
<1> QED BY <1>2, <1>3

LEMMA CloseHold == ASSUME TypeOK, HoldInv, NEW h \in Handles, Close(h) PROVE HoldInv'
<1> DEFINE c == client[h]
           d == PollWith(c)
<1>1. /\ Sane(c) /\ ClientInv(h, c, response) /\ c.pc = "close" /\ Sane(d) /\ d.pc = "close"
      /\ d.failed = c.failed /\ d.result = c.result
  BY SaneClients, PollWithSane, PollWithEffect DEF HoldInv, Close
<1>2. CASE SinkBlocked(c)
  <2>1. ~SinkFails(c)
    BY <1>2 DEF SinkBlocked, Unanswered, Responded, SinkFails, Bodies
  <2>2. ClientInv(h, Goes(d, "idle"), response)
    BY <1>1, <2>1, PollWithKeeps, TaskKept
  <2> QED BY <1>2, <2>2, UpdateHold DEF Close, Update
<1>3. CASE ~SinkBlocked(c)
  <2> DEFINE e == [d EXCEPT !.pc = "resolved", !.result = IF c.failed THEN "error" ELSE "ok"]
  <2>1. Place(h, d, response) /\ Reason(h, d, response)
    BY <1>1, PollWithKeeps
  <2>2. /\ e.pc = "resolved" /\ e.result # "none" /\ e.failed = d.failed
        /\ SameRequests(d, e)
    BY <1>1 DEF Sane, ClientType, SameRequests
  <2>3. ClientInv(h, e, response)
    <3> HIDE DEF d, e
    <3> QED BY <1>1, <2>1, <2>2 DEF ClientInv, Place, InOrder, Reason, Alive, SameRequests
  <2> QED BY <1>3, <2>3, UpdateHold DEF Close, Update
<1> QED BY <1>2, <1>3

LEMMA DropHold == ASSUME TypeOK, HoldInv, NEW h \in Handles, DropClient(h) PROVE HoldInv'
<1>1. Sane(client[h]) /\ ClientInv(h, client[h], response)
  BY SaneClients DEF HoldInv
<1> DEFINE e == [client[h] EXCEPT !.pc = "dropped", !.woken = FALSE, !.registered = {},
                                  !.todo = << >>, !.pending_payload = << >>, !.with = "empty",
                                  !.in_flight = << >>, !.responses = << >>]
<1>2. /\ e.pc = "dropped" /\ e.todo = << >> /\ e.pending_payload = << >> /\ e.with = "empty"
      /\ e.in_flight = << >> /\ e.responses = << >> /\ e.failed = client[h].failed
  BY <1>1 DEF Sane, ClientType
<1>3. ClientInv(h, e, response)
  <2> HIDE DEF e
  <2> QED BY <1>1, <1>2, ToSetSmall DEF ClientInv, Place, InOrder, Reason, Alive, Gone, IsInjective
<1> QED BY <1>3, UpdateHold DEF DropClient, Update

(* A response is taken out of the stream.                                  *)
LEMMA PollStreamHold == ASSUME TypeOK, HoldInv, NEW h \in Handles, PollStream(h) PROVE HoldInv'
<1> DEFINE c == client[h]
           p == c.responses[1]
           e == [c EXCEPT !.responses = Tail(@), !.received = Append(@, p)]
<1>1. Sane(c) /\ ClientInv(h, c, response) /\ c.pc \in {"rx", "shutdown_rx"}
  BY SaneClients DEF HoldInv, PollStream
<1>2. CASE c.responses = << >>
  <2>1. \A next \in {"outgoing", "close"} : ClientInv(h, Goes(Register(c, "rx"), next), response)
    <3>1. Register(c, "rx").pc = c.pc
      BY <1>1 DEF Register, Sane, ClientType
    <3>2. Sane(Register(c, "rx"))
      BY <1>1, RegisterSane
    <3> QED BY <1>1, <3>1, <3>2, TaskKept
  <2> QED BY <1>2, <2>1, UpdateHold DEF PollStream, Update
<1>3. CASE c.responses # << >>
  <2>1. p \in Requests /\ c.responses = <<p>> /\ ToSet(c.responses) = {p} /\ Tail(c.responses) = << >>
    BY <1>1, <1>3, OneRequest DEF Sane, ClientType
  <2>2. /\ e.responses = << >> /\ e.received = Append(c.received, p)
        /\ e.todo = c.todo /\ e.pending_payload = c.pending_payload /\ e.with = c.with
        /\ e.in_flight = c.in_flight /\ e.accepted = c.accepted
        /\ e.pc = c.pc /\ e.failed = c.failed /\ e.result = c.result
    BY <1>1, <2>1 DEF Sane, ClientType
  <2>3. Sane(e) /\ Sane(StreamTaken(c)) /\ StreamTaken(c) = Notify(e, "slot")
    <3>1. Append(c.received, p) \in Seq(Requests) /\ << >> \in AtMostOne
      BY <1>1, <2>1 DEF Sane, ClientType, AtMostOne
    <3> QED BY <1>1, <1>3, <2>1, <3>1, StreamSane DEF StreamTaken, Sane, ClientType
  <2>4. c.received \o c.responses \o c.in_flight = e.received \o e.responses \o e.in_flight
    <3>1. c.received \in Seq(Requests)
      BY <1>1 DEF Sane, ClientType
    <3>2. c.received \o c.responses = Append(c.received, p)
      BY <2>1, <3>1, AppendLast
    <3>3. Append(c.received, p) \in Seq(Requests)
      BY <2>1, <3>1
    <3>4. Append(c.received, p) \o << >> = Append(c.received, p)
      BY <3>3, ConcatEmptySeq
    <3> HIDE DEF e
    <3> QED BY <2>2, <3>2, <3>4
  <2>5. ClientInv(h, e, response)
    <3> HIDE DEF e
    <3>1. Place(h, e, response)
      BY <1>1, <2>2, ToSetSmall DEF ClientInv, Place
    <3>2. InOrder(e) /\ Reason(h, e, response)
      BY <1>1, <2>2, <2>4 DEF ClientInv, InOrder, Reason, Alive, Gone
    <3> QED BY <3>1, <3>2 DEF ClientInv
  <2>6. ClientInv(h, StreamTaken(c), response) /\ StreamTaken(c).pc = c.pc
    <3>1. Notify(e, "slot").pc = e.pc
      BY <2>3 DEF Notify, Sane, ClientType
    <3> QED BY <2>2, <2>3, <2>5, <3>1, TaskKept
  <2>7. response[p] = "bad" => HasReason(h, response)
    BY <1>1, <2>1 DEF ClientInv, Place, HasReason
  <2>8. \/ Update(h, StreamTaken(c))
        \/ response[p] = "bad" /\ Update(h, Fails(StreamTaken(c)))
        \/ Update(h, Goes(StreamTaken(c), "close"))
    BY <1>3 DEF PollStream, StreamTaken
  <2>9. \A f \in {StreamTaken(c), Goes(StreamTaken(c), "close")} : ClientInv(h, f, response)
    BY <1>1, <2>3, <2>6, TaskKept
  <2>10. response[p] = "bad" => ClientInv(h, Fails(StreamTaken(c)), response)
    BY <1>1, <2>3, <2>6, <2>7, TaskKept
  <2> QED BY <2>8, <2>9, <2>10, UpdateHold DEF Update, PollStream
<1> QED BY <1>2, <1>3

(* The messages of the users are given to the sink one by one.             *)
LEMMA SendLeftoverHold ==
  ASSUME TypeOK, HoldInv, NEW h \in Handles, SendLeftover(h) PROVE HoldInv'
<1> DEFINE c == client[h]
           p == c.pending_payload[1]
           e == [c EXCEPT !.pending_payload = << >>]
<1>1. Sane(c) /\ ClientInv(h, c, response) /\ c.pc = "leftover"
  BY SaneClients DEF HoldInv, SendLeftover
<1>2. CASE c.pending_payload = << >>
  BY <1>1, <1>2, TaskKept, UpdateHold DEF SendLeftover, Update
<1>3. CASE c.pending_payload # << >>
  <2>1. p \in Requests /\ ToSet(c.pending_payload) = {p}
    BY <1>1, <1>3, OneRequest DEF Sane, ClientType
  <2>2. Owner[p] = h /\ response[p] = "none" /\ p \notin ToSet(c.todo)
    BY <1>1, <2>1 DEF ClientInv, Place
  <2>3. /\ e.pending_payload = << >> /\ e.todo = c.todo /\ e.with = c.with
        /\ e.in_flight = c.in_flight /\ e.responses = c.responses /\ e.accepted = c.accepted
        /\ e.received = c.received /\ e.pc = c.pc /\ e.failed = c.failed /\ e.result = c.result
    BY <1>1 DEF Sane, ClientType
  <2>4. Sane(e)
    BY <1>1 DEF Sane, ClientType, AtMostOne
  <2>5. start_send(h, e, p, "rx") /\ UNCHANGED current
    BY <1>3 DEF SendLeftover
  <2> HIDE DEF e, p
  <2>6. ClientInv(h, e, response)
    BY <1>1, <2>3, ToSetSmall DEF ClientInv, Place, InOrder, Reason, Alive, Gone
  <2> QED BY <1>1, <2>1, <2>2, <2>3, <2>4, <2>5, <2>6, StartSendHold
<1> QED BY <1>2, <1>3

LEMMA PollOutgoingHold ==
  ASSUME TypeOK, HoldInv, NEW h \in Handles, PollOutgoing(h) PROVE HoldInv'
<1> DEFINE c == client[h]
           p == Head(c.todo)
           e == [c EXCEPT !.todo = Tail(@)]
           f == [c EXCEPT !.shutting_down = TRUE]
<1>1. Sane(c) /\ ClientInv(h, c, response) /\ c.pc = "outgoing"
  BY SaneClients DEF HoldInv, PollOutgoing
<1>2. CASE c.pending_payload = << >> /\ c.todo # << >>
  <2>1. /\ c.todo \in Seq(Requests) /\ p \in Requests /\ p \in ToSet(c.todo)
        /\ Tail(c.todo) \in Seq(Requests)
        /\ IsInjective(Tail(c.todo)) /\ ToSet(Tail(c.todo)) = ToSet(c.todo) \ {p}
    <3>1. c.todo \in Seq(Requests) /\ IsInjective(c.todo)
      BY <1>1 DEF Sane, ClientType, ClientInv, Place
    <3> QED BY <1>2, <3>1, InjectiveTail, ToSetHeadTail
  <2>2. Owner[p] = h /\ response[p] = "none"
    BY <1>1, <2>1 DEF ClientInv, Place
  <2>3. /\ e.pending_payload = << >> /\ e.todo = Tail(c.todo) /\ e.with = c.with
        /\ e.in_flight = c.in_flight /\ e.responses = c.responses /\ e.accepted = c.accepted
        /\ e.received = c.received /\ e.pc = c.pc /\ e.failed = c.failed /\ e.result = c.result
    BY <1>1, <1>2 DEF Sane, ClientType
  <2>4. Sane(e)
    BY <1>1, <2>1 DEF Sane, ClientType
  <2>5. start_send(h, e, p, "outgoing") /\ UNCHANGED current
    BY <1>2 DEF PollOutgoing
  <2> HIDE DEF e, p
  <2>6. ClientInv(h, e, response)
    BY <1>1, <1>2, <2>1, <2>3, ToSetSmall DEF ClientInv, Place, InOrder, Reason, Alive, Gone
  <2> QED BY <1>1, <2>1, <2>2, <2>3, <2>4, <2>5, <2>6, StartSendHold
<1>3. CASE ~(c.pending_payload = << >> /\ c.todo # << >>)
  <2>1. Sane(f) /\ f.pc = c.pc /\ SameRequests(c, f) /\ f.failed = c.failed /\ f.result = c.result
    BY <1>1 DEF Sane, ClientType, SameRequests
  <2>2. ClientInv(h, f, response)
    <3> HIDE DEF f
    <3> QED BY <1>1, <2>1, ClientInvKept DEF Alive, Gone
  <2>3. Sane(Register(c, "strong"))
    BY <1>1, RegisterSane
  <2>4. Register(c, "strong").pc = c.pc
    BY <1>1 DEF Register, Sane, ClientType
  <2>5. \E d \in {Goes(c, "flush"), Goes(Register(c, "strong"), "flush"), Goes(f, "shutdown_rx")} :
          client' = [client EXCEPT ![h] = d]
    BY <1>3 DEF PollOutgoing, Update
  <2>6. \A d \in {Goes(c, "flush"), Goes(Register(c, "strong"), "flush"), Goes(f, "shutdown_rx")} :
          ClientInv(h, d, response)
    <3> HIDE DEF f
    <3> QED BY <1>1, <2>1, <2>2, <2>3, <2>4, TaskKept
  <2>7. UNCHANGED <<request_rx, current, response>>
    BY <1>3 DEF PollOutgoing
  <2> QED BY <2>5, <2>6, <2>7, UpdateHold
<1> QED BY <1>2, <1>3

(* A user calls: the request is new to its client.                         *)
LEMMA CallHold == ASSUME TypeOK, HoldInv, NEW p \in Requests, Call(p) PROVE HoldInv'
<1> DEFINE h == Owner[p]
           c == client[h]
           e == [c EXCEPT !.todo = Append(@, p)]
<1>1. /\ h \in Handles /\ Sane(c) /\ ClientInv(h, c, response) /\ c.pc \notin {"none", "dropped"}
      /\ response[p] = "none"
  BY SaneClients DEF HoldInv, Call, Gone
<1>2. c.todo \in Seq(Requests) /\ c.pending_payload \in Seq(Requests)
  BY <1>1, OneRequest DEF Sane, ClientType
<1>3. p \notin ToSet(c.todo) /\ p \notin ToSet(c.pending_payload)
  BY <1>2, ContainsToSet DEF Call, ToSet
<1>4. /\ Append(c.todo, p) \in Seq(Requests) /\ IsInjective(Append(c.todo, p))
      /\ ToSet(Append(c.todo, p)) = ToSet(c.todo) \cup {p}
  BY <1>1, <1>2, <1>3, ToSetAppend, InjectiveAppend DEF ClientInv, Place
<1>5. /\ e.todo = Append(c.todo, p) /\ e.pending_payload = c.pending_payload /\ e.with = c.with
      /\ e.in_flight = c.in_flight /\ e.responses = c.responses /\ e.accepted = c.accepted
      /\ e.received = c.received /\ e.pc = c.pc /\ e.failed = c.failed /\ e.result = c.result
  BY <1>1 DEF Sane, ClientType
<1>6. Sane(e)
  BY <1>1, <1>4 DEF Sane, ClientType
<1>7. ClientInv(h, e, response)
  <2> HIDE DEF e
  <2>1. Place(h, e, response)
    BY <1>1, <1>3, <1>4, <1>5 DEF ClientInv, Place
  <2>2. InOrder(e) /\ Reason(h, e, response)
    BY <1>1, <1>5 DEF ClientInv, InOrder, Reason, Alive, Gone
  <2> QED BY <2>1, <2>2 DEF ClientInv
<1>8. ClientInv(h, Notify(e, "strong"), response)
  BY <1>6, <1>7, TaskKept
<1> QED BY <1>1, <1>8, UpdateHold DEF Call, Update

(* HttpHandle::send bypasses the clients.                                  *)
LEMMA SendHold == ASSUME TypeOK, HoldInv, NEW p \in Requests, Send(p) PROVE HoldInv'
<1>1. Owner[p] \notin Handles
  BY NoHandleIsNone DEF Send
<1>2. /\ CoreInv' /\ response'[p] \in {"pending", "error"}
      /\ \A q \in Requests : q # p => response'[q] = response[q]
  BY <1>1, RequestQueued DEF Send, HoldInv
<1>3. ASSUME NEW g \in Handles PROVE ClientInv(g, client'[g], response')
  <2>1. client'[g] = client[g] /\ Sane(client[g]) /\ ClientInv(g, client[g], response)
    BY SaneClients DEF Send, HoldInv
  <2>2. Owner[p] # g /\ response[p] = "none"
    BY <1>1 DEF Send
  <2> QED BY <1>2, <2>1, <2>2, OthersAnswered
<1> QED BY <1>2, <1>3 DEF HoldInv

(* What was pending is answered, or nobody will answer it any more; who    *)
(* waits for it may hear of that.                                          *)
LEMMA AnswersHold ==
  ASSUME TypeOK, HoldInv, CoreInv',
         \A p \in Requests :
           \/ response'[p] = response[p]
           \/ response[p] = "pending" /\ response'[p] \notin {"none", "pending"},
         \A h \in Handles : client'[h] \in {client[h], Notify(client[h], "oneshot")}
  PROVE  HoldInv'
<1>1. ASSUME NEW g \in Handles PROVE ClientInv(g, client'[g], response')
  <2>1. Sane(client[g]) /\ ClientInv(g, client[g], response)
    BY SaneClients DEF HoldInv
  <2>2. Sane(client'[g]) /\ ClientInv(g, client'[g], response)
    BY <2>1, NotifySane, TaskKept
  <2> QED BY <2>2, OthersAnswered
<1> QED BY <1>1 DEF HoldInv

LEMMA FinishHold ==
  ASSUME TypeOK, HoldInv, NEW value \in {"ok", "bad", "error"}, Finish(value) PROVE HoldInv'
<1> DEFINE p == current[1]
<1>1. p \in Requests /\ ToSet(current) = {p} /\ current' = << >> /\ UNCHANGED request_rx
  BY OneRequest DEF TypeOK, Finish
<1>2. response[p] = "pending" /\ p \notin ToSet(request_rx)
  BY <1>1 DEF HoldInv, CoreInv
<1>3. response'[p] = value /\ \A q \in Requests : q # p => response'[q] = response[q]
  BY <1>1 DEF TypeOK, Finish
<1> HIDE DEF p
<1>4. CoreInv'
  BY <1>1, <1>2, <1>3, ToSetSmall DEF HoldInv, CoreInv
<1>5. \A h \in Handles : client'[h] \in {client[h], Notify(client[h], "oneshot")}
  BY DEF Finish
<1>6. \A q \in Requests :
           \/ response'[q] = response[q]
           \/ response[q] = "pending" /\ response'[q] \notin {"none", "pending"}
  BY <1>2, <1>3
<1> QED BY <1>4, <1>5, <1>6, AnswersHold

LEMMA CoreHold ==
  ASSUME TypeOK, HoldInv, Build \/ TakeRequest \/ CoreEnds \/ CoreStops \/ HeadArrives PROVE HoldInv'
<1>1. CASE Build \/ CoreEnds \/ HeadArrives
  BY <1>1 DEF Build, CoreEnds, HeadArrives, HoldInv, CoreInv
<1>2. CASE TakeRequest
  <2>1. /\ request_rx \in Seq(Requests) /\ request_rx # << >> /\ current = << >>
        /\ current' = <<Head(request_rx)>> /\ request_rx' = Tail(request_rx)
        /\ UNCHANGED <<response, client>>
    BY <1>2 DEF TakeRequest, TypeOK
  <2>2. /\ IsInjective(request_rx') /\ ToSet(request_rx') = ToSet(request_rx) \ {Head(request_rx)}
        /\ Head(request_rx) \in ToSet(request_rx)
    BY <2>1, InjectiveTail, ToSetHeadTail DEF HoldInv, CoreInv
  <2>3. ToSet(current) = {} /\ ToSet(current') = {Head(request_rx)}
    BY <2>1, ToSetSmall
  <2> QED BY <2>1, <2>2, <2>3 DEF HoldInv, CoreInv
<1>3. CASE CoreStops
  <2>1. CoreInv'
    BY <1>3, ToSetSmall DEF CoreStops, CoreInv, IsInjective
  <2>2. \A h \in Handles : client'[h] \in {client[h], Notify(client[h], "oneshot")}
    BY <1>3 DEF CoreStops
  <2>3. \A p \in Requests :
           \/ response'[p] = response[p]
           \/ response[p] = "pending" /\ response'[p] \notin {"none", "pending"}
    BY <1>3 DEF CoreStops
  <2> QED BY <2>1, <2>2, <2>3, AnswersHold
<1> QED BY <1>1, <1>2, <1>3

LEMMA HoldInvHolds == Spec => []HoldInv
<1>1. Init => HoldInv
  <2> SUFFICES ASSUME Init PROVE HoldInv
    OBVIOUS
  <2>1. CoreInv
    BY ToSetSmall DEF Init, CoreInv, IsInjective
  <2>2. ASSUME NEW h \in Handles PROVE ClientInv(h, client[h], response)
    <3>1. /\ client[h].pc = "none" /\ client[h].todo = << >> /\ client[h].pending_payload = << >>
          /\ client[h].with = "empty" /\ client[h].in_flight = << >> /\ client[h].responses = << >>
          /\ client[h].failed = FALSE
      BY <2>2 DEF Init, NoClient, NewClient
    <3>2. \A p \in Requests : response[p] = "none"
      BY DEF Init
    <3>3. Place(h, client[h], response)
      BY <3>1, <3>2, ToSetSmall DEF Place, IsInjective
    <3> QED BY <3>1, <3>3 DEF ClientInv, InOrder, Reason, Alive, Gone
  <2> QED BY <2>1, <2>2 DEF HoldInv
<1>2. TypeOK /\ HoldInv /\ [Next]_vars => HoldInv'
  <2> SUFFICES ASSUME TypeOK, HoldInv, [Next]_vars PROVE HoldInv'
    OBVIOUS
  <2>1. ASSUME NEW h \in Handles,
               io_pair(h) \/ Poll(h) \/ PollStep(h) \/ DropClient(h) \/ LastUserGoes(h)
        PROVE  HoldInv'
    BY <2>1, IoPairHold, PollHold, PollStreamHold, SendLeftoverHold, PollOutgoingHold, FlushHold,
       CloseHold, DropHold DEF PollStep
  <2>2. ASSUME NEW p \in Requests, Call(p) \/ Send(p) PROVE HoldInv'
    BY <2>2, CallHold, SendHold
  <2>3. CASE DropHandle \/ UNCHANGED vars
    BY <2>3 DEF DropHandle, HoldInv, CoreInv
  <2> QED BY <2>1, <2>2, <2>3, CoreHold, FinishHold
          DEF Next, Peer, BodyEnds, HttpFails, TimesOut
<1> QED BY <1>1, <1>2, TypeCorrect, PTL DEF Spec

LEMMA InCoreMembers == TypeOK => InCore = ToSet(request_rx) \cup ToSet(current) /\ InCore \subseteq Requests
<1> SUFFICES ASSUME TypeOK PROVE InCore = ToSet(request_rx) \cup ToSet(current) /\ InCore \subseteq Requests
  OBVIOUS
<1>1. InCore = ToSet(request_rx) \cup ToSet(current)
  BY DEF InCore, ToSet
<1>2. request_rx \in Seq(Requests) /\ current \in Seq(Requests)
  BY OneRequest DEF TypeOK
<1> QED BY <1>1, <1>2 DEF ToSet

(* A request is pending exactly as long as the core has it, and it is      *)
(* there once: whoever waits is answered, and no more than once            *)
(* (create_request_processing_future, send_fut).                           *)
THEOREM PendingIsHeldHolds == Spec => []PendingIsHeld
<1>1. TypeOK /\ HoldInv => PendingIsHeld
  <2> SUFFICES ASSUME TypeOK, HoldInv PROVE PendingIsHeld
    OBVIOUS
  <2>1. \A p \in Requests : response[p] = "pending" <=> p \in InCore
    BY InCoreMembers DEF HoldInv, CoreInv
  <2>2. IsFiniteSet(ToSet(request_rx)) /\ Cardinality(ToSet(request_rx)) = Len(request_rx)
    BY InjectiveCardinality DEF TypeOK, HoldInv, CoreInv
  <2>3. IsFiniteSet(ToSet(current)) /\ Cardinality(ToSet(current)) = Len(current)
    <3>1. current \in Seq(Requests) /\ IsInjective(current)
      BY OneRequest DEF TypeOK, AtMostOne, IsInjective
    <3> QED BY <3>1, InjectiveCardinality
  <2>4. ToSet(request_rx) \cap ToSet(current) = {}
    BY DEF HoldInv, CoreInv
  <2>5. Cardinality(InCore) = Len(request_rx) + Len(current)
    <3>1. Cardinality(ToSet(request_rx) \cup ToSet(current))
            = Cardinality(ToSet(request_rx)) + Cardinality(ToSet(current)) - Cardinality({})
      BY <2>2, <2>3, <2>4, FS_Union
    <3>2. Cardinality({}) = 0
      BY FS_EmptySet
    <3>3. Len(request_rx) \in Nat /\ Len(current) \in Nat
      BY OneRequest DEF TypeOK
    <3>4. Cardinality(InCore)
            = Cardinality(ToSet(request_rx)) + Cardinality(ToSet(current)) - Cardinality({})
      BY <3>1, InCoreMembers
    <3>5. Cardinality(ToSet(request_rx)) = Len(request_rx) /\ Cardinality(ToSet(current)) = Len(current)
      BY <2>2, <2>3
    <3> QED BY <3>2, <3>3, <3>4, <3>5
  <2> QED BY <2>1, <2>5 DEF PendingIsHeld
<1> QED BY <1>1, TypeCorrect, HoldInvHolds, PTL

(* No client has more than one request in the core, whose queue is         *)
(* unbounded: start_send waits for the response (With).                    *)
THEOREM OneRequestEachHolds == Spec => []OneRequestEach
<1>1. TypeOK /\ HoldInv => OneRequestEach
  <2> SUFFICES ASSUME TypeOK, HoldInv, NEW h \in Handles
               PROVE  Cardinality({p \in InCore : Owner[p] = h}) <= 1
    BY DEF OneRequestEach
  <2>1. \A p, q \in {x \in InCore : Owner[x] = h} : p = q
    BY InCoreMembers DEF HoldInv, CoreInv
  <2> QED BY <2>1, AtMostOneElement
<1> QED BY <1>1, TypeCorrect, HoldInvHolds, PTL

(* Between a sink that accepted requests and the stream that gives their   *)
(* responses nothing is lost, repeated or overtaken, as long as the client *)
(* has neither failed nor been dropped (io_pair: with, and_then).          *)
THEOREM NothingLostOrOvertakenHolds == Spec => []NothingLostOrOvertaken
<1>1. HoldInv => NothingLostOrOvertaken
  BY DEF HoldInv, ClientInv, InOrder, Alive, NothingLostOrOvertaken
<1> QED BY <1>1, HoldInvHolds, PTL

(* A client fails by a request of its own only, and for a reason.          *)
THEOREM FailsByItsOwnHolds == Spec => []FailsByItsOwn
<1>1. HoldInv => FailsByItsOwn
  BY DEF HoldInv, ClientInv, Reason, HasReason, FailsByItsOwn
<1> QED BY <1>1, HoldInvHolds, PTL

-----------------------------------------------------------------------------
(* No client misses what it waits for                                      *)

\* The task of the client c hears of the response it waits for, when the
\* oneshots hold r, or of the room for a response it has got already.
Waiting(c, r) ==
  c.with = "process" /\ r[c.in_flight[1]] = "pending" /\ "oneshot" \in c.registered
WaitsForRoom(c) == c.with = "buffered" /\ c.responses # << >> /\ "slot" \in c.registered

\* What a task that is not woken hears of, from where its poll has come to.
StreamHeard(c) ==
  c.pc \in {"outgoing", "flush", "idle"} => c.responses = << >> /\ "rx" \in c.registered
LeftoverHeard(c, r) ==
  c.pc \in {"rx", "outgoing", "flush", "idle"} /\ c.pending_payload # << >> =>
    Waiting(c, r) \/ WaitsForRoom(c)
UsersHeard(c) ==
  c.pc \in {"flush", "idle"} /\ c.pending_payload = << >> =>
    c.todo = << >> /\ c.users /\ "strong" \in c.registered
SinkHeard(c, r) == c.pc = "idle" => c.with = "empty" \/ Waiting(c, r)
ServingHeard(c, r) == StreamHeard(c) /\ LeftoverHeard(c, r) /\ UsersHeard(c) /\ SinkHeard(c, r)

Closing(c) == c.failed \/ c.shutting_down
WhereItIs(c) ==
  /\ c.pc = "close" => c.responses = << >>
  /\ c.pc \in {"leftover", "rx", "outgoing", "flush"} => ~Closing(c)
  /\ c.pc \in {"shutdown_rx", "close"} => Closing(c)
Heard(c, r) ==
  ~c.woken => IF Closing(c) THEN c.pc = "idle" => Waiting(c, r) ELSE ServingHeard(c, r)
WakeInv(c, r) == WhereItIs(c) /\ Heard(c, r)

\* Where a poll begins, or comes to an end, nothing needs to be heard of.
Quiet(c) == c.pc \notin {"rx", "outgoing", "flush", "idle"}

LEMMA QuietHeard == ASSUME NEW c, Quiet(c), NEW r PROVE Heard(c, r)
  BY DEF Quiet, Heard, ServingHeard, StreamHeard, LeftoverHeard, UsersHeard, SinkHeard

(* An answer somebody else waits for.                                      *)
LEMMA WakeOthers ==
  ASSUME NEW c, NEW r, NEW r2, WakeInv(c, r), Waiting(c, r) => Waiting(c, r2)
  PROVE  WakeInv(c, r2)
  BY DEF WakeInv, Heard, ServingHeard, LeftoverHeard, SinkHeard

(* The fields of a record after an event.                                  *)
LEMMA NotifyEffect ==
  ASSUME NEW c, Sane(c), NEW s
  PROVE  LET d == Notify(c, s) IN
         /\ d.woken <=> c.woken \/ s \in c.registered
         /\ d.registered = c.registered \ {s}
         /\ SameRequests(c, d) /\ d.pc = c.pc /\ d.failed = c.failed
         /\ d.shutting_down = c.shutting_down /\ d.users = c.users
  BY DEF Sane, ClientType, Notify, SameRequests

LEMMA RegisterEffect ==
  ASSUME NEW c, Sane(c), NEW s
  PROVE  LET d == Register(c, s) IN
         /\ d.woken = c.woken /\ d.registered = c.registered \cup {s}
         /\ SameRequests(c, d) /\ d.pc = c.pc /\ d.failed = c.failed
         /\ d.shutting_down = c.shutting_down /\ d.users = c.users
  BY DEF Sane, ClientType, Register, SameRequests

LEMMA GoesEffect ==
  ASSUME NEW c, Sane(c), NEW next
  PROVE  LET d == Goes(c, next) IN
         /\ d.woken = c.woken /\ d.registered = c.registered
         /\ SameRequests(c, d) /\ d.pc = next /\ d.failed = c.failed
         /\ d.shutting_down = c.shutting_down /\ d.users = c.users
  BY DEF Sane, ClientType, Goes, SameRequests

(* The answer a client waits for, if it waits: it is woken.                *)
LEMMA WakeNotified ==
  ASSUME NEW c, Sane(c), NEW r, NEW r2, WakeInv(c, r) PROVE WakeInv(Notify(c, "oneshot"), r2)
<1> DEFINE d == Notify(c, "oneshot")
<1>1. /\ d.woken <=> c.woken \/ "oneshot" \in c.registered
      /\ d.registered = c.registered \ {"oneshot"}
      /\ SameRequests(c, d) /\ d.pc = c.pc /\ d.failed = c.failed
      /\ d.shutting_down = c.shutting_down /\ d.users = c.users
  BY NotifyEffect
<1> HIDE DEF d
<1>2. WhereItIs(d)
  BY <1>1 DEF WakeInv, WhereItIs, Closing, SameRequests
<1>3. ASSUME ~d.woken PROVE ~c.woken /\ ~Waiting(c, r) /\ d.registered = c.registered
  BY <1>1, <1>3 DEF Waiting
<1>4. Heard(d, r2)
  BY <1>1, <1>3 DEF WakeInv, Heard, ServingHeard, StreamHeard, LeftoverHeard, UsersHeard, SinkHeard,
                    WaitsForRoom, Closing, SameRequests
<1> QED BY <1>2, <1>4 DEF WakeInv, d

(* What With::poll leaves the task registered for.                         *)
LEMMA PollWithTask ==
  ASSUME NEW c, Sane(c), ~SinkFails(c)
  PROVE  LET d == PollWith(c) IN
         /\ Unanswered(c) =>
              d.woken = c.woken /\ d.registered = c.registered \cup {"oneshot"} /\ d.with = "process"
         /\ Responded(c) /\ c.responses # << >> =>
              d.woken = c.woken /\ d.registered = c.registered \cup {"slot"} /\ d.with = "buffered"
         /\ Responded(c) /\ c.responses = << >> =>
              (d.woken <=> c.woken \/ "rx" \in c.registered) /\ d.registered = c.registered \ {"rx"}
         /\ ~Unanswered(c) /\ ~Responded(c) => d = c
<1>1. Unanswered(c) => PollWith(c) = Register(c, "oneshot") /\ ~Responded(c) /\ c.with = "process"
  BY DEF PollWith, Unanswered, Responded, Bodies
<1>2. Responded(c) /\ c.responses # << >> =>
        PollWith(c) = Register([c EXCEPT !.with = "buffered"], "slot")
  BY <1>1 DEF PollWith, SinkBlocked
<1>3. Responded(c) /\ c.responses = << >> => PollWith(c) = Notify(Emptied(Put(c)), "rx")
  BY <1>1 DEF PollWith, SinkBlocked
<1>4. ~Unanswered(c) /\ ~Responded(c) => PollWith(c) = c
  BY DEF PollWith, SinkBlocked
<1>5. CASE Unanswered(c)
  BY <1>1, <1>5 DEF Sane, ClientType, Register
<1>6. CASE Responded(c) /\ c.responses # << >>
  BY <1>1, <1>2, <1>6 DEF Sane, ClientType, Register
<1>7. CASE Responded(c) /\ c.responses = << >>
  BY <1>1, <1>3, <1>7 DEF Sane, ClientType, Notify, Emptied, Put
<1> QED BY <1>4, <1>5, <1>6, <1>7

(* A request that With processes has been sent.                            *)
LEMMA KnownResponse ==
  ASSUME TypeOK, NEW h, NEW c, Sane(c), ClientInv(h, c, response), c.with = "process"
  PROVE  response[c.in_flight[1]] \in {"pending", "gone", "ok", "bad", "error"}
<1>1. c.in_flight[1] \in Requests /\ ToSet(c.in_flight) = {c.in_flight[1]}
  BY OneRequest DEF Sane, ClientType
<1>2. response[c.in_flight[1]] \in Values /\ response[c.in_flight[1]] # "none"
  BY <1>1 DEF TypeOK, ClientInv, Place
<1> QED BY <1>2 DEF Values

(* start_send refuses a payload: the task will hear of the sink, and still *)
(* hears of the stream.                                                    *)
LEMMA RefusedHeard ==
  ASSUME TypeOK, NEW h, NEW c, Sane(c), ClientInv(h, c, response), ~SinkFails(c), ~Takes(c),
         NEW p, NEW next \in {"rx", "outgoing"},
         next = "outgoing" /\ ~c.woken => c.responses = << >> /\ "rx" \in c.registered,
         ~Closing(c)
  PROVE  WakeInv(SendRefused(c, p, next), response)
<1> DEFINE d == PollWith(c)
           e == SendRefused(c, p, next)
<1>1. Sane(d) /\ d.failed = c.failed /\ d.shutting_down = c.shutting_down
  BY PollWithSane, PollWithEffect
<1>2. /\ e.pc = next /\ e.pending_payload = <<p>> /\ e.with = d.with /\ e.in_flight = d.in_flight
      /\ e.responses = d.responses /\ e.woken = d.woken /\ e.registered = d.registered
      /\ e.failed = d.failed /\ e.shutting_down = d.shutting_down
  BY <1>1 DEF SendRefused, Goes, Sane, ClientType
<1>3. c.with \in {"process", "buffered"}
  BY DEF Takes, SinkReady, Sane, ClientType
<1>4. CASE Unanswered(c)
  <2>1. SinkBlocked(c) /\ ~Responded(c) /\ c.with = "process" /\ response[c.in_flight[1]] = "pending"
    BY <1>4 DEF SinkBlocked, Unanswered, Responded, Bodies
  <2>2. /\ d.woken = c.woken /\ d.registered = c.registered \cup {"oneshot"}
        /\ d.in_flight = c.in_flight /\ d.responses = c.responses /\ d.with = "process"
    BY <1>4, <2>1, PollWithTask, PollWithEffect
  <2> HIDE DEF d, e
  <2>3. WhereItIs(e) /\ Waiting(e, response)
    BY <1>1, <1>2, <2>1, <2>2 DEF WhereItIs, Closing, Waiting
  <2>4. ~e.woken => StreamHeard(e)
    BY <1>2, <2>2 DEF StreamHeard
  <2>5. LeftoverHeard(e, response) /\ UsersHeard(e) /\ SinkHeard(e, response)
    BY <1>2, <2>3 DEF LeftoverHeard, UsersHeard, SinkHeard
  <2>6. ~Closing(e)
    BY <1>1, <1>2 DEF Closing
  <2> QED BY <2>3, <2>4, <2>5, <2>6 DEF WakeInv, Heard, ServingHeard, e
<1>5. CASE Responded(c) /\ c.responses # << >>
  <2>1. SinkBlocked(c)
    BY <1>5 DEF SinkBlocked
  <2>2. /\ d.woken = c.woken /\ d.registered = c.registered \cup {"slot"} /\ d.with = "buffered"
        /\ d.in_flight = c.in_flight /\ d.responses = c.responses
    BY <1>5, <2>1, PollWithTask, PollWithEffect
  <2> HIDE DEF d, e
  <2>3. WhereItIs(e) /\ WaitsForRoom(e)
    BY <1>1, <1>2, <1>5, <2>2 DEF WhereItIs, Closing, WaitsForRoom
  <2>4. ~e.woken => StreamHeard(e)
    BY <1>2, <2>2 DEF StreamHeard
  <2>5. LeftoverHeard(e, response) /\ UsersHeard(e) /\ SinkHeard(e, response)
    BY <1>2, <2>3 DEF LeftoverHeard, UsersHeard, SinkHeard
  <2>6. ~Closing(e)
    BY <1>1, <1>2 DEF Closing
  <2> QED BY <2>3, <2>4, <2>5, <2>6 DEF WakeInv, Heard, ServingHeard, e
<1>6. Unanswered(c) \/ Responded(c)
  BY <1>3, KnownResponse DEF SinkFails, Unanswered, Responded, Bodies
<1>7. Responded(c) => c.responses # << >>
  BY DEF Takes, SinkReady
<1> QED BY <1>4, <1>5, <1>6, <1>7

(* start_send takes a payload: a response it puts into the stream wakes    *)
(* the task that waits there.                                              *)
LEMMA TakenHeard ==
  ASSUME TypeOK, NEW c, Sane(c), Takes(c), NEW p, NEW next \in {"rx", "outgoing"},
         c.pending_payload = << >>, NEW r,
         next = "outgoing" /\ ~c.woken => c.responses = << >> /\ "rx" \in c.registered,
         ~Closing(c)
  PROVE  WakeInv(SendTaken(c, p, next), r)
<1> DEFINE d == PollWith(c)
           e == SendTaken(c, p, next)
<1>1. Sane(d) /\ d.failed = c.failed /\ d.shutting_down = c.shutting_down /\ d.pending_payload = << >>
  BY PollWithSane, PollWithEffect
<1>2. /\ e.pc = next /\ e.pending_payload = << >>
      /\ e.responses = d.responses /\ e.woken = d.woken /\ e.registered = d.registered
      /\ e.failed = d.failed /\ e.shutting_down = d.shutting_down
  BY <1>1 DEF SendTaken, Goes, Sane, ClientType
<1>3. ~SinkFails(c) /\ ~Unanswered(c) /\ (Responded(c) => c.responses = << >>)
  BY DEF Takes, SinkReady, SinkFails, Unanswered, Responded, Bodies
<1>4. ~Responded(c) => d = c
  BY <1>3, PollWithTask
<1>5. next = "outgoing" /\ ~d.woken => d.responses = << >> /\ "rx" \in d.registered
  BY <1>3, <1>4, PollWithTask
<1> HIDE DEF d, e
<1>6. WhereItIs(e) /\ ~Closing(e)
  BY <1>1, <1>2 DEF WhereItIs, Closing
<1>7. ~e.woken => StreamHeard(e)
  BY <1>2, <1>5 DEF StreamHeard
<1>8. LeftoverHeard(e, r) /\ UsersHeard(e) /\ SinkHeard(e, r)
  BY <1>2 DEF LeftoverHeard, UsersHeard, SinkHeard
<1> QED BY <1>6, <1>7, <1>8 DEF WakeInv, Heard, ServingHeard, e

\* A client whose call failed, and one that ends its poll without an error.
LEMMA FailsHeard == ASSUME NEW c, Sane(c), NEW r PROVE WakeInv(Fails(c), r)
<1>1. Fails(c).pc = "shutdown_rx" /\ Fails(c).failed
  BY DEF Fails, Sane, ClientType
<1> QED BY <1>1, QuietHeard DEF Quiet, WakeInv, WhereItIs, Closing

(* The other clients do not notice a request of this one.                  *)
LEMMA WakeSent ==
  ASSUME TypeOK, HoldInv, NEW g \in Handles, WakeInv(client[g], response),
         \A p \in Requests : response[p] # "none" => response'[p] = response[p]
  PROVE  WakeInv(client[g], response')
<1> DEFINE c == client[g]
<1>1. Sane(c) /\ ClientInv(g, c, response)
  BY SaneClients DEF HoldInv
<1>2. Waiting(c, response) => Waiting(c, response')
  <2> SUFFICES ASSUME Waiting(c, response) PROVE Waiting(c, response')
    OBVIOUS
  <2>1. c.in_flight[1] \in Requests
    BY <1>1, OneRequest DEF Waiting, Sane, ClientType
  <2> QED BY <2>1 DEF Waiting
<1> QED BY <1>2, WakeOthers

LEMMA StartSendWake ==
  ASSUME TypeOK, HoldInv, NEW h \in Handles, \A g \in Handles : WakeInv(client[g], response),
         NEW c, Sane(c), ClientInv(h, c, response), ~Closing(c), c.pending_payload = << >>,
         NEW p \in Requests, response[p] = "none",
         NEW next \in {"rx", "outgoing"}, start_send(h, c, p, next),
         next = "outgoing" /\ ~c.woken => c.responses = << >> /\ "rx" \in c.registered
  PROVE  \A g \in Handles : WakeInv(client'[g], response')
<1>1. \A q \in Requests : response[q] # "none" => response'[q] = response[q]
  BY DEF start_send, unbounded_send, TypeOK
<1>2. \E e : client' = [client EXCEPT ![h] = e] /\ WakeInv(e, response')
  <2>1. CASE Takes(c)
    BY <2>1, TakenHeard DEF start_send, SendTaken, Takes, SinkReady, SinkFails, Responded, Bodies
  <2>2. CASE ~Takes(c) /\ ~SinkFails(c)
    BY <2>2, RefusedHeard DEF start_send, SendRefused
  <2>3. CASE SinkFails(c) /\ client' = [client EXCEPT ![h] = Fails(PollWith(c))]
    BY <2>3, PollWithSane, FailsHeard
  <2> QED BY <2>1, <2>2, <2>3 DEF start_send
<1>3. PICK e : client' = [client EXCEPT ![h] = e] /\ WakeInv(e, response')
  BY <1>2
<1>4. client'[h] = e /\ \A g \in Handles \ {h} : client'[g] = client[g]
  BY <1>3, UpdateOne
<1>5. \A g \in Handles \ {h} : WakeInv(client[g], response')
  BY <1>1, WakeSent
<1> QED BY <1>3, <1>4, <1>5

\* A step of one client that leaves the core and the oneshots alone.
LEMMA UpdateWake ==
  ASSUME TypeOK, \A g \in Handles : WakeInv(client[g], response), NEW h \in Handles, NEW c,
         client' = [client EXCEPT ![h] = c], WakeInv(c, response), UNCHANGED response
  PROVE  \A g \in Handles : WakeInv(client'[g], response')
  BY UpdateOne

LEMMA WakeBegin ==
  ASSUME TypeOK, \A g \in Handles : WakeInv(client[g], response), NEW h \in Handles,
         io_pair(h) \/ Poll(h) \/ DropClient(h)
  PROVE  \A g \in Handles : WakeInv(client'[g], response')
<1>1. Sane(client[h])
  BY SaneClients
<1>2. CASE io_pair(h)
  <2>1. WakeInv(NewClient, response)
    BY DEF NewClient, WakeInv, WhereItIs, Heard
  <2> QED BY <1>2, <2>1, UpdateWake DEF io_pair
<1>3. CASE Poll(h)
  <2> DEFINE c == client[h]
             e == [c EXCEPT !.woken = FALSE,
                            !.pc = IF c.failed \/ c.shutting_down THEN "shutdown_rx" ELSE "leftover"]
  <2>1. /\ e.pc = (IF Closing(c) THEN "shutdown_rx" ELSE "leftover")
        /\ e.failed = c.failed /\ e.shutting_down = c.shutting_down
    BY <1>1 DEF Sane, ClientType, Closing
  <2>2. WakeInv(e, response)
    <3> HIDE DEF e
    <3> QED BY <2>1, QuietHeard DEF Quiet, WakeInv, WhereItIs, Closing
  <2> QED BY <1>3, <2>2, UpdateWake DEF Poll, Update
<1>4. CASE DropClient(h)
  <2> DEFINE e == [client[h] EXCEPT !.pc = "dropped", !.woken = FALSE, !.registered = {},
                                    !.todo = << >>, !.pending_payload = << >>, !.with = "empty",
                                    !.in_flight = << >>, !.responses = << >>]
  <2>1. e.pc = "dropped"
    BY <1>1 DEF Sane, ClientType
  <2>2. WakeInv(e, response)
    <3> HIDE DEF e
    <3> QED BY <2>1, QuietHeard DEF Quiet, WakeInv, WhereItIs
  <2> QED BY <1>4, <2>2, UpdateWake DEF DropClient, Update
<1> QED BY <1>2, <1>3, <1>4

LEMMA WakeUsers ==
  ASSUME TypeOK, \A g \in Handles : WakeInv(client[g], response), NEW h \in Handles,
         NEW e, Sane(e), client' = [client EXCEPT ![h] = Notify(e, "strong")], UNCHANGED response,
         e.woken = client[h].woken, e.registered = client[h].registered, e.pc = client[h].pc,
         e.failed = client[h].failed, e.shutting_down = client[h].shutting_down,
         e.pending_payload = client[h].pending_payload, e.with = client[h].with,
         e.in_flight = client[h].in_flight, e.responses = client[h].responses
  PROVE  \A g \in Handles : WakeInv(client'[g], response')
<1> DEFINE c == client[h]
           d == Notify(e, "strong")
<1>1. /\ d.woken <=> c.woken \/ "strong" \in c.registered
      /\ d.registered = c.registered \ {"strong"}
      /\ SameRequests(e, d) /\ d.pc = c.pc /\ d.failed = c.failed
      /\ d.shutting_down = c.shutting_down
  BY NotifyEffect
<1>2. /\ d.pending_payload = c.pending_payload /\ d.with = c.with /\ d.in_flight = c.in_flight
      /\ d.responses = c.responses
  BY <1>1 DEF SameRequests
<1>3. WakeInv(c, response)
  OBVIOUS
<1> HIDE DEF c, d
<1>4. WhereItIs(d)
  BY <1>1, <1>2, <1>3 DEF WakeInv, WhereItIs, Closing
<1>5. CASE d.woken
  BY <1>4, <1>5, UpdateWake DEF WakeInv, Heard, d
<1>6. CASE ~d.woken
  <2>1. ~c.woken /\ "strong" \notin c.registered /\ d.registered = c.registered
    BY <1>1, <1>6
  <2>2. Heard(d, response)
    BY <1>1, <1>2, <1>3, <2>1
    DEF WakeInv, Heard, ServingHeard, StreamHeard, LeftoverHeard, UsersHeard, SinkHeard, Waiting,
        WaitsForRoom, Closing
  <2> QED BY <1>4, <2>2, UpdateWake DEF WakeInv, d
<1> QED BY <1>5, <1>6

LEMMA WakeCall ==
  ASSUME TypeOK, \A g \in Handles : WakeInv(client[g], response), NEW p \in Requests, Call(p)
  PROVE  \A g \in Handles : WakeInv(client'[g], response')
<1> DEFINE c == client[Owner[p]]
           e == [c EXCEPT !.todo = Append(@, p)]
<1>1. Owner[p] \in Handles /\ Sane(c)
  BY SaneClients DEF Call
<1>2. Append(c.todo, p) \in Seq(Requests)
  BY <1>1 DEF Sane, ClientType
<1>3. Sane(e)
  BY <1>1, <1>2 DEF Sane, ClientType
<1>4. /\ e.woken = c.woken /\ e.registered = c.registered /\ e.pc = c.pc
      /\ e.failed = c.failed /\ e.shutting_down = c.shutting_down
      /\ e.pending_payload = c.pending_payload /\ e.with = c.with
      /\ e.in_flight = c.in_flight /\ e.responses = c.responses
  BY <1>1 DEF Sane, ClientType
<1>5. client' = [client EXCEPT ![Owner[p]] = Notify(e, "strong")] /\ UNCHANGED response
  BY DEF Call, Update
<1> HIDE DEF e
<1> QED BY <1>1, <1>3, <1>4, <1>5, WakeUsers

LEMMA WakeLastUser ==
  ASSUME TypeOK, \A g \in Handles : WakeInv(client[g], response), NEW h \in Handles, LastUserGoes(h)
  PROVE  \A g \in Handles : WakeInv(client'[g], response')
<1> DEFINE c == client[h]
           e == [c EXCEPT !.users = FALSE]
<1>1. Sane(c)
  BY SaneClients
<1>2. Sane(e)
  BY <1>1 DEF Sane, ClientType
<1>3. /\ e.woken = c.woken /\ e.registered = c.registered /\ e.pc = c.pc
      /\ e.failed = c.failed /\ e.shutting_down = c.shutting_down
      /\ e.pending_payload = c.pending_payload /\ e.with = c.with
      /\ e.in_flight = c.in_flight /\ e.responses = c.responses
  BY <1>1 DEF Sane, ClientType
<1>4. client' = [client EXCEPT ![h] = Notify(e, "strong")] /\ UNCHANGED response
  BY DEF LastUserGoes, Update
<1> HIDE DEF e
<1> QED BY <1>2, <1>3, <1>4, WakeUsers

LEMMA WakeStream ==
  ASSUME TypeOK, \A g \in Handles : WakeInv(client[g], response), NEW h \in Handles, PollStream(h)
  PROVE  \A g \in Handles : WakeInv(client'[g], response')
<1> DEFINE c == client[h]
           e == [c EXCEPT !.responses = Tail(@), !.received = Append(@, c.responses[1])]
<1>1. Sane(c) /\ WakeInv(c, response) /\ c.pc \in {"rx", "shutdown_rx"}
  BY SaneClients DEF PollStream
<1>2. UNCHANGED response
  BY DEF PollStream
<1>3. CASE c.responses = << >>
  <2> DEFINE d == Register(c, "rx")
             f == Goes(d, IF c.pc = "rx" THEN "outgoing" ELSE "close")
  <2>1. Sane(d)
    BY <1>1, RegisterSane
  <2>2. /\ d.woken = c.woken /\ d.registered = c.registered \cup {"rx"} /\ SameRequests(c, d)
        /\ d.failed = c.failed /\ d.shutting_down = c.shutting_down
    BY <1>1, RegisterEffect
  <2>3. /\ f.woken = c.woken /\ f.registered = c.registered \cup {"rx"} /\ SameRequests(d, f)
        /\ f.failed = c.failed /\ f.shutting_down = c.shutting_down
        /\ f.pc = IF c.pc = "rx" THEN "outgoing" ELSE "close"
    BY <2>1, <2>2, GoesEffect
  <2>4. client' = [client EXCEPT ![h] = f]
    BY <1>3 DEF PollStream, Update
  <2>5. SameRequests(c, f)
    <3> HIDE DEF d, f
    <3> QED BY <2>2, <2>3 DEF SameRequests
  <2> HIDE DEF d, f
  <2>6. WhereItIs(f)
    BY <1>1, <1>3, <2>3, <2>5 DEF WakeInv, WhereItIs, Closing, SameRequests
  <2>7. Heard(f, response)
    BY <1>1, <1>3, <2>3, <2>5
    DEF WakeInv, WhereItIs, Heard, ServingHeard, StreamHeard, LeftoverHeard, UsersHeard, SinkHeard,
        Waiting, WaitsForRoom, Closing, SameRequests
  <2> QED BY <1>2, <2>4, <2>6, <2>7, UpdateWake DEF WakeInv
<1>4. CASE c.responses # << >>
  <2> DEFINE t == StreamTaken(c)
  <2>1. c.responses[1] \in Requests /\ Sane(t) /\ Tail(c.responses) = << >> /\ c.received \in Seq(Requests)
    BY <1>1, <1>4, StreamSane, OneRequest DEF Sane, ClientType
  <2>2. t = Notify(e, "slot")
    BY DEF StreamTaken
  <2>3. Append(c.received, c.responses[1]) \in Seq(Requests) /\ << >> \in AtMostOne
    BY <2>1 DEF AtMostOne
  <2>4. Sane(e)
    BY <1>1, <2>1, <2>3 DEF Sane, ClientType
  <2>5. /\ e.woken = c.woken /\ e.registered = c.registered /\ e.pc = c.pc
        /\ e.failed = c.failed /\ e.shutting_down = c.shutting_down
        /\ e.pending_payload = c.pending_payload /\ e.with = c.with
        /\ e.in_flight = c.in_flight /\ e.responses = << >>
    BY <1>1, <2>1 DEF Sane, ClientType
  <2> HIDE DEF e
  <2>6. /\ t.woken <=> c.woken \/ "slot" \in c.registered
        /\ t.registered = c.registered \ {"slot"} /\ SameRequests(e, t)
        /\ t.pc = c.pc /\ t.failed = c.failed /\ t.shutting_down = c.shutting_down
    BY <2>2, <2>4, <2>5, NotifyEffect
  <2>7. /\ t.pending_payload = c.pending_payload /\ t.with = c.with
        /\ t.in_flight = c.in_flight /\ t.responses = << >>
    BY <2>5, <2>6 DEF SameRequests
  <2>8. CASE client' = [client EXCEPT ![h] = t]
    <3> HIDE DEF t
    <3>1. WhereItIs(t)
      BY <1>1, <2>6, <2>7 DEF WakeInv, WhereItIs, Closing
    <3>2. Heard(t, response)
      BY <1>1, <2>6, <2>7
      DEF WakeInv, WhereItIs, Heard, ServingHeard, StreamHeard, LeftoverHeard, UsersHeard, SinkHeard,
          Waiting, WaitsForRoom, Closing
    <3> QED BY <1>2, <2>8, <3>1, <3>2, UpdateWake DEF WakeInv
  <2>9. CASE client' = [client EXCEPT ![h] = Fails(t)]
    BY <1>2, <2>1, <2>9, FailsHeard, UpdateWake
  <2>10. CASE c.pc = "shutdown_rx" /\ client' = [client EXCEPT ![h] = Goes(t, "close")]
    <3> DEFINE f == Goes(t, "close")
    <3>1. /\ f.pc = "close" /\ f.failed = c.failed /\ f.shutting_down = c.shutting_down
          /\ SameRequests(t, f)
      BY <2>1, <2>6, GoesEffect
    <3> HIDE DEF f, t
    <3>2. WhereItIs(f) /\ Quiet(f)
      BY <1>1, <2>7, <2>10, <3>1 DEF WakeInv, WhereItIs, Closing, SameRequests, Quiet
    <3> QED BY <1>2, <2>10, <3>2, QuietHeard, UpdateWake DEF WakeInv, f
  <2> QED BY <1>1, <1>4, <2>8, <2>9, <2>10 DEF PollStream, Update, StreamTaken
<1> QED BY <1>3, <1>4

LEMMA WakeLeftover ==
  ASSUME TypeOK, HoldInv, \A g \in Handles : WakeInv(client[g], response),
         NEW h \in Handles, SendLeftover(h)
  PROVE  \A g \in Handles : WakeInv(client'[g], response')
<1> DEFINE c == client[h]
           p == c.pending_payload[1]
           e == [c EXCEPT !.pending_payload = << >>]
<1>1. Sane(c) /\ ClientInv(h, c, response) /\ WakeInv(c, response) /\ c.pc = "leftover"
  BY SaneClients DEF HoldInv, SendLeftover
<1>2. CASE c.pending_payload = << >>
  <2> DEFINE f == Goes(c, "rx")
  <2>1. /\ f.pc = "rx" /\ f.failed = c.failed /\ f.shutting_down = c.shutting_down
        /\ f.pending_payload = << >>
    BY <1>1, <1>2, GoesEffect DEF SameRequests
  <2>2. client' = [client EXCEPT ![h] = f] /\ UNCHANGED response
    BY <1>2 DEF SendLeftover, Update
  <2> HIDE DEF f
  <2>3. WakeInv(f, response)
    BY <1>1, <2>1 DEF WakeInv, WhereItIs, Heard, ServingHeard, StreamHeard, LeftoverHeard,
                      UsersHeard, SinkHeard, Closing
  <2> QED BY <2>2, <2>3, UpdateWake
<1>3. CASE c.pending_payload # << >>
  <2>1. p \in Requests /\ ToSet(c.pending_payload) = {p}
    BY <1>1, <1>3, OneRequest DEF Sane, ClientType
  <2>2. response[p] = "none"
    BY <1>1, <2>1 DEF ClientInv, Place
  <2>3. /\ e.pending_payload = << >> /\ e.todo = c.todo /\ e.with = c.with
        /\ e.in_flight = c.in_flight /\ e.responses = c.responses /\ e.accepted = c.accepted
        /\ e.received = c.received /\ e.pc = c.pc /\ e.failed = c.failed /\ e.result = c.result
        /\ e.shutting_down = c.shutting_down
    BY <1>1 DEF Sane, ClientType
  <2>4. Sane(e)
    BY <1>1 DEF Sane, ClientType, AtMostOne
  <2>5. start_send(h, e, p, "rx")
    BY <1>3 DEF SendLeftover
  <2> HIDE DEF e, p
  <2>6. ClientInv(h, e, response)
    BY <1>1, <2>3, ToSetSmall DEF ClientInv, Place, InOrder, Reason, Alive, Gone
  <2>7. ~Closing(e)
    BY <1>1, <2>3 DEF WakeInv, WhereItIs, Closing
  <2> QED BY <2>1, <2>2, <2>3, <2>4, <2>5, <2>6, <2>7, StartSendWake
<1> QED BY <1>2, <1>3

LEMMA WakeOutgoing ==
  ASSUME TypeOK, HoldInv, \A g \in Handles : WakeInv(client[g], response),
         NEW h \in Handles, PollOutgoing(h)
  PROVE  \A g \in Handles : WakeInv(client'[g], response')
<1> DEFINE c == client[h]
           p == Head(c.todo)
           e == [c EXCEPT !.todo = Tail(@)]
<1>1. Sane(c) /\ ClientInv(h, c, response) /\ WakeInv(c, response) /\ c.pc = "outgoing"
  BY SaneClients DEF HoldInv, PollOutgoing
<1>2. ~Closing(c) /\ (~c.woken => c.responses = << >> /\ "rx" \in c.registered)
  BY <1>1 DEF WakeInv, WhereItIs, Heard, ServingHeard, StreamHeard
<1>3. CASE c.pending_payload = << >> /\ c.todo # << >>
  <2>1. /\ p \in Requests /\ p \in ToSet(c.todo) /\ Tail(c.todo) \in Seq(Requests)
        /\ IsInjective(Tail(c.todo)) /\ ToSet(Tail(c.todo)) = ToSet(c.todo) \ {p}
    <3>1. c.todo \in Seq(Requests) /\ IsInjective(c.todo)
      BY <1>1 DEF Sane, ClientType, ClientInv, Place
    <3> QED BY <1>3, <3>1, InjectiveTail, ToSetHeadTail
  <2>2. response[p] = "none"
    BY <1>1, <2>1 DEF ClientInv, Place
  <2>3. /\ e.pending_payload = << >> /\ e.todo = Tail(c.todo) /\ e.with = c.with
        /\ e.in_flight = c.in_flight /\ e.responses = c.responses /\ e.accepted = c.accepted
        /\ e.received = c.received /\ e.pc = c.pc /\ e.failed = c.failed /\ e.result = c.result
        /\ e.shutting_down = c.shutting_down /\ e.woken = c.woken /\ e.registered = c.registered
    BY <1>1, <1>3 DEF Sane, ClientType
  <2>4. Sane(e)
    BY <1>1, <2>1 DEF Sane, ClientType
  <2>5. start_send(h, e, p, "outgoing")
    BY <1>3 DEF PollOutgoing
  <2> HIDE DEF e, p
  <2>6. ClientInv(h, e, response)
    BY <1>1, <1>3, <2>1, <2>3, ToSetSmall DEF ClientInv, Place, InOrder, Reason, Alive, Gone
  <2>7. ~Closing(e)
    BY <1>2, <2>3 DEF Closing
  <2> QED BY <1>2, <2>1, <2>2, <2>3, <2>4, <2>5, <2>6, <2>7, StartSendWake
<1>4. CASE c.pending_payload # << >>
  <2> DEFINE f == Goes(c, "flush")
  <2>1. /\ f.woken = c.woken /\ f.registered = c.registered /\ SameRequests(c, f) /\ f.pc = "flush"
        /\ f.failed = c.failed /\ f.shutting_down = c.shutting_down
    BY <1>1, GoesEffect
  <2>2. client' = [client EXCEPT ![h] = f] /\ UNCHANGED response
    BY <1>4 DEF PollOutgoing, Update
  <2> HIDE DEF f
  <2>3. WhereItIs(f)
    BY <1>2, <2>1 DEF WhereItIs, Closing
  <2>4. Heard(f, response)
    BY <1>1, <1>4, <2>1
    DEF WakeInv, WhereItIs, Heard, ServingHeard, StreamHeard, LeftoverHeard, UsersHeard, SinkHeard,
        Waiting, WaitsForRoom, Closing, SameRequests
  <2> QED BY <2>2, <2>3, <2>4, UpdateWake DEF WakeInv
<1>5. CASE c.pending_payload = << >> /\ c.todo = << >> /\ c.users
  <2> DEFINE d == Register(c, "strong")
             f == Goes(d, "flush")
  <2>1. /\ d.woken = c.woken /\ d.registered = c.registered \cup {"strong"} /\ SameRequests(c, d)
        /\ d.failed = c.failed /\ d.shutting_down = c.shutting_down /\ d.users = c.users /\ Sane(d)
    BY <1>1, RegisterEffect, RegisterSane
  <2>2. /\ f.woken = d.woken /\ f.registered = d.registered /\ SameRequests(d, f) /\ f.pc = "flush"
        /\ f.failed = d.failed /\ f.shutting_down = d.shutting_down /\ f.users = d.users
    BY <2>1, GoesEffect
  <2>3. client' = [client EXCEPT ![h] = f] /\ UNCHANGED response
    BY <1>5 DEF PollOutgoing, Update
  <2> HIDE DEF d, f
  <2>4. WhereItIs(f) /\ SameRequests(c, f)
    BY <1>2, <2>1, <2>2 DEF WhereItIs, Closing, SameRequests
  <2>5. Heard(f, response)
    BY <1>1, <1>5, <2>1, <2>2, <2>4
    DEF WakeInv, WhereItIs, Heard, ServingHeard, StreamHeard, LeftoverHeard, UsersHeard, SinkHeard,
        Closing, SameRequests
  <2> QED BY <2>3, <2>4, <2>5, UpdateWake DEF WakeInv
<1>6. CASE c.pending_payload = << >> /\ c.todo = << >> /\ ~c.users
  <2> DEFINE d == [c EXCEPT !.shutting_down = TRUE]
             f == Goes(d, "shutdown_rx")
  <2>1. Sane(d) /\ d.shutting_down
    BY <1>1 DEF Sane, ClientType
  <2>2. f.pc = "shutdown_rx" /\ f.shutting_down
    BY <2>1, GoesEffect
  <2>3. client' = [client EXCEPT ![h] = f] /\ UNCHANGED response
    BY <1>6 DEF PollOutgoing, Update
  <2> HIDE DEF d, f
  <2>4. WhereItIs(f) /\ Quiet(f)
    BY <2>2 DEF WhereItIs, Closing, Quiet
  <2> QED BY <2>3, <2>4, QuietHeard, UpdateWake DEF WakeInv
<1> QED BY <1>3, <1>4, <1>5, <1>6

(* The poll comes to its end: With has been polled.                        *)
LEMMA WakeFlush ==
  ASSUME TypeOK, HoldInv, \A g \in Handles : WakeInv(client[g], response),
         NEW h \in Handles, Flush(h)
  PROVE  \A g \in Handles : WakeInv(client'[g], response')
<1> DEFINE c == client[h]
           d == PollWith(c)
           f == Goes(d, "idle")
<1>1. /\ Sane(c) /\ ClientInv(h, c, response) /\ WakeInv(c, response) /\ c.pc = "flush"
      /\ Sane(d) /\ UNCHANGED response
  BY SaneClients, PollWithSane DEF HoldInv, Flush
<1>2. CASE SinkFails(c)
  BY <1>1, <1>2, FailsHeard, UpdateWake DEF Flush, Update
<1>3. CASE ~SinkFails(c)
  <2>1. client' = [client EXCEPT ![h] = f]
    BY <1>3 DEF Flush, Flushed, Update
  <2>2. /\ f.woken = d.woken /\ f.registered = d.registered /\ SameRequests(d, f) /\ f.pc = "idle"
        /\ f.failed = d.failed /\ f.shutting_down = d.shutting_down /\ f.users = d.users
    BY <1>1, GoesEffect
  <2>3. ~Closing(c) /\ (~c.woken => ServingHeard(c, response))
    BY <1>1 DEF WakeInv, WhereItIs, Heard
  <2>4. /\ d.todo = c.todo /\ d.pending_payload = c.pending_payload /\ d.failed = c.failed
        /\ d.shutting_down = c.shutting_down /\ d.users = c.users
    BY <1>1, PollWithEffect
  <2>5. WhereItIs(f) /\ ~Closing(f)
    BY <2>2, <2>3, <2>4 DEF WhereItIs, Closing
  <2>6. SUFFICES ASSUME ~f.woken PROVE ServingHeard(f, response)
    <3> HIDE DEF f
    <3> QED BY <2>1, <2>5, <1>1, UpdateWake DEF WakeInv, Heard
  <2>7. ~(Responded(c) /\ c.responses = << >>) /\ ~c.woken
    <3>1. CASE Responded(c) /\ c.responses = << >>
      <4>1. ~c.woken /\ "rx" \notin c.registered
        BY <1>1, <1>3, <2>2, <2>6, <3>1, PollWithTask
      <4> QED BY <1>1, <2>3, <4>1 DEF ServingHeard, StreamHeard
    <3>2. CASE ~(Responded(c) /\ c.responses = << >>)
      <4>1. d.woken = c.woken
        BY <1>1, <1>3, <3>2, PollWithTask
      <4> QED BY <2>2, <2>6, <3>2, <4>1
    <3> QED BY <3>1, <3>2
  <2>8. c.responses = << >> /\ "rx" \in c.registered
    BY <1>1, <2>3, <2>7 DEF ServingHeard, StreamHeard
  <2>9. c.with = "empty" \/ Unanswered(c)
    <3>1. ~Responded(c)
      BY <2>7, <2>8
    <3>2. c.with # "buffered" /\ (c.with = "process" => response[c.in_flight[1]] \notin Bodies)
      BY <3>1 DEF Responded
    <3>3. c.with = "process" => response[c.in_flight[1]] = "pending"
      BY <1>1, <1>3, <3>2, KnownResponse DEF SinkFails, Bodies
    <3> QED BY <1>1, <3>2, <3>3 DEF Unanswered, Sane, ClientType
  <2>10. /\ d.with = c.with /\ d.in_flight = c.in_flight /\ d.responses = c.responses
         /\ c.registered \subseteq d.registered
         /\ Unanswered(c) => "oneshot" \in d.registered
    <3>1. CASE Unanswered(c)
      <4>1. SinkBlocked(c) /\ ~Responded(c) /\ c.with = "process"
        BY <3>1 DEF SinkBlocked, Unanswered, Responded, Bodies
      <4>2. d.registered = c.registered \cup {"oneshot"} /\ d.with = "process"
        BY <1>1, <1>3, <3>1, PollWithTask
      <4>3. d.in_flight = c.in_flight /\ d.responses = c.responses
        BY <1>1, <1>3, <4>1, PollWithEffect
      <4> QED BY <4>1, <4>2, <4>3
    <3>2. CASE c.with = "empty"
      <4>1. ~Unanswered(c) /\ ~Responded(c)
        BY <3>2 DEF Unanswered, Responded
      <4>2. d = c
        BY <1>1, <1>3, <4>1, PollWithTask
      <4> QED BY <4>1, <4>2
    <3> QED BY <2>9, <3>1, <3>2
  <2>11. /\ f.todo = c.todo /\ f.pending_payload = c.pending_payload /\ f.with = c.with
         /\ f.in_flight = c.in_flight /\ f.responses = c.responses /\ f.registered = d.registered
         /\ f.users = c.users /\ f.pc = "idle"
    BY <2>2, <2>4, <2>10 DEF SameRequests
  <2> HIDE DEF d, f
  <2>12. StreamHeard(f)
    BY <2>8, <2>10, <2>11 DEF StreamHeard
  <2>13. Unanswered(c) => Waiting(f, response)
    BY <2>10, <2>11 DEF Unanswered, Waiting
  <2>14. LeftoverHeard(f, response)
    <3>1. c.pending_payload # << >> => Unanswered(c)
      BY <1>1, <2>3, <2>7, <2>8
      DEF ServingHeard, LeftoverHeard, Waiting, WaitsForRoom, Unanswered
    <3> QED BY <2>11, <2>13, <3>1 DEF LeftoverHeard
  <2>15. UsersHeard(f)
    <3>1. UsersHeard(c)
      BY <2>3, <2>7 DEF ServingHeard
    <3> QED BY <1>1, <2>10, <2>11, <3>1 DEF UsersHeard
  <2>16. SinkHeard(f, response)
    BY <2>9, <2>11, <2>13 DEF SinkHeard
  <2> QED BY <2>12, <2>14, <2>15, <2>16 DEF ServingHeard
<1> QED BY <1>2, <1>3

LEMMA WakeClose ==
  ASSUME TypeOK, HoldInv, \A g \in Handles : WakeInv(client[g], response),
         NEW h \in Handles, Close(h)
  PROVE  \A g \in Handles : WakeInv(client'[g], response')
<1> DEFINE c == client[h]
           d == PollWith(c)
<1>1. /\ Sane(c) /\ WakeInv(c, response) /\ c.pc = "close" /\ Sane(d) /\ UNCHANGED response
  BY SaneClients, PollWithSane DEF HoldInv, Close
<1>2. c.responses = << >> /\ Closing(c)
  BY <1>1 DEF WakeInv, WhereItIs
<1>3. d.failed = c.failed /\ d.shutting_down = c.shutting_down
  BY <1>1, PollWithEffect
<1>4. CASE SinkBlocked(c)
  <2> DEFINE f == Goes(d, "idle")
  <2>1. Unanswered(c)
    BY <1>2, <1>4 DEF SinkBlocked
  <2>2. ~SinkFails(c) /\ c.with = "process" /\ response[c.in_flight[1]] = "pending"
    BY <2>1 DEF SinkFails, Unanswered
  <2>3. d.registered = c.registered \cup {"oneshot"} /\ d.with = "process"
    BY <1>1, <2>1, <2>2, PollWithTask
  <2>4. d.in_flight = c.in_flight
    BY <1>1, <1>4, <2>2, PollWithEffect DEF Responded, Bodies
  <2>5. /\ f.registered = d.registered /\ f.pc = "idle" /\ SameRequests(d, f)
        /\ f.failed = d.failed /\ f.shutting_down = d.shutting_down
    BY <1>1, GoesEffect
  <2>6. client' = [client EXCEPT ![h] = f]
    BY <1>4 DEF Close, Update
  <2> HIDE DEF d, f
  <2>7. Waiting(f, response) /\ WhereItIs(f) /\ Closing(f)
    BY <1>2, <1>3, <2>2, <2>3, <2>4, <2>5 DEF Waiting, SameRequests, WhereItIs, Closing
  <2> QED BY <1>1, <2>6, <2>7, UpdateWake DEF WakeInv, Heard
<1>5. CASE ~SinkBlocked(c)
  <2> DEFINE f == [d EXCEPT !.pc = "resolved", !.result = IF c.failed THEN "error" ELSE "ok"]
  <2>1. f.pc = "resolved"
    BY <1>1 DEF Sane, ClientType
  <2>2. client' = [client EXCEPT ![h] = f]
    BY <1>5 DEF Close, Update
  <2> HIDE DEF f
  <2>3. WhereItIs(f) /\ Quiet(f)
    BY <2>1 DEF WhereItIs, Quiet
  <2> QED BY <1>1, <2>2, <2>3, QuietHeard, UpdateWake DEF WakeInv
<1> QED BY <1>4, <1>5

\* A step that answers some of the requests, and tells those who wait for one
\* of these.
LEMMA WakeAnswers ==
  ASSUME TypeOK, HoldInv, \A g \in Handles : WakeInv(client[g], response),
         \A g \in Handles :
           \/ client'[g] = Notify(client[g], "oneshot")
           \/ client'[g] = client[g] /\ (Waiting(client[g], response) => Waiting(client[g], response'))
  PROVE  \A g \in Handles : WakeInv(client'[g], response')
<1> SUFFICES ASSUME NEW g \in Handles PROVE WakeInv(client'[g], response')
  OBVIOUS
<1>1. Sane(client[g]) /\ WakeInv(client[g], response)
  BY SaneClients
<1>2. CASE client'[g] = Notify(client[g], "oneshot")
  <2>1. WakeInv(Notify(client[g], "oneshot"), response')
    BY <1>1, WakeNotified
  <2> QED BY <1>2, <2>1
<1>3. CASE client'[g] = client[g] /\ (Waiting(client[g], response) => Waiting(client[g], response'))
  <2>1. WakeInv(client[g], response')
    BY <1>1, <1>3, WakeOthers
  <2> QED BY <1>3, <2>1
<1> QED BY <1>2, <1>3

LEMMA WakeFinish ==
  ASSUME TypeOK, HoldInv, \A g \in Handles : WakeInv(client[g], response), NEW value, Finish(value)
  PROVE  \A g \in Handles : WakeInv(client'[g], response')
<1> DEFINE p == current[1]
<1>1. ASSUME NEW g \in Handles, p \notin InFlight(g), Waiting(client[g], response)
      PROVE  Waiting(client[g], response')
  <2> DEFINE q == client[g].in_flight[1]
  <2>1. client[g].in_flight \in AtMostOne /\ client[g].in_flight # << >>
    BY <1>1, SaneClients DEF Sane, ClientType, Waiting
  <2>2. q \in Requests /\ client[g].in_flight = <<q>>
    BY <2>1, OneRequest
  <2>3. q \in InFlight(g)
    <3>1. 1 \in DOMAIN client[g].in_flight
      BY <2>2
    <3> QED BY <3>1 DEF InFlight
  <2>4. response'[q] = response[q]
    BY <1>1, <2>2, <2>3 DEF Finish, TypeOK
  <2> QED BY <1>1, <2>4 DEF Waiting
<1>2. \A g \in Handles : client'[g] = IF p \in InFlight(g) THEN Notify(client[g], "oneshot")
                                      ELSE client[g]
  BY DEF Finish
<1> QED BY <1>1, <1>2, WakeAnswers

LEMMA WakeCore ==
  ASSUME TypeOK, HoldInv, \A g \in Handles : WakeInv(client[g], response),
         Build \/ TakeRequest \/ CoreEnds \/ CoreStops \/ HeadArrives \/ DropHandle \/ UNCHANGED vars
  PROVE  \A g \in Handles : WakeInv(client'[g], response')
<1>1. CASE CoreStops
  <2>1. \A g \in Handles : client'[g] = IF Unanswered(client[g]) THEN Notify(client[g], "oneshot")
                                        ELSE client[g]
    BY <1>1 DEF CoreStops
  <2>2. \A g \in Handles : Waiting(client[g], response) => Unanswered(client[g])
    BY DEF Waiting, Unanswered
  <2> QED BY <2>1, <2>2, WakeAnswers
<1>2. CASE UNCHANGED <<client, response>>
  BY <1>2
<1> QED BY <1>1, <1>2 DEF Build, TakeRequest, CoreEnds, HeadArrives, DropHandle

LEMMA WakeSend ==
  ASSUME TypeOK, HoldInv, \A g \in Handles : WakeInv(client[g], response),
         NEW p \in Requests, Send(p)
  PROVE  \A g \in Handles : WakeInv(client'[g], response')
<1>1. \A q \in Requests : response[q] # "none" => response'[q] = response[q]
  BY DEF Send, unbounded_send, TypeOK
<1>2. client' = client
  BY DEF Send
<1>3. \A g \in Handles : WakeInv(client[g], response')
  BY <1>1, WakeSent
<1> QED BY <1>2, <1>3

(* A client that sleeps has nothing to do: it waits for new messages and   *)
(* for the stream, with at most the answer of a request missing; shutting  *)
(* down, it waits for that answer only (Client::poll on HttpHandle).       *)
THEOREM NoLostWakeupHolds == Spec => []NoLostWakeup
<1> DEFINE Inv == \A g \in Handles : WakeInv(client[g], response)
<1>1. Init => Inv
  <2> SUFFICES ASSUME Init, NEW g \in Handles PROVE WakeInv(client[g], response)
    OBVIOUS
  <2>1. client[g].pc = "none"
    BY DEF Init, NoClient, NewClient
  <2> QED BY <2>1, QuietHeard DEF Quiet, WakeInv, WhereItIs
<1>2. TypeOK /\ HoldInv /\ Inv /\ [Next]_vars => Inv'
  <2> SUFFICES ASSUME TypeOK, HoldInv, Inv, [Next]_vars PROVE Inv'
    OBVIOUS
  <2>1. ASSUME NEW h \in Handles,
               io_pair(h) \/ Poll(h) \/ PollStep(h) \/ DropClient(h) \/ LastUserGoes(h)
        PROVE  Inv'
    BY <2>1, WakeBegin, WakeStream, WakeLeftover, WakeOutgoing, WakeFlush, WakeClose, WakeLastUser
    DEF PollStep
  <2>2. ASSUME NEW p \in Requests, Call(p) \/ Send(p) PROVE Inv'
    BY <2>2, WakeCall, WakeSend
  <2> HIDE DEF Inv
  <2> QED BY <2>1, <2>2, WakeCore, WakeFinish DEF Next, Peer, BodyEnds, HttpFails, TimesOut, Inv
<1>3. TypeOK /\ Inv => NoLostWakeup
  <2> SUFFICES ASSUME TypeOK, NEW h \in Handles, WakeInv(client[h], response),
                      client[h].pc = "idle", ~client[h].woken
               PROVE  LET c == client[h] IN
                      IF c.failed \/ c.shutting_down THEN Waits(c)
                      ELSE /\ c.responses = << >> /\ "rx" \in c.registered
                           /\ c.with = "empty" \/ Waits(c)
                           /\ IF c.pending_payload = << >>
                              THEN c.todo = << >> /\ c.users /\ "strong" \in c.registered
                              ELSE Unanswered(c)
    BY DEF NoLostWakeup
  <2> DEFINE c == client[h]
  <2>1. Waiting(c, response) <=> Waits(c)
    BY DEF Waiting, Waits, Unanswered
  <2>2. CASE Closing(c)
    BY <2>1, <2>2 DEF WakeInv, Heard, Closing
  <2>3. CASE ~Closing(c)
    <3>1. ServingHeard(c, response)
      BY <2>3 DEF WakeInv, Heard
    <3>2. c.responses = << >> /\ "rx" \in c.registered /\ (c.with = "empty" \/ Waits(c))
      BY <2>1, <3>1 DEF ServingHeard, StreamHeard, SinkHeard
    <3>3. c.pending_payload = << >> => c.todo = << >> /\ c.users /\ "strong" \in c.registered
      BY <3>1 DEF ServingHeard, UsersHeard
    <3>4. c.pending_payload # << >> => Unanswered(c)
      BY <3>1, <3>2 DEF ServingHeard, LeftoverHeard, Waiting, WaitsForRoom, Unanswered
    <3> QED BY <2>3, <3>2, <3>3, <3>4 DEF Closing
  <2> QED BY <2>2, <2>3
<1> QED BY <1>1, <1>2, <1>3, TypeCorrect, HoldInvHolds, PTL DEF Spec
=============================================================================
