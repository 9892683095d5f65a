----------------------------- MODULE Transport ------------------------------
(***************************************************************************)
(* The sink and stream a Transport is split into (core/src/lib.rs:200-218) *)
(* and the JSON-RPC peer at the other end.  Both are code outside the core *)
(* crate: they are modelled by what the Client relies on.                  *)
(*                                                                         *)
(* The sink buffers up to SinkCap payloads and hands them to the peer in   *)
(* order; the stream yields what the peer sends, in order, and may end or  *)
(* fail.  The peer answers the calls it has received in any order, may     *)
(* repeat an answer, answer with an id nobody waits for, send something    *)
(* that is not JSON-RPC 2.0, and make requests of its own.                 *)
(***************************************************************************)
EXTENDS Task, Messages, Sequences

CONSTANTS
  SinkCap,        \* payloads the sink buffers
  MaxNoise,       \* bound: superfluous messages the peer sends
  Faults          \* the faults of transport, peer and handler in this model

ASSUME SinkCapIsPositive == SinkCap \in Nat \ {0}
ASSUME MaxNoiseIsNatural == MaxNoise \in Nat

VARIABLES
  transport_tx,   \* payloads accepted by the sink, not yet with the peer
  delivered,      \* payloads the peer has received
  tx_broken,      \* the sink fails from now on
  transport_rx,   \* messages waiting in the stream
  rx_end,         \* what follows them: "open", "eof" or "error"
  replied,        \* ids of the calls the peer has answered
  asked,          \* requests the peer has made
  noise           \* superfluous messages so far

sinkVars == <<transport_tx, delivered, tx_broken>>
streamVars == <<transport_rx, rx_end>>
peerVars == <<replied, asked, noise>>
transportVars == <<sinkVars, streamVars, peerVars>>

TransportInit ==
  /\ transport_tx = << >>
  /\ delivered = << >>
  /\ tx_broken = FALSE
  /\ transport_rx = << >>
  /\ rx_end = "open"
  /\ replied = {}
  /\ asked = {}
  /\ noise = 0

-----------------------------------------------------------------------------
(* What start_send, poll_complete and close find.                          *)

SinkReady == ~tx_broken /\ Len(transport_tx) < SinkCap
SinkFull  == ~tx_broken /\ Len(transport_tx) >= SinkCap
SinkFlushed  == ~tx_broken /\ transport_tx = << >>
SinkFlushing == ~tx_broken /\ transport_tx # << >>

-----------------------------------------------------------------------------
(* The transport and the peer, while there is a client to talk to.         *)

\* The first buffered payload reaches the peer.
Deliver ==
  /\ ~Dropped
  /\ SinkFlushing
  /\ delivered' = Append(delivered, Head(transport_tx))
  /\ transport_tx' = Tail(transport_tx)
  /\ Notify("tx")
  /\ UNCHANGED <<tx_broken, streamVars, peerVars>>

BreakSink ==
  /\ ~Dropped
  /\ "tx_error" \in Faults
  /\ ~tx_broken
  /\ tx_broken' = TRUE
  /\ Notify("tx")
  /\ UNCHANGED <<transport_tx, delivered, streamVars, peerVars>>

EndStream(end) ==
  /\ ~Dropped
  /\ rx_end = "open"
  /\ \/ end = "eof" /\ "rx_eof" \in Faults
     \/ end = "error" /\ "rx_error" \in Faults
  /\ rx_end' = end
  /\ Notify("rx")
  /\ UNCHANGED <<sinkVars, transport_rx, peerVars>>

Arrive(msg) ==
  /\ ~Dropped
  /\ rx_end = "open"
  /\ transport_rx' = Append(transport_rx, msg)
  /\ Notify("rx")
  /\ UNCHANGED <<sinkVars, rx_end>>

Answer(p) == [kind |-> "response", id |-> p.id, body |-> p.body]

\* The peer answers a call for the first time.
Reply(k) ==
  /\ k \in DOMAIN delivered
  /\ delivered[k].id > 0
  /\ delivered[k].id \notin replied
  /\ Arrive(Answer(delivered[k]))
  /\ replied' = replied \cup {delivered[k].id}
  /\ UNCHANGED <<asked, noise>>

\* It sends the same answer again.
ReplyAgain(k) ==
  /\ "duplicate" \in Faults /\ noise < MaxNoise
  /\ k \in DOMAIN delivered
  /\ delivered[k].id \in replied
  /\ Arrive(Answer(delivered[k]))
  /\ noise' = noise + 1
  /\ UNCHANGED <<replied, asked>>

\* A response with an id that was never issued (a string or null, say).
ReplyToNobody ==
  /\ "unknown_id" \in Faults /\ noise < MaxNoise
  /\ Arrive([kind |-> "response", id |-> 0, body |-> NoValue])
  /\ noise' = noise + 1
  /\ UNCHANGED <<replied, asked>>

\* Not a JSON-RPC message at all, or a response without version 2.0.
SendInvalid ==
  /\ "invalid" \in Faults /\ noise < MaxNoise
  /\ Arrive([kind |-> "invalid", id |-> 0, body |-> NoValue])
  /\ noise' = noise + 1
  /\ UNCHANGED <<replied, asked>>

\* The peer makes a request of its own.
Ask(r) ==
  /\ r \notin asked
  /\ Arrive([kind |-> "request", id |-> 0, body |-> r])
  /\ asked' = asked \cup {r}
  /\ UNCHANGED <<replied, noise>>

TransportNext ==
  \/ Deliver
  \/ BreakSink
  \/ \E end \in {"eof", "error"} : EndStream(end)
  \/ \E k \in DOMAIN delivered : Reply(k) \/ ReplyAgain(k)
  \/ ReplyToNobody
  \/ SendInvalid
  \/ \E r \in Requests : Ask(r)
=============================================================================
