------------------------------ MODULE Messages ------------------------------
(***************************************************************************)
(* What travels between the users of a Client, the Client and its peer:    *)
(* jsonrpc_core::types::{Request, Output} and OutgoingMessage              *)
(* (core/src/lib.rs:540-550).  A payload is told apart by whose it is and  *)
(* by its id; methods, parameters and results are left out.                *)
(***************************************************************************)
EXTENDS Naturals

CONSTANTS
  Calls,     \* RPC calls the users of the handles may make
  Notes,     \* notifications they may send
  Requests,  \* requests the peer may make, each at most once
  NoValue    \* nothing

ASSUME KindsDiffer ==
  /\ Calls \cap Notes = {} /\ Calls \cap Requests = {} /\ Notes \cap Requests = {}
  /\ NoValue \notin Calls \cup Notes \cup Requests

\* What the users of a ClientHandle send.
Outgoing == Calls \cup Notes

\* A method call carries its id (ids start at 1); notifications, and the
\* responses to the requests of the peer, carry none of ours, which is 0.
Payload == [id : Nat \ {0}, body : Calls] \cup [id : {0}, body : Notes \cup Requests]

\* A response carries the id it is addressed to and, as its content, the
\* call it answers.  "invalid": not a Request and not an Output, or an
\* Output without version 2.0.
Incoming ==
  [kind : {"response"}, id : Nat, body : Calls \cup {NoValue}]
    \cup [kind : {"request"}, id : {0}, body : Requests]
    \cup [kind : {"invalid"}, id : {0}, body : {NoValue}]
=============================================================================
