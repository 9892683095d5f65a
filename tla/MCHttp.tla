------------------------------- MODULE MCHttp -------------------------------
(***************************************************************************)
(* HttpTransport for TLC: a client that sends two requests, and a request  *)
(* that HttpHandle::send puts between them, over the same core.            *)
(***************************************************************************)
EXTENDS HttpTransport, TLC

CONSTANTS h1, p1, p2, d1

TheOwners == [p \in Requests |-> IF p = d1 THEN NoHandle ELSE h1]
=============================================================================
