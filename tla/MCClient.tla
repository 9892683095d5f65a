------------------------------ MODULE MCClient ------------------------------
(***************************************************************************)
(* Client for TLC: the symmetry of its calls, and what the documentation   *)
(* of Client::new says of it.                                              *)
(***************************************************************************)
EXTENDS Client

\* Calls are interchangeable in the safety properties.
CallSymmetry == Permutations(Calls)

(* core/src/lib.rs:272-273: "The client will resolve once all of it's      *)
(* handles and corresponding futures get resolved."  The code resolves     *)
(* when nobody owns a sender, which a waiting future no longer does.       *)
ResolvesAfterFutures ==
  pc = "resolved" =>
    \A m \in Outgoing : ~(fut[m] \in Unresolved /\ oneshot[m] = NoValue)
=============================================================================
