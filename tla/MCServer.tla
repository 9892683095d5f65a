------------------------------ MODULE MCServer ------------------------------
(***************************************************************************)
(* Server for TLC: a method and a notification handler competing for one   *)
(* name and a remove of it; a batch of a method call, a notification and   *)
(* an invalid call, and a single method call.                              *)
(***************************************************************************)
EXTENDS Server

CONSTANTS a1, a2, d1, batch, single, c1, c2, c3, c4, m1

TheContent ==
  [r \in Requests |-> CASE r = batch -> {c1, c2, c4} [] r = single -> {c3}]
TheNames == [x \in {a1, a2, d1, c1, c2, c3, c4} |-> m1]
TheKinds == [x \in {a1, c1, c3} |-> "method"] @@ [x \in {a2, c2} |-> "notification"]
            @@ (c4 :> "invalid")

\* Users and peer begin at most MaxActivities things between them, of
\* whatever kind.  Neither has to begin any, so that fairness is not touched.
MaxActivities == 3
FewActivities ==
  Cardinality({o \in Ops : op[o] # "none"}) + Cardinality(asked) <= MaxActivities
BoundedFairSpec == Init /\ [][Next /\ FewActivities']_vars /\ Fairness
=============================================================================
