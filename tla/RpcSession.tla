----------------------------- MODULE RpcSession -----------------------------
(***************************************************************************)
(* What a Client promises the users of its handles: each call comes to one *)
(* end, which is an answer only if the peer answered this call, and        *)
(* Shutdown only if the client is gone; and it does come to it once either *)
(* has happened.  No ids, channels or wakeups: Client implements them.     *)
(***************************************************************************)
CONSTANT Calls

VARIABLES
  phase,   \* of each call: "none", "open" or how it ended
  served,  \* the calls the peer has answered
  up       \* the client is there

vars == <<phase, served, up>>

Init ==
  /\ phase = [c \in Calls |-> "none"]
  /\ served = {}
  /\ up = TRUE

Open(c) ==
  /\ phase[c] = "none"
  /\ phase' = [phase EXCEPT ![c] = "open"]
  /\ UNCHANGED <<served, up>>

\* The peer answers a call that was made, once, while the client is there.
Serve(c) ==
  /\ up
  /\ phase[c] \in {"open", "abandoned"}
  /\ c \notin served
  /\ served' = served \cup {c}
  /\ UNCHANGED <<phase, up>>

End(c, how) ==
  /\ phase[c] = "open"
  /\ \/ how = "answered" /\ c \in served
     \/ how = "shutdown" /\ ~up
     \/ how = "rejected" /\ c \notin served
     \/ how = "abandoned"
  /\ phase' = [phase EXCEPT ![c] = how]
  /\ UNCHANGED <<served, up>>

Stop ==
  /\ up
  /\ up' = FALSE
  /\ UNCHANGED <<phase, served>>

Next ==
  \/ \E c \in Calls :
        \/ Open(c)
        \/ Serve(c)
        \/ \E how \in {"answered", "shutdown", "rejected", "abandoned"} : End(c, how)
  \/ Stop

Spec == Init /\ [][Next]_vars

FairSpec ==
  Spec /\ \A c \in Calls : WF_vars(End(c, "answered") \/ End(c, "shutdown"))
=============================================================================
