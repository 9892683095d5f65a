----------------------------- MODULE RpcService -----------------------------
(***************************************************************************)
(* What a server with handlers promises to the users of its ServerHandle   *)
(* and to its peer (see Server): every add and remove takes effect at one  *)
(* moment between its call and its result, a request, a batch as well,     *)
(* meets the handlers that are set at one moment, each of its calls is     *)
(* handled once, and it is answered once, after all of them.  There are no *)
(* channels, no polls and no tasks here.                                   *)
(***************************************************************************)
EXTENDS Naturals, Sequences, SequencesExt

CONSTANTS Adds, Removes, Requests, Calls, Content, Name, Kind, NoHandler

VARIABLES
  alive,       \* the server has not been dropped
  op,          \* "none", "pending" or the result of each add and remove
  returned,    \* the handler it gives back
  set,         \* the handler of each name
  asked,       \* the requests of the peer
  accepted,    \* those that met the handlers
  handled_by,  \* the handler of each call
  run,         \* and how far it is: "none", "running", "ok" or "error"
  answered     \* the requests that were answered, in that order

opVars == <<op, returned, set>>
callVars == <<accepted, handled_by, run>>
vars == <<alive, opVars, asked, callVars, answered>>

Ops == Adds \cup Removes
Nothing == [n \in {Name[x] : x \in Ops \cup Calls} |-> NoHandler]

Init ==
  /\ alive = TRUE
  /\ op = [o \in Ops |-> "none"]
  /\ returned = [o \in Ops |-> NoHandler]
  /\ set = Nothing
  /\ asked = {} /\ accepted = {}
  /\ handled_by = [c \in Calls |-> NoHandler]
  /\ run = [c \in Calls |-> "none"]
  /\ answered = << >>

Ends(o, result, h) ==
  /\ op[o] = "pending"
  /\ op' = [op EXCEPT ![o] = result]
  /\ returned' = [returned EXCEPT ![o] = h]

Invoke(o) ==
  /\ op[o] = "none"
  /\ op' = [op EXCEPT ![o] = "pending"]
  /\ UNCHANGED <<returned, set>>

Set(a) ==
  /\ alive
  /\ \/ /\ set[Name[a]] = NoHandler
        /\ Ends(a, "ok", NoHandler)
        /\ set' = [set EXCEPT ![Name[a]] = a]
     \/ /\ set[Name[a]] # NoHandler
        /\ Ends(a, "exists", a)
        /\ UNCHANGED set

Take(d) ==
  /\ alive
  /\ Ends(d, IF set[Name[d]] = NoHandler THEN "nohandler" ELSE "ok", set[Name[d]])
  /\ set' = [set EXCEPT ![Name[d]] = NoHandler]

\* Without the server; the handler of an add may be lost with it.
Refused(o) ==
  /\ ~alive
  /\ \E h \in {o, NoHandler} \cap (Adds \cup {NoHandler}) : Ends(o, "shutdown", h)
  /\ UNCHANGED set

Ask(r) ==
  /\ alive /\ r \notin asked
  /\ asked' = asked \cup {r}

Fits(h, c) == h # NoHandler /\ Kind[h] = Kind[c]
Accept(r) ==
  /\ alive /\ r \in asked \ accepted
  /\ accepted' = accepted \cup {r}
  /\ \A c \in Calls :
       IF c \notin Content[r] THEN handled_by'[c] = handled_by[c] /\ run'[c] = run[c]
       ELSE IF Fits(set[Name[c]], c)
            THEN handled_by'[c] = set[Name[c]] /\ run'[c] \in {"running", "ok", "error"}
            ELSE handled_by'[c] = NoHandler /\ run'[c] = "ok"

Handled(c) ==
  /\ alive /\ run[c] = "running"
  /\ \E out \in {"ok", "error"} : run' = [run EXCEPT ![c] = out]
  /\ UNCHANGED <<accepted, handled_by>>

Answer(r) ==
  /\ alive /\ r \in accepted /\ ~Contains(answered, r)
  /\ \A c \in Content[r] : run[c] = "ok"
  /\ \E c \in Content[r] : Kind[c] # "notification"
  /\ answered' = Append(answered, r)

Stop ==
  /\ alive
  /\ alive' = FALSE
  /\ set' = Nothing
  /\ UNCHANGED <<op, returned>>

Next ==
  \/ \E o \in Ops : Invoke(o) /\ UNCHANGED <<alive, asked, callVars, answered>>
  \/ /\ (\E a \in Adds : Set(a)) \/ (\E d \in Removes : Take(d)) \/ (\E o \in Ops : Refused(o))
     /\ UNCHANGED <<alive, asked, callVars, answered>>
  \/ \E r \in Requests : Ask(r) /\ UNCHANGED <<alive, opVars, callVars, answered>>
  \/ /\ (\E r \in Requests : Accept(r)) \/ (\E c \in Calls : Handled(c))
     /\ UNCHANGED <<alive, opVars, asked, answered>>
  \/ \E r \in Requests : Answer(r) /\ UNCHANGED <<alive, opVars, asked, callVars>>
  \/ Stop /\ UNCHANGED <<asked, callVars, answered>>

Spec == Init /\ [][Next]_vars

\* An add or a remove comes to its end, with or without the server.
Ending(o) ==
  /\ \/ o \in Adds /\ Set(o)
     \/ o \in Removes /\ Take(o)
     \/ Refused(o)
  /\ UNCHANGED <<alive, asked, callVars, answered>>
FairService == Spec /\ \A o \in Ops : WF_vars(Ending(o))
=============================================================================
