--------------------------- MODULE MessageStream ----------------------------
(***************************************************************************)
(* What a subscription promises its owner (see PubSub): a stream of the    *)
(* notifications that carry its id, which starts anywhere, leaves out none *)
(* from there on, and goes on as long as the subscription is attached.     *)
(***************************************************************************)
EXTENDS Naturals, Sequences

CONSTANTS Subs, Ids, NoId

VARIABLES
  log,       \* the ids of the notifications of the peer
  id,        \* the id of each subscription, once it has one
  attached,  \* the subscriptions that are kept up to date
  got        \* what each has read, as positions in log

vars == <<log, id, attached, got>>

Init ==
  /\ log = << >>
  /\ id = [s \in Subs |-> NoId]
  /\ attached = {}
  /\ got = [s \in Subs |-> << >>]

Notify(i) ==
  /\ log' = Append(log, i)
  /\ UNCHANGED <<id, attached, got>>

Identify(s, i) ==
  /\ id[s] = NoId
  /\ id' = [id EXCEPT ![s] = i]
  /\ UNCHANGED <<log, attached, got>>

AttachAndDetach ==
  /\ attached' \in SUBSET Subs
  /\ UNCHANGED <<log, id, got>>

\* The next one of its id, or, to begin with, any.
Due(s, n) ==
  /\ log[n] = id[s]
  /\ got[s] # << >> =>
       LET last == got[s][Len(got[s])] IN
         /\ last < n
         /\ \A m \in DOMAIN log : last < m /\ m < n => log[m] # id[s]

Read(s) ==
  /\ \E n \in DOMAIN log : Due(s, n) /\ got' = [got EXCEPT ![s] = Append(@, n)]
  /\ UNCHANGED <<log, id, attached>>

Next ==
  \/ \E i \in Ids : Notify(i)
  \/ \E s \in Subs : Read(s) \/ \E i \in Ids : Identify(s, i)
  \/ AttachAndDetach

Spec == Init /\ [][Next]_vars

GoesOn(s) == s \in attached /\ got[s] # << >> /\ Read(s)
FairSpec == Spec /\ \A s \in Subs : WF_vars(GoesOn(s))
=============================================================================
