---------------------------- MODULE MCSelectWeak ----------------------------
(***************************************************************************)
(* SelectWithWeak under every schedule of two producers: they push items   *)
(* and drop their senders at any time while the merged stream is polled    *)
(* until it returns None.                                                  *)
(***************************************************************************)
EXTENDS SelectWeak, FiniteSets

CONSTANTS Items, MaxQueue

ASSUME MaxQueueIsPositive == MaxQueue \in Nat \ {0}

VARIABLES
  finished,           \* a poll has returned Ready(None)
  weak_passed_over,   \* answers in a row that left a waiting weak item aside
  strong_passed_over  \* the same for the strong stream (an item or its end)

mcVars == <<selectVars, strong_open, weak_open, finished,
            weak_passed_over, strong_passed_over>>

Init ==
  /\ SelectInit
  /\ strong_open = TRUE
  /\ weak_open = TRUE
  /\ finished = FALSE
  /\ weak_passed_over = 0
  /\ strong_passed_over = 0

history == <<finished, weak_passed_over, strong_passed_over>>

PushStrong(i) ==
  /\ strong_open
  /\ Len(strong) < MaxQueue
  /\ strong' = Append(strong, i)
  /\ UNCHANGED <<weak, strong_open, weak_open, use_strong, weak_done, history>>

PushWeak(i) ==
  /\ weak_open
  /\ Len(weak) < MaxQueue
  /\ weak' = Append(weak, i)
  /\ UNCHANGED <<strong, strong_open, weak_open, use_strong, weak_done, history>>

CloseStrong ==
  /\ strong_open
  /\ strong_open' = FALSE
  /\ UNCHANGED <<selectVars, weak_open, history>>

CloseWeak ==
  /\ weak_open
  /\ weak_open' = FALSE
  /\ UNCHANGED <<selectVars, strong_open, history>>

\* Streaks saturate at 2, one more than a round-robin merge may reach.
Longer(n) == IF n < 2 THEN n + 1 ELSE n

AnswerStrong ==
  /\ \E i \in Items : TakeStrong(i)
  /\ weak_passed_over' = IF WeakItem THEN Longer(weak_passed_over) ELSE 0
  /\ strong_passed_over' = 0
  /\ UNCHANGED finished

AnswerWeak ==
  /\ \E i \in Items : TakeWeak(i)
  /\ weak_passed_over' = 0
  /\ strong_passed_over' =
        IF StrongIdle THEN 0 ELSE Longer(strong_passed_over)
  /\ UNCHANGED finished

AnswerNone ==
  /\ Finish
  /\ finished' = TRUE
  /\ UNCHANGED <<weak_passed_over, strong_passed_over>>

AnswerNotReady ==
  /\ NotReady
  /\ UNCHANGED history

Poll ==
  /\ ~finished
  /\ AnswerStrong \/ AnswerWeak \/ AnswerNone \/ AnswerNotReady
  /\ UNCHANGED <<strong_open, weak_open>>

Next ==
  \/ \E i \in Items : PushStrong(i) \/ PushWeak(i)
  \/ CloseStrong
  \/ CloseWeak
  \/ Poll

\* The owner polls again whenever the merged stream may have something.
Spec == Init /\ [][Next]_mcVars /\ WF_mcVars(Poll)

-----------------------------------------------------------------------------
(* SelectWithWeak::poll is round-robin: a ready item of one stream is left *)
(* aside at most once before it is served, and the end of the strong       *)
(* stream is hidden by at most one more weak item.                         *)
BoundedBypass ==
  /\ weak_passed_over <= 1
  /\ strong_passed_over <= 1

(* The merged stream finishes once the strong stream has, even when the    *)
(* weak stream stays open and never runs dry ("Finishes when strong stream *)
(* finishes").                                                             *)
StrongEndFinishes == (strong = << >> /\ ~strong_open) ~> finished

(* A busy strong stream cannot starve the weak one: as long as weak items  *)
(* are waiting, some weak item is handed out, or the stream finishes.      *)
WeakServed ==
  []<>(weak = << >>) \/ <>finished \/ []<><<Len(weak') < Len(weak)>>_weak
=============================================================================
