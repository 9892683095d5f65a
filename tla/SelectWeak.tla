----------------------------- MODULE SelectWeak -----------------------------
(***************************************************************************)
(* SelectWithWeak (utils/src/select_weak.rs): merges a strong and a weak   *)
(* stream, polled in turns; the merged stream finishes when the strong one *)
(* does.  Both users of it in the repository (the core Client and the      *)
(* pubsub NotificationHandler) select over mpsc receivers, whose poll      *)
(* never fails, so a stream here is a FIFO queue and a flag that says      *)
(* whether some sender is still alive.                                     *)
(*                                                                         *)
(* One call of SelectWithWeak::poll is one of the four actions at the end: *)
(* exactly one is enabled in every state.  They leave the flags of the     *)
(* senders alone, which belong to whoever pushes into the streams.         *)
(***************************************************************************)
EXTENDS Naturals, Sequences

VARIABLES
  strong,       \* items waiting in the strong stream
  weak,         \* items waiting in the weak stream
  strong_open,  \* some sender of the strong stream is alive
  weak_open,    \* some sender of the weak stream is alive
  use_strong,   \* the strong stream is polled first in the next poll
  weak_done     \* the weak stream has returned None

selectVars == <<strong, weak, use_strong, weak_done>>

SelectInit ==
  /\ strong = << >>
  /\ weak = << >>
  /\ use_strong = FALSE
  /\ weak_done = FALSE

\* What a poll of each stream would find.  check_weak never polls the weak
\* stream again once it has ended, and turns that end into NotReady.
WeakItem   == ~weak_done /\ weak # << >>
WeakEnd    == ~weak_done /\ weak = << >> /\ ~weak_open
StrongItem == strong # << >>
StrongIdle == strong = << >> /\ strong_open
\* (mutant) an ordinary select, which finishes with its last stream.
EndOfBoth  == strong = << >> /\ ~strong_open /\ (weak_done \/ WeakEnd)
StrongEnd  == strong = << >> /\ ~strong_open

\* Every poll flips the turn.
\* (mutant) the strong stream keeps the turn.
StrongKeepsTurn(b) == TRUE
FlipTurn(b) == ~b

\* What a call of check_weak leaves behind.
NoticeWeakEnd == weak_done' = (weak_done \/ WeakEnd)

\* It is the strong stream's turn, or check_weak had nothing to give.
StrongGoesFirst == use_strong \/ ~WeakItem
\* It is the weak stream's turn, or the strong poll returned NotReady.
WeakMayGo == ~use_strong \/ StrongIdle

\* Ready(Some(item)) from the strong stream.
TakeStrong(item) ==
  /\ StrongItem
  /\ item = Head(strong)
  /\ StrongGoesFirst
  /\ strong' = Tail(strong)
  /\ use_strong' = FlipTurn(use_strong)
  /\ IF use_strong THEN UNCHANGED weak_done ELSE NoticeWeakEnd
  /\ UNCHANGED weak

\* Ready(Some(item)) from the weak stream.
TakeWeak(item) ==
  /\ WeakItem
  /\ item = Head(weak)
  /\ WeakMayGo
  /\ weak' = Tail(weak)
  /\ use_strong' = FlipTurn(use_strong)
  /\ UNCHANGED <<strong, weak_done>>

\* Ready(None): the strong stream has ended, whatever the weak one holds.
Finish ==
  /\ StrongEnd
  /\ StrongGoesFirst
  /\ use_strong' = FlipTurn(use_strong)
  /\ IF use_strong THEN UNCHANGED weak_done ELSE NoticeWeakEnd
  /\ UNCHANGED <<strong, weak>>

\* NotReady: neither stream has anything; both have been polled.
NotReady ==
  /\ StrongIdle
  /\ ~WeakItem
  /\ use_strong' = FlipTurn(use_strong)
  /\ NoticeWeakEnd
  /\ UNCHANGED <<strong, weak>>
=============================================================================
