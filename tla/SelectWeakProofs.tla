-------------------------- MODULE SelectWeakProofs --------------------------
(***************************************************************************)
(* SelectWithWeak is round-robin for any items and any number of them.     *)
(***************************************************************************)
EXTENDS MCSelectWeak, TLAPS

StreamTypes ==
  /\ strong \in Seq(Items) /\ weak \in Seq(Items)
  /\ use_strong \in BOOLEAN /\ finished \in BOOLEAN
  /\ weak_passed_over \in 0..1 /\ strong_passed_over \in 0..1

\* Until the merged stream ends, the one that was passed over waits still,
\* and it is its turn.
PassedOverIsNext ==
  ~finished =>
    /\ weak_passed_over = 1 => ~use_strong /\ WeakItem
    /\ strong_passed_over = 1 => use_strong /\ ~StrongIdle

TurnInv == StreamTypes /\ PassedOverIsNext

-----------------------------------------------------------------------------

(* It holds in the beginning.                                              *)
LEMMA TurnInit == Init => TurnInv
<1> SUFFICES ASSUME Init PROVE TurnInv
  OBVIOUS
<1>1. strong \in Seq(Items) /\ weak \in Seq(Items)
  BY DEF Init, SelectInit
<1>2. StreamTypes
  <2>1. use_strong \in BOOLEAN /\ finished \in BOOLEAN
    BY DEF Init, SelectInit
  <2>2. weak_passed_over \in 0..1 /\ strong_passed_over \in 0..1
    BY DEF Init
  <2> QED BY <1>1, <2>1, <2>2 DEF StreamTypes
<1>3. PassedOverIsNext
  BY DEF Init, PassedOverIsNext
<1> QED BY <1>2, <1>3 DEF TurnInv

(* A producer adds an item or drops its sender: what waits goes on to.     *)
LEMMA ProducersKeepTurns ==
  ASSUME TurnInv,
         (\E i \in Items : PushStrong(i) \/ PushWeak(i)) \/ CloseStrong \/ CloseWeak
  PROVE  TurnInv'
<1> USE DEF TurnInv, StreamTypes, PassedOverIsNext, WeakItem, StrongIdle, history
<1>1. ASSUME NEW i \in Items, PushStrong(i) PROVE TurnInv'
  <2>1. strong' \in Seq(Items) /\ strong' # << >>
    BY <1>1 DEF PushStrong
  <2> QED BY <1>1, <2>1 DEF PushStrong
<1>2. ASSUME NEW i \in Items, PushWeak(i) PROVE TurnInv'
  <2>1. weak' \in Seq(Items) /\ weak' # << >>
    BY <1>2 DEF PushWeak
  <2> QED BY <1>2, <2>1 DEF PushWeak
<1>3. CASE CloseStrong
  BY <1>3 DEF CloseStrong, selectVars
<1>4. CASE CloseWeak
  BY <1>4 DEF CloseWeak, selectVars
<1> QED BY <1>1, <1>2, <1>3, <1>4

(* A poll gives an item aside the one that waits only if its turn is due,  *)
(* and hands the turn over (SelectWithWeak::poll).                         *)
LEMMA PollKeepsTurns == ASSUME TurnInv, Poll PROVE TurnInv'
<1> USE DEF TurnInv, StreamTypes, PassedOverIsNext, WeakItem, StrongIdle, FlipTurn
<1>1. CASE AnswerStrong
  <2>1. strong' \in Seq(Items) /\ weak' = weak /\ use_strong' = ~use_strong
    BY <1>1 DEF AnswerStrong, TakeStrong, StrongItem
  <2>2. CASE WeakItem
    <3>1. use_strong /\ weak_done' = weak_done
      BY <1>1, <2>2 DEF AnswerStrong, TakeStrong, StrongGoesFirst
    <3>2. weak_passed_over = 0
      BY <3>1 DEF Poll
    <3> QED BY <1>1, <2>1, <2>2, <3>1, <3>2 DEF AnswerStrong, Longer, Poll
  <2>3. CASE ~WeakItem
    BY <1>1, <2>1, <2>3 DEF AnswerStrong, Poll
  <2> QED BY <2>2, <2>3
<1>2. CASE AnswerWeak
  <2>1. weak' \in Seq(Items) /\ strong' = strong /\ use_strong' = ~use_strong
    BY <1>2 DEF AnswerWeak, TakeWeak
  <2>2. CASE StrongIdle
    BY <1>2, <2>1, <2>2 DEF AnswerWeak, Poll
  <2>3. CASE ~StrongIdle
    <3>1. ~use_strong
      BY <1>2, <2>3 DEF AnswerWeak, TakeWeak, WeakMayGo
    <3>2. strong_passed_over = 0
      BY <3>1 DEF Poll
    <3>3. weak_passed_over' = 0 /\ strong_passed_over' = 1
      BY <1>2, <2>3, <3>2 DEF AnswerWeak, Longer
    <3>4. finished' = finished /\ strong_open' = strong_open
      BY <1>2 DEF AnswerWeak, Poll
    <3>5. use_strong' /\ use_strong' \in BOOLEAN /\ ~StrongIdle'
      BY <2>1, <2>3, <3>1, <3>4
    <3>6. weak_passed_over' \in 0..1 /\ strong_passed_over' \in 0..1 /\ weak_passed_over' # 1
      BY <3>3
    <3> QED BY <2>1, <2>3, <3>4, <3>5, <3>6
  <2> QED BY <2>2, <2>3
<1>3. CASE AnswerNone
  BY <1>3 DEF AnswerNone, Finish
<1>4. CASE AnswerNotReady
  BY <1>4 DEF AnswerNotReady, NotReady, Poll, history
<1> QED BY <1>1, <1>2, <1>3, <1>4 DEF Poll

(* Neither stream is passed over twice in a row while it has something to  *)
(* give (SelectWithWeak::poll and check_weak).                             *)
THEOREM BoundedBypassHolds == Spec => []BoundedBypass
<1>1. TurnInv /\ [Next]_mcVars => TurnInv'
  <2> SUFFICES ASSUME TurnInv, [Next]_mcVars PROVE TurnInv'
    OBVIOUS
  <2>1. CASE Next
    BY <2>1, ProducersKeepTurns, PollKeepsTurns DEF Next
  <2>2. CASE UNCHANGED mcVars
    BY <2>2 DEF mcVars, selectVars, TurnInv, StreamTypes, PassedOverIsNext, WeakItem, StrongIdle
  <2> QED BY <2>1, <2>2
<1>2. TurnInv => BoundedBypass
  BY DEF TurnInv, StreamTypes, BoundedBypass
<1> QED BY <1>1, <1>2, TurnInit, PTL DEF Spec
=============================================================================
