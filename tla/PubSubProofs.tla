---------------------------- MODULE PubSubProofs ----------------------------
(***************************************************************************)
(* Theorems about PubSub for any number of subscribe calls, ids,           *)
(* notifications and any buffer size: type correctness, that the handler   *)
(* unsubscribes before it goes, and that a subscription is a stream        *)
(* without gaps.                                                           *)
(***************************************************************************)
EXTENDS PubSub, SequenceLemmas, TLAPS

USE DEF vars, clientVars, ownerVars, subDataVars, subVars, handlerVars, selectVars

-----------------------------------------------------------------------------
(* The types                                                               *)

Messages == [kind : {"new", "remove"}, s : Subs]
Positions == Nat \ {0}
\* A future that sends or has sent is for a subscription.
Futures ==
  {Idle, Unsubscribing, Unsubscribed} \cup {Parked(s) : s \in Subs}
    \cup {Sending(s, n) : s \in Subs, n \in Positions}

ClientTypes ==
  /\ up \in BOOLEAN /\ user_handle \in BOOLEAN /\ stopped_by \in Reasons \cup {"nothing"}
  /\ handler_set \in BOOLEAN /\ late_error \in BOOLEAN
  /\ log \in Seq(Ids) /\ unsub_calls \in Nat
SubTypes ==
  /\ subscriber \in BOOLEAN /\ has_chan \in BOOLEAN
  /\ sub \in [Subs -> States]
  /\ id \in [Subs -> Ids \cup {NoId}]
  /\ heard \in [Subs -> BOOLEAN]
  /\ rx \in [Subs -> Seq(Positions)] /\ received \in [Subs -> Seq(Positions)]
HandlerTypes ==
  /\ handler \in {"none", "running", "finished"}
  /\ subscribers \subseteq Subs
  /\ current_future \in Futures
  /\ should_shut_down \in BOOLEAN
SelectTypes ==
  /\ messages \in Seq(Positions)
  /\ control \in Seq(Messages)
  /\ use_strong \in BOOLEAN /\ weak_done \in BOOLEAN
AlmostInBuffer == \A s \in Subs : Len(rx[s]) <= BufferSize + 1
Types == ClientTypes /\ SubTypes /\ HandlerTypes /\ SelectTypes

LEMMA FutureTypes ==
  /\ Futures \subseteq [kind : {"none", "send", "parked", "unsub", "unsub_sent"},
                        to : Subs \cup {NoId}, msg : Nat]
  /\ \A f \in Futures :
       /\ f.kind = "send" => f.to \in Subs /\ f.msg \in Positions /\ f = Sending(f.to, f.msg)
       /\ f.kind = "parked" => f.to \in Subs /\ f = Parked(f.to)
       /\ f.kind = "none" <=> f = Idle
       /\ f.kind = "unsub" <=> f = Unsubscribing
  BY DEF Futures, Idle, Unsubscribing, Unsubscribed, Parked, Sending, Positions

LEMMA TypesSuffice == Types /\ AlmostInBuffer => TypeOK
  BY FutureTypes
     DEF TypeOK, Types, ClientTypes, SubTypes, HandlerTypes, SelectTypes, AlmostInBuffer, Messages, Positions

LEMMA ItemTypes ==
  /\ \A s \in Subs : NewSubscriber(s) \in Messages /\ RemoveSubscriber(s) \in Messages
  /\ \A s, t \in Subs : /\ NewSubscriber(s) # RemoveSubscriber(t)
                        /\ NewSubscriber(s) = NewSubscriber(t) => s = t
                        /\ RemoveSubscriber(s) = RemoveSubscriber(t) => s = t
  BY DEF NewSubscriber, RemoveSubscriber, Messages

LEMMA ClientTypesKept == ASSUME Types, [Next]_vars PROVE ClientTypes'
<1>1. ASSUME NEW s \in Subs, AddSettled(s) PROVE ClientTypes'
  BY <1>1 DEF AddSettled, Types, ClientTypes
<1>2. CASE FirstPoll
  BY <1>2 DEF FirstPoll, Types, ClientTypes
<1>3. CASE DropUserHandle
  BY <1>3 DEF DropUserHandle, Types, ClientTypes
<1>4. ASSUME NEW i \in Ids, PeerNotifies(i) PROVE ClientTypes'
  <2>1. Append(log, i) \in Seq(Ids)
    BY DEF Types, ClientTypes
  <2>2. late_error' \in BOOLEAN
    BY <1>4 DEF PeerNotifies
  <2> QED BY <1>4, <2>1, <2>2 DEF PeerNotifies, Types, ClientTypes
<1>5. ASSUME NEW why \in Reasons, ClientStops(why) PROVE ClientTypes'
  BY <1>5 DEF ClientStops, Types, ClientTypes
<1>6. CASE UNCHANGED clientVars
  BY <1>6 DEF Types, ClientTypes
<1> QED BY <1>1, <1>2, <1>3, <1>4, <1>5, <1>6
        DEF Next, HandlerStep, FutureStep, Subscribe, SpawnHandler, CallSubMethod, SubscribeResolves,
            PeerAnswers, Abandon, Read, DropSubscription, DropSubscriber, LaterPoll, TakeMessage,
            Finish, NothingToDo

(* The first poll of current_future: a subscription that still listens     *)
(* gets its message, or the call of unsub_method is sent.                  *)
LEMMA FirstPollEffect ==
  ASSUME Types, FirstPoll
  PROVE  /\ handler = "running"
         /\ \/ /\ current_future.kind = "send" /\ unsub_calls' = unsub_calls
               /\ \/ /\ current_future.to \in Subs /\ sub[current_future.to] = "live"
                     /\ rx' = [rx EXCEPT ![current_future.to] = Append(@, current_future.msg)]
                     /\ current_future' = IF Len(rx'[current_future.to]) > BufferSize
                                          THEN Parked(current_future.to) ELSE Idle
                  \/ sub[current_future.to] # "live" /\ rx' = rx /\ current_future' = Idle
            \/ /\ current_future = Unsubscribing /\ rx' = rx
               /\ \/ up /\ unsub_calls' = unsub_calls + 1 /\ current_future' = Unsubscribed
                  \/ ~up /\ unsub_calls' = unsub_calls /\ current_future' = Idle
<1>1. CASE current_future = Unsubscribing
  BY <1>1 DEF FirstPoll, Unsubscribing
<1>2. CASE current_future.kind = "send" /\ sub[current_future.to] = "live"
  <2> DEFINE s == current_future.to
  <2>1. s \in Subs /\ current_future.msg \in Positions
    BY <1>2, FutureTypes DEF Types, HandlerTypes
  <2>2. /\ rx' = [rx EXCEPT ![s] = Append(rx[s], current_future.msg)]
        /\ current_future' = IF Len(Append(rx[s], current_future.msg)) > BufferSize THEN Parked(s) ELSE Idle
        /\ unsub_calls' = unsub_calls /\ handler = "running"
    BY <1>2 DEF FirstPoll, Unsubscribing
  <2>3. rx'[s] = Append(rx[s], current_future.msg)
    BY <2>1, <2>2 DEF Types, SubTypes
  <2> QED BY <1>2, <2>1, <2>2, <2>3
<1>3. CASE current_future.kind = "send" /\ sub[current_future.to] # "live"
  BY <1>3 DEF FirstPoll, Unsubscribing
<1> QED BY <1>1, <1>2, <1>3 DEF FirstPoll

LEMMA SubTypesKept == ASSUME Types, [Next]_vars PROVE SubTypes'
<1>1. ASSUME NEW s \in Subs,
             Subscribe(s) \/ AddSettled(s) \/ CallSubMethod(s) \/ Abandon(s) \/ SpawnHandler(s)
      PROVE  SubTypes'
  BY <1>1 DEF Subscribe, AddSettled, CallSubMethod, Abandon, SpawnHandler, Become, States, Types, SubTypes
<1>2. ASSUME NEW s \in Subs, PeerAnswers(s) \/ SubscribeResolves(s) PROVE SubTypes'
  BY <1>2 DEF PeerAnswers, SubscribeResolves, Become, States, Types, SubTypes
<1>3. ASSUME NEW s \in Subs, Read(s) PROVE SubTypes'
  <2>1. Append(received[s], Head(rx[s])) \in Seq(Positions) /\ Tail(rx[s]) \in Seq(Positions)
    BY <1>3 DEF Read, Types, SubTypes
  <2> QED BY <1>3, <2>1 DEF Read, Types, SubTypes
<1>4. ASSUME NEW s \in Subs, DropSubscription(s) PROVE SubTypes'
  <2>1. << >> \in Seq(Positions)
    OBVIOUS
  <2> QED BY <1>4, <2>1 DEF DropSubscription, Become, States, Types, SubTypes
<1>5. CASE DropSubscriber
  BY <1>5 DEF DropSubscriber, Types, SubTypes
<1>6. CASE FirstPoll
  <2>1. \A s \in Subs, n \in Positions : Append(rx[s], n) \in Seq(Positions)
    BY DEF Types, SubTypes
  <2>2. rx' \in [Subs -> Seq(Positions)]
    <3>1. CASE current_future.kind = "send"
      <4>1. current_future.msg \in Positions
        BY <3>1, FutureTypes DEF Types, HandlerTypes
      <4>2. \/ rx' = rx
            \/ /\ current_future.to \in Subs
               /\ rx' = [rx EXCEPT ![current_future.to] = Append(rx[current_future.to], current_future.msg)]
        BY <1>6, FirstPollEffect
      <4>3. rx \in [Subs -> Seq(Positions)]
        BY DEF Types, SubTypes
      <4> QED BY <2>1, <4>1, <4>2, <4>3
    <3>2. CASE current_future.kind # "send"
      BY <1>6, <3>2, FirstPollEffect DEF Types, SubTypes
    <3> QED BY <3>1, <3>2
  <2> QED BY <1>6, <2>2 DEF FirstPoll, Types, SubTypes
<1>7. CASE UNCHANGED subVars
  BY <1>7 DEF Types, SubTypes
<1> QED BY <1>1, <1>2, <1>3, <1>4, <1>5, <1>6, <1>7
        DEF Next, HandlerStep, FutureStep, DropUserHandle, LaterPoll, TakeMessage, Finish,
            NothingToDo, PeerNotifies, ClientStops

(* What the handler takes from its streams, and what it makes of it.       *)
LEMMA TakeEffect ==
  ASSUME Types, TakeMessage
  PROVE  /\ handler = "running" /\ current_future = Idle
         /\ \/ /\ messages # << >> /\ messages' = Tail(messages) /\ control' = control
               /\ UNCHANGED <<subscribers, should_shut_down>>
               /\ LET n == Head(messages) IN
                    /\ n \in DOMAIN log
                    /\ \/ current_future' = current_future /\ \A s \in subscribers : id[s] # log[n]
                       \/ \E s \in subscribers : id[s] = log[n] /\ current_future' = Sending(s, n)
            \/ /\ control # << >> /\ control' = Tail(control) /\ messages' = messages
               /\ \E s \in Subs :
                    \/ /\ Head(control) = NewSubscriber(s)
                       /\ subscribers' = {t \in subscribers : id[t] # id[s]} \cup {s}
                       /\ UNCHANGED <<current_future, should_shut_down>>
                    \/ /\ Head(control) = RemoveSubscriber(s)
                       /\ subscribers' = {t \in subscribers : id[t] # id[s]}
                       /\ should_shut_down' = (subscribers' = {})
                       /\ current_future' = Unsubscribing
<1>1. handler = "running" /\ current_future = Idle
  BY DEF TakeMessage, NotBusy
<1>2. ASSUME NEW n \in DOMAIN log, select!TakeStrong(n), handle_new_message(n),
             UNCHANGED <<subscribers, should_shut_down>>
      PROVE  /\ messages # << >> /\ messages' = Tail(messages) /\ control' = control
             /\ n = Head(messages)
             /\ \/ current_future' = current_future /\ \A s \in subscribers : id[s] # log[n]
                \/ \E s \in subscribers : id[s] = log[n] /\ current_future' = Sending(s, n)
  BY <1>2 DEF select!TakeStrong, select!StrongItem, handle_new_message
<1>3. ASSUME NEW s \in Subs, NEW m, select!TakeWeak(m)
      PROVE  control # << >> /\ control' = Tail(control) /\ messages' = messages /\ Head(control) = m
  BY <1>3 DEF select!TakeWeak, select!WeakItem
<1> QED BY <1>1, <1>2, <1>3 DEF TakeMessage, handle_new_subscription, handle_removal, LastGone

LEMMA HandlerTypesKept == ASSUME Types, [Next]_vars PROVE HandlerTypes'
<1>1. ASSUME NEW s \in Subs, SpawnHandler(s) PROVE HandlerTypes'
  BY <1>1 DEF SpawnHandler, Types, HandlerTypes
<1>2. CASE FirstPoll
  <2>1. current_future' \in Futures
    BY <1>2, FirstPollEffect DEF Futures
  <2> QED BY <1>2, <2>1 DEF FirstPoll, Types, HandlerTypes
<1>3. CASE LaterPoll
  BY <1>3 DEF LaterPoll, Types, HandlerTypes, Futures
<1>4. CASE TakeMessage
  <2>1. messages # << >> => Head(messages) \in Positions
    BY DEF Types, SelectTypes
  <2>2. current_future' \in Futures
    BY <1>4, <2>1, TakeEffect DEF Futures, Types, HandlerTypes
  <2>3. subscribers' \subseteq Subs /\ should_shut_down' \in BOOLEAN
    BY <1>4, TakeEffect DEF Types, HandlerTypes
  <2> QED BY <1>4, <2>2, <2>3 DEF TakeMessage, Types, HandlerTypes
<1>5. CASE Finish
  BY <1>5 DEF Finish, Types, HandlerTypes, Futures
<1>6. CASE UNCHANGED handlerVars
  BY <1>6 DEF Types, HandlerTypes
<1> QED BY <1>1, <1>2, <1>3, <1>4, <1>5, <1>6
        DEF Next, HandlerStep, FutureStep, Subscribe, AddSettled, CallSubMethod, SubscribeResolves,
            PeerAnswers, Abandon, Read, DropSubscription, DropSubscriber, DropUserHandle,
            NothingToDo, PeerNotifies, ClientStops

LEMMA SelectTypesKept == ASSUME Types, [Next]_vars PROVE SelectTypes'
<1>1. << >> \in Seq(Positions) /\ << >> \in Seq(Messages)
  OBVIOUS
<1>2. ASSUME NEW s \in Subs, SpawnHandler(s) PROVE SelectTypes'
  BY <1>1, <1>2 DEF SpawnHandler, Types, SelectTypes
<1>3. ASSUME NEW s \in Subs, SubscribeResolves(s) \/ DropSubscription(s) PROVE SelectTypes'
  <2>1. Append(control, NewSubscriber(s)) \in Seq(Messages) /\ Append(control, RemoveSubscriber(s)) \in Seq(Messages)
    BY ItemTypes DEF Types, SelectTypes
  <2> QED BY <1>3, <2>1 DEF SubscribeResolves, DropSubscription, HandlerTold, Types, SelectTypes
<1>4. CASE TakeMessage
  <2>1. messages' \in Seq(Positions) /\ control' \in Seq(Messages)
    <3>1. \/ messages # << >> /\ messages' = Tail(messages) /\ control' = control
          \/ control # << >> /\ control' = Tail(control) /\ messages' = messages
      BY <1>4, TakeEffect
    <3>2. messages \in Seq(Positions) /\ control \in Seq(Messages)
      BY DEF Types, SelectTypes
    <3>3. /\ messages # << >> => Tail(messages) \in Seq(Positions)
          /\ control # << >> => Tail(control) \in Seq(Messages)
      <4> HIDE DEF Messages, Positions
      <4> QED BY <3>2
    <3> QED BY <3>1, <3>2, <3>3
  <2>2. use_strong' \in BOOLEAN /\ weak_done' \in BOOLEAN
    BY <1>4 DEF TakeMessage, select!TakeStrong, select!TakeWeak, select!FlipTurn,
                select!NoticeWeakEnd, Types, SelectTypes
  <2> QED BY <2>1, <2>2 DEF SelectTypes
<1>5. CASE NothingToDo
  BY <1>5 DEF NothingToDo, select!NotReady, select!FlipTurn, select!NoticeWeakEnd, Types, SelectTypes
<1>6. CASE Finish
  BY <1>1, <1>6 DEF Finish, Types, SelectTypes
<1>7. ASSUME NEW i \in Ids, PeerNotifies(i) PROVE SelectTypes'
  <2>1. Len(log') \in Positions
    BY <1>7 DEF PeerNotifies, Types, ClientTypes, Positions
  <2>2. Append(messages, Len(log')) \in Seq(Positions)
    BY <2>1 DEF Types, SelectTypes
  <2> QED BY <1>7, <2>2 DEF PeerNotifies, Types, SelectTypes
<1>8. CASE UNCHANGED selectVars
  BY <1>8 DEF Types, SelectTypes
<1> QED BY <1>2, <1>3, <1>4, <1>5, <1>6, <1>7, <1>8
        DEF Next, HandlerStep, FutureStep, Subscribe, AddSettled, CallSubMethod, PeerAnswers, Abandon,
            Read, DropSubscriber, DropUserHandle, FirstPoll, LaterPoll, ClientStops

LEMMA TypesKept == ASSUME Types, [Next]_vars PROVE Types'
  BY ClientTypesKept, SubTypesKept, HandlerTypesKept, SelectTypesKept DEF Types

-----------------------------------------------------------------------------
(* One handler, and whom it has heard of                                   *)

\* The calls that got past the add, or did without one.
BeyondAdd == {"added", "calling", "sent", "answered", "refused", "abandoned", "live", "dropped"}
Beyond(s) == sub[s] \in BeyondAdd

\* One add is allowed and makes the only handler.  Until that is finished
\* nobody gets further without it.
AddInv ==
  /\ \A s, t \in Subs : sub[s] \in {"adding", "added"} /\ sub[t] \in {"adding", "added"} => s = t
  /\ \A s \in Subs : sub[s] = "added" => handler = "none"
  /\ up /\ ~handler_set => handler = "none" /\ messages = << >> /\ \A s \in Subs : ~Beyond(s)
  /\ handler # "finished" => \A s, t \in Subs : Beyond(s) /\ Beyond(t) => s = t
  /\ handler = "none" => \A s \in Subs : Beyond(s) => sub[s] = "added"

LEMMA AddInvKept == ASSUME Types, AddInv, [Next]_vars PROVE AddInv'
<1> USE DEF BeyondAdd, Beyond, Become
<1>1. ASSUME NEW s \in Subs, Subscribe(s) PROVE AddInv'
  <2>1. UNCHANGED <<up, handler_set, handler, messages>>
    BY <1>1 DEF Subscribe
  <2>2. CASE ReusesChan
    <3>1. handler = "finished" /\ sub' = [sub EXCEPT ![s] = "calling"]
      BY <1>1, <2>2 DEF Subscribe, ReusesChan
    <3> QED BY <2>1, <3>1 DEF AddInv, Types, SubTypes
  <2>3. CASE ~ReusesChan
    <3>1. sub' = [sub EXCEPT ![s] = "adding"] /\ \A t \in Subs : sub[t] \notin {"adding", "added"}
      BY <1>1, <2>3 DEF Subscribe
    <3> QED BY <2>1, <3>1 DEF AddInv, Types, SubTypes
  <2> QED BY <2>2, <2>3
<1>2. ASSUME NEW s \in Subs, AddSettled(s) PROVE AddInv'
  <2>1. UNCHANGED <<up, handler, messages>> /\ sub[s] = "adding"
    BY <1>2 DEF AddSettled
  <2>2. CASE up /\ ~handler_set
    <3>1. handler_set' = TRUE /\ sub' = [sub EXCEPT ![s] = "added"]
      BY <1>2, <2>2 DEF AddSettled
    <3> QED BY <2>1, <2>2, <3>1 DEF AddInv, Types, SubTypes
  <2>3. CASE ~(up /\ ~handler_set)
    <3>1. handler_set' = handler_set /\ \E state \in {"exists", "failed"} : sub' = [sub EXCEPT ![s] = state]
      BY <1>2, <2>3 DEF AddSettled
    <3> QED BY <2>1, <3>1 DEF AddInv, Types, SubTypes
  <2> QED BY <2>2, <2>3
<1>3. ASSUME NEW s \in Subs, SpawnHandler(s) PROVE AddInv'
  <2>1. /\ UNCHANGED <<up, handler_set>> /\ sub[s] = "added" /\ sub' = [sub EXCEPT ![s] = "calling"]
        /\ handler' # "none" /\ handler = "none"
    BY <1>3 DEF SpawnHandler, AddInv
  <2> QED BY <2>1 DEF AddInv, Types, SubTypes
<1>4. ASSUME NEW s \in Subs,
             CallSubMethod(s) \/ PeerAnswers(s) \/ SubscribeResolves(s) \/ Abandon(s) \/ DropSubscription(s)
      PROVE  AddInv'
  <2>1. /\ UNCHANGED <<up, handler_set, handler, messages>>
        /\ sub[s] \in {"calling", "sent", "answered", "refused", "live"}
        /\ \E state \in {"sent", "failed", "answered", "refused", "live", "abandoned", "dropped"} :
             sub' = [sub EXCEPT ![s] = state]
    BY <1>4 DEF CallSubMethod, PeerAnswers, SubscribeResolves, Abandon, DropSubscription
  <2> QED BY <2>1 DEF AddInv, Types, SubTypes
<1>5. CASE TakeMessage
  <2>1. UNCHANGED <<up, handler_set, handler, sub>> /\ handler = "running"
    BY <1>5 DEF TakeMessage
  <2> QED BY <2>1 DEF AddInv
<1>6. CASE Finish
  <2>1. UNCHANGED <<up, handler_set, sub>> /\ handler = "running" /\ handler' = "finished"
    BY <1>6 DEF Finish
  <2> QED BY <2>1 DEF AddInv
<1>7. ASSUME NEW i \in Ids, PeerNotifies(i) PROVE AddInv'
  <2>1. UNCHANGED <<up, handler_set, handler, sub>> /\ (~handler_set => messages' = messages)
    BY <1>7 DEF PeerNotifies
  <2> QED BY <2>1 DEF AddInv
<1>8. ASSUME NEW why \in Reasons, ClientStops(why) PROVE AddInv'
  <2>1. up' = FALSE /\ UNCHANGED <<handler, sub>>
    BY <1>8 DEF ClientStops
  <2> QED BY <2>1 DEF AddInv
<1>9. CASE UNCHANGED <<up, handler_set, handler, sub, messages>>
  BY <1>9 DEF AddInv
<1> QED BY <1>1, <1>2, <1>3, <1>4, <1>5, <1>6, <1>7, <1>8, <1>9
        DEF Next, HandlerStep, FutureStep, Read, DropSubscriber, DropUserHandle, FirstPoll, LaterPoll,
            NothingToDo, select!NotReady

\* The handler that runs has heard of every subscription there is or was.
\* Nothing is in a subscription that it has not heard of.
HeardInv ==
  /\ \A s \in Subs : heard[s] => sub[s] \in {"live", "dropped"}
  /\ \A s, t \in Subs : heard[s] /\ heard[t] => s = t
  /\ handler = "running" => \A s \in Subs : sub[s] \in {"live", "dropped"} => heard[s]
  /\ \A s \in Subs : ~heard[s] => rx[s] = << >> /\ received[s] = << >>
  /\ \A s \in Subs : sub[s] # "live" => rx[s] = << >>

LEMMA HeardInvKept == ASSUME Types, AddInv, HeardInv, [Next]_vars PROVE HeardInv'
<1> USE DEF BeyondAdd, Beyond, Become
<1>1. ASSUME NEW s \in Subs, SpawnHandler(s) PROVE HeardInv'
  <2>1. UNCHANGED <<heard, rx, received>> /\ sub[s] = "added" /\ sub' = [sub EXCEPT ![s] = "calling"]
    BY <1>1 DEF SpawnHandler
  <2>2. \A t \in Subs : sub[t] \notin {"live", "dropped"}
    BY <2>1 DEF AddInv
  <2> QED BY <2>1, <2>2 DEF HeardInv, Types, SubTypes
<1>2. ASSUME NEW s \in Subs, SubscribeResolves(s) PROVE HeardInv'
  <2>1. UNCHANGED <<handler, rx, received>> /\ sub[s] \notin {"live", "dropped"}
    BY <1>2 DEF SubscribeResolves
  <2>2. ~heard[s]
    BY <2>1 DEF HeardInv
  <2>3. CASE sub[s] = "answered"
    <3>1. sub' = [sub EXCEPT ![s] = "live"] /\ heard' = [heard EXCEPT ![s] = (handler = "running")]
      BY <1>2, <2>3 DEF SubscribeResolves
    <3>2. handler = "running" => \A t \in Subs \ {s} : ~heard[t]
      BY <2>3 DEF AddInv, HeardInv
    <3>3. \A t \in Subs \ {s} : sub'[t] = sub[t] /\ heard'[t] = heard[t]
      BY <3>1 DEF Types, SubTypes
    <3>4. sub'[s] = "live" /\ heard'[s] = (handler = "running")
      BY <3>1 DEF Types, SubTypes
    <3> QED BY <2>1, <2>2, <3>2, <3>3, <3>4 DEF HeardInv
  <2>4. CASE sub[s] # "answered"
    <3>1. sub' = [sub EXCEPT ![s] = "failed"] /\ heard' = heard
      BY <1>2, <2>4 DEF SubscribeResolves
    <3> QED BY <2>1, <2>2, <3>1 DEF HeardInv, Types, SubTypes
  <2> QED BY <2>3, <2>4
<1>3. ASSUME NEW s \in Subs, Read(s) PROVE HeardInv'
  <2>1. /\ UNCHANGED <<handler, sub, heard>> /\ sub[s] = "live" /\ heard[s]
        /\ \A t \in Subs \ {s} : rx'[t] = rx[t] /\ received'[t] = received[t]
    BY <1>3 DEF Read, HeardInv, Types, SubTypes
  <2> QED BY <2>1 DEF HeardInv
<1>4. ASSUME NEW s \in Subs, DropSubscription(s) PROVE HeardInv'
  <2>1. UNCHANGED <<handler, heard, received>> /\ sub[s] = "live" /\ sub' = [sub EXCEPT ![s] = "dropped"]
        /\ rx' = [rx EXCEPT ![s] = << >>]
    BY <1>4 DEF DropSubscription
  <2> QED BY <2>1 DEF HeardInv, Types, SubTypes
<1>5. ASSUME NEW s \in Subs, Subscribe(s) \/ AddSettled(s) \/ CallSubMethod(s) \/ PeerAnswers(s) \/ Abandon(s)
      PROVE  HeardInv'
  <2>1. /\ UNCHANGED <<handler, heard, rx, received>> /\ sub[s] \notin {"live", "dropped"}
        /\ \E state \in States \ {"live", "dropped"} : sub' = [sub EXCEPT ![s] = state]
    BY <1>5 DEF Subscribe, AddSettled, CallSubMethod, PeerAnswers, Abandon, States
  <2> QED BY <2>1 DEF HeardInv, Types, SubTypes
<1>6. CASE FirstPoll
  <2>1. UNCHANGED <<handler, sub, heard, received>> /\ handler = "running"
    BY <1>6 DEF FirstPoll
  <2>2. CASE rx' = rx
    BY <2>1, <2>2 DEF HeardInv
  <2>3. CASE rx' # rx
    <3> DEFINE s == current_future.to
    <3>1. s \in Subs /\ sub[s] = "live" /\ rx' = [rx EXCEPT ![s] = Append(@, current_future.msg)]
      BY <1>6, <2>3, FirstPollEffect
    <3>2. \A t \in Subs \ {s} : rx'[t] = rx[t]
      BY <3>1 DEF Types, SubTypes
    <3> HIDE DEF s
    <3> QED BY <2>1, <3>1, <3>2 DEF HeardInv
  <2> QED BY <2>2, <2>3
<1>7. CASE Finish
  <2>1. UNCHANGED <<sub, heard, rx, received>> /\ handler' = "finished"
    BY <1>7 DEF Finish
  <2> QED BY <2>1 DEF HeardInv
<1>8. CASE UNCHANGED <<handler, sub, heard, rx, received>>
  BY <1>8 DEF HeardInv
<1> QED BY <1>1, <1>2, <1>3, <1>4, <1>5, <1>6, <1>7, <1>8
        DEF Next, HandlerStep, FutureStep, DropSubscriber, DropUserHandle, LaterPoll, TakeMessage,
            NothingToDo, PeerNotifies, ClientStops

-----------------------------------------------------------------------------
(* The room in a subscription                                              *)

\* Only the subscription that current_future waits for is over its buffer.
RoomInv ==
  /\ \A s \in Subs : Len(rx[s]) <= BufferSize + 1
  /\ handler = "running" =>
       \A s \in Subs : Len(rx[s]) <= BufferSize \/ current_future = Parked(s)

LEMMA NotParked == \A s, t \in Subs : /\ Parked(s) = Parked(t) => s = t
                                      /\ Parked(s) \notin {Idle, Unsubscribing, Unsubscribed}
                                      /\ Parked(s).kind = "parked" /\ Parked(s).to = s
  BY DEF Parked, Idle, Unsubscribing, Unsubscribed

LEMMA RoomInvKept == ASSUME Types, AddInv, HeardInv, RoomInv, [Next]_vars PROVE RoomInv'
<1> USE BufferSizeIsNatural
<1>1. \A s \in Subs : rx[s] \in Seq(Positions) /\ Len(rx[s]) \in Nat
  BY DEF Types, SubTypes
<1>2. ASSUME NEW s \in Subs, SpawnHandler(s) PROVE RoomInv'
  <2>1. rx' = rx /\ sub[s] = "added"
    BY <1>2 DEF SpawnHandler
  <2>2. \A t \in Subs : rx[t] = << >>
    BY <2>1 DEF AddInv, HeardInv, Beyond, BeyondAdd
  <2> QED BY <2>1, <2>2 DEF RoomInv
<1>3. ASSUME NEW s \in Subs, Read(s) PROVE RoomInv'
  <2>1. /\ UNCHANGED <<handler, current_future>> /\ rx[s] # << >> /\ rx'[s] = Tail(rx[s])
        /\ \A t \in Subs \ {s} : rx'[t] = rx[t]
    BY <1>3 DEF Read, Types, SubTypes
  <2>2. Len(rx'[s]) = Len(rx[s]) - 1
    BY <1>1, <2>1
  <2>3. \A t \in Subs : Len(rx[t]) \in Nat /\ Len(rx'[t]) \in Int /\ Len(rx'[t]) <= Len(rx[t])
    <3>1. Len(rx[s]) \in Nat /\ Len(rx'[s]) \in Int /\ Len(rx'[s]) <= Len(rx[s])
      BY <1>1, <2>2
    <3>2. \A t \in Subs \ {s} : Len(rx[t]) \in Nat /\ Len(rx'[t]) = Len(rx[t])
      BY <1>1, <2>1
    <3> QED BY <3>1, <3>2
  <2>4. ASSUME NEW t \in Subs PROVE /\ Len(rx'[t]) <= BufferSize + 1
                                    /\ Len(rx[t]) <= BufferSize => Len(rx'[t]) <= BufferSize
    BY <2>3 DEF RoomInv
  <2> QED BY <2>1, <2>4 DEF RoomInv
<1>4. ASSUME NEW s \in Subs, DropSubscription(s) PROVE RoomInv'
  <2>1. /\ UNCHANGED <<handler, current_future>> /\ rx'[s] = << >> /\ \A t \in Subs \ {s} : rx'[t] = rx[t]
    BY <1>4 DEF DropSubscription, Types, SubTypes
  <2>2. Len(rx'[s]) = 0
    BY <2>1
  <2> QED BY <1>1, <2>1, <2>2 DEF RoomInv
<1>5. CASE FirstPoll
  <2>1. handler = "running" /\ handler' = handler
    BY <1>5 DEF FirstPoll
  <2>2. current_future.kind = "send" \/ current_future = Unsubscribing
    BY <1>5 DEF FirstPoll
  <2>3. \A s \in Subs : current_future # Parked(s)
    BY <2>2, NotParked
  <2>4. \A s \in Subs : Len(rx[s]) <= BufferSize
    BY <2>1, <2>3 DEF RoomInv
  <2>5. CASE rx' = rx
    BY <1>1, <2>4, <2>5 DEF RoomInv
  <2>6. CASE rx' # rx
    <3> DEFINE s == current_future.to
               n == current_future.msg
    <3>1. /\ s \in Subs /\ current_future.kind = "send"
          /\ rx' = [rx EXCEPT ![s] = Append(rx[s], n)]
          /\ current_future' = IF Len(rx'[s]) > BufferSize THEN Parked(s) ELSE Idle
      BY <1>5, <2>6, FirstPollEffect
    <3>2. n \in Positions
      BY <3>1, FutureTypes DEF Types, HandlerTypes
    <3> HIDE DEF s, n
    <3>3. rx'[s] = Append(rx[s], n) /\ \A t \in Subs \ {s} : rx'[t] = rx[t]
      BY <3>1 DEF Types, SubTypes
    <3>4. Len(rx'[s]) = Len(rx[s]) + 1
      BY <1>1, <3>1, <3>2, <3>3
    <3> QED BY <1>1, <2>4, <3>1, <3>3, <3>4 DEF RoomInv
  <2> QED BY <2>5, <2>6
<1>6. CASE LaterPoll
  <2>1. handler = "running" /\ rx' = rx /\ current_future' = Idle
    BY <1>6 DEF LaterPoll
  <2>2. ASSUME NEW s \in Subs, current_future = Parked(s) PROVE Len(rx[s]) <= BufferSize
    <3>1. sub[s] = "live" => Len(rx[s]) <= BufferSize
      BY <1>6, <2>2, NotParked DEF LaterPoll
    <3>2. sub[s] # "live" => rx[s] = << >>
      BY DEF HeardInv
    <3> QED BY <3>1, <3>2
  <2> QED BY <2>1, <2>2 DEF RoomInv
<1>7. CASE TakeMessage
  <2>1. handler = "running" /\ handler' = handler /\ rx' = rx /\ current_future = Idle
    BY <1>7, TakeEffect DEF TakeMessage
  <2> QED BY <2>1, NotParked DEF RoomInv
<1>8. CASE Finish
  <2>1. rx' = rx /\ handler' = "finished"
    BY <1>8 DEF Finish
  <2> QED BY <2>1 DEF RoomInv
<1>9. CASE UNCHANGED <<handler, rx, current_future>>
  BY <1>9 DEF RoomInv
<1> QED BY <1>2, <1>3, <1>4, <1>5, <1>6, <1>7, <1>8, <1>9
        DEF Next, HandlerStep, FutureStep, Subscribe, AddSettled, CallSubMethod, SubscribeResolves,
            PeerAnswers, Abandon, DropSubscriber, DropUserHandle, NothingToDo, PeerNotifies, ClientStops

-----------------------------------------------------------------------------
(* The way of the one subscription that the handler hears of               *)

\* It waits in the control channel ...
NotYet(s) == subscribers = {} /\ current_future = Idle /\ rx[s] = << >> /\ received[s] = << >>
\* ... is served ...
Serving(s) ==
  /\ subscribers = {s}
  /\ \/ current_future \in {Idle, Parked(s)}
     \/ \E n \in DOMAIN log : current_future = Sending(s, n)
\* ... and has been removed.
Leaving ==
  /\ control = << >> /\ subscribers = {} /\ should_shut_down
  /\ \/ current_future = Unsubscribing /\ unsub_calls = 0
     \/ current_future \in {Unsubscribed, Idle} /\ (up => unsub_calls = 1)
Phase(s) ==
  \/ /\ ~should_shut_down
     /\ unsub_calls = 0
     /\ \/ sub[s] = "live" /\ control = <<NewSubscriber(s)>> /\ NotYet(s)
        \/ sub[s] = "live" /\ control = << >> /\ Serving(s)
        \/ sub[s] = "dropped" /\ control = <<NewSubscriber(s), RemoveSubscriber(s)>> /\ NotYet(s)
        \/ sub[s] = "dropped" /\ control = <<RemoveSubscriber(s)>> /\ Serving(s)
  \/ sub[s] = "dropped" /\ Leaving

Nobody == control = << >> /\ subscribers = {} /\ current_future = Idle
Unheard == Nobody /\ ~should_shut_down /\ unsub_calls = 0

PhaseInv ==
  /\ \A s \in Subs : heard[s] /\ handler # "finished" => Phase(s)
  /\ (\A s \in Subs : ~heard[s]) => Unheard
  /\ handler = "finished" => Nobody
GoesInv == UnsubscribedBeforeItGoes

LEMMA FutureKinds ==
  /\ \A s, n : Sending(s, n).kind = "send" /\ Sending(s, n).to = s /\ Sending(s, n).msg = n
  /\ \A s : Parked(s).kind = "parked" /\ Parked(s).to = s
  /\ Idle.kind = "none" /\ Unsubscribing.kind = "unsub" /\ Unsubscribed.kind = "unsub_sent"
  BY DEF Sending, Parked, Idle, Unsubscribing, Unsubscribed

\* What the phases are about stays, except for subscriptions not heard of.
LEMMA PhaseSame ==
  ASSUME PhaseInv, DOMAIN log \subseteq DOMAIN log', up' => up,
         UNCHANGED <<handler, subscribers, current_future, should_shut_down, control, unsub_calls, heard>>,
         \A s \in Subs : heard[s] => sub'[s] = sub[s] /\ rx'[s] = rx[s] /\ received'[s] = received[s]
  PROVE  PhaseInv'
<1>1. ASSUME NEW s \in Subs, heard[s], handler # "finished" PROVE Phase(s)'
  <2>1. Phase(s)
    BY <1>1 DEF PhaseInv
  <2>2. NotYet(s) => NotYet(s)'
    BY <1>1 DEF NotYet
  <2>3. Serving(s) => Serving(s)'
    BY <1>1 DEF Serving, Parked, Idle, Sending
  <2>4. Leaving => Leaving'
    BY DEF Leaving
  <2> QED BY <1>1, <2>1, <2>2, <2>3, <2>4 DEF Phase, NewSubscriber, RemoveSubscriber
<1> QED BY <1>1 DEF PhaseInv, Unheard, Nobody

LEMMA PhaseFirstPoll == ASSUME Types, AddInv, HeardInv, PhaseInv, FirstPoll PROVE PhaseInv'
<1>1. /\ handler = "running" /\ current_future # Idle
      /\ UNCHANGED <<up, log, sub, heard, received, handler, subscribers, should_shut_down, control>>
  BY FutureKinds DEF FirstPoll
<1>2. PICK s \in Subs : heard[s]
  BY <1>1 DEF PhaseInv, Unheard, Nobody
<1>3. Phase(s)
  BY <1>1, <1>2 DEF PhaseInv
<1>4. CASE current_future.kind = "send"
  <2>1. unsub_calls' = unsub_calls
    BY <1>4, FirstPollEffect, FutureKinds
  <2>2. Serving(s)
    BY <1>1, <1>3, <1>4, FutureKinds DEF Phase, NotYet, Leaving
  <2>3. current_future.to = s
    BY <1>1, <1>4, <2>2, FutureKinds DEF Serving
  <2>4. current_future' \in {Idle, Parked(s)}
    BY <1>4, <2>3, FirstPollEffect, FutureKinds
  <2>5. Serving(s)'
    BY <1>1, <2>2, <2>4 DEF Serving
  <2>6. ~NotYet(s) /\ ~Leaving
    BY <2>2 DEF Serving, NotYet, Leaving
  <2>7. Phase(s)'
    BY <1>1, <1>3, <2>1, <2>5, <2>6 DEF Phase
  <2> QED BY <1>1, <1>2, <2>7 DEF PhaseInv, HeardInv
<1>5. CASE current_future.kind # "send"
  <2>1. current_future = Unsubscribing
    BY <1>5, FirstPollEffect
  <2>2. Leaving /\ sub[s] = "dropped"
    BY <1>3, <2>1, FutureKinds DEF Phase, NotYet, Serving
  <2>3. unsub_calls = 0
    BY <2>1, <2>2, FutureKinds DEF Leaving
  <2>4. current_future' \in {Unsubscribed, Idle} /\ (up => unsub_calls' = 1)
    BY <2>1, <2>3, FirstPollEffect, FutureKinds
  <2>5. Leaving'
    BY <1>1, <2>2, <2>4 DEF Leaving
  <2>6. Phase(s)'
    BY <1>1, <2>2, <2>5 DEF Phase
  <2> QED BY <1>1, <1>2, <2>6 DEF PhaseInv, HeardInv
<1> QED BY <1>4, <1>5

LEMMA PhaseTakeMessage == ASSUME Types, AddInv, HeardInv, PhaseInv, TakeMessage PROVE PhaseInv'
<1>1. /\ handler = "running" /\ current_future = Idle
      /\ UNCHANGED <<up, log, unsub_calls, sub, id, heard, rx, received, handler>>
  BY TakeEffect DEF TakeMessage
<1>2. CASE \A s \in Subs : ~heard[s]
  <2>1. Unheard
    BY <1>2 DEF PhaseInv
  <2>2. UNCHANGED <<control, subscribers, current_future, should_shut_down>>
    BY <2>1, TakeEffect DEF Unheard, Nobody
  <2> QED BY <1>1, <1>2, <2>1, <2>2 DEF PhaseInv, Unheard, Nobody
<1>3. ASSUME NEW s \in Subs, heard[s] PROVE PhaseInv'
  <2>1. Phase(s)
    BY <1>1, <1>3 DEF PhaseInv
  <2>2. CASE control' = control
    <3>1. UNCHANGED <<subscribers, should_shut_down>>
      BY <2>2, TakeEffect DEF Types, SelectTypes
    <3>2. \/ current_future' = current_future
          \/ \E t \in subscribers, n \in DOMAIN log : current_future' = Sending(t, n)
      BY <2>2, TakeEffect DEF Types, SelectTypes
    <3>3. NotYet(s) => NotYet(s)'
      BY <1>1, <3>1, <3>2 DEF NotYet
    <3>4. Serving(s) => Serving(s)'
      BY <1>1, <3>1, <3>2 DEF Serving
    <3>5. Leaving => Leaving'
      BY <1>1, <2>2, <3>1, <3>2 DEF Leaving
    <3>6. Phase(s)'
      BY <1>1, <2>1, <2>2, <3>1, <3>3, <3>4, <3>5 DEF Phase
    <3> QED BY <1>1, <1>3, <3>6 DEF PhaseInv, HeardInv
  <2>3. CASE control' # control
    <3>1. PICK t \in Subs :
            /\ control # << >> /\ control' = Tail(control)
            /\ \/ /\ Head(control) = NewSubscriber(t)
                  /\ subscribers' = {u \in subscribers : id[u] # id[t]} \cup {t}
                  /\ UNCHANGED <<current_future, should_shut_down>>
               \/ /\ Head(control) = RemoveSubscriber(t)
                  /\ subscribers' = {u \in subscribers : id[u] # id[t]}
                  /\ should_shut_down' = (subscribers' = {})
                  /\ current_future' = Unsubscribing
      BY <2>3, TakeEffect
    <3>2. CASE control = <<NewSubscriber(s)>> \/ control = <<NewSubscriber(s), RemoveSubscriber(s)>>
      <4>1. Head(control) = NewSubscriber(s)
        BY <3>2
      <4>2. t = s /\ UNCHANGED <<current_future, should_shut_down>>
        BY <3>1, <4>1, ItemTypes
      <4>3. NotYet(s) /\ ~should_shut_down /\ unsub_calls = 0
        BY <2>1, <3>2, <4>1, ItemTypes DEF Phase, Leaving
      <4>4. subscribers' = {s}
        BY <3>1, <4>1, <4>2, <4>3, ItemTypes DEF NotYet
      <4>5. Serving(s)'
        BY <4>2, <4>3, <4>4 DEF Serving, NotYet
      <4>6. \/ sub[s] = "live" /\ control = <<NewSubscriber(s)>>
            \/ sub[s] = "dropped" /\ control = <<NewSubscriber(s), RemoveSubscriber(s)>>
        BY <2>1, <3>2, <4>1, ItemTypes DEF Phase, Leaving
      <4>7. \/ sub[s] = "live" /\ control' = << >>
            \/ sub[s] = "dropped" /\ control' = <<RemoveSubscriber(s)>>
        <5>1. \A a, b : Tail(<<a>>) = << >> /\ Tail(<<a, b>>) = <<b>>
          OBVIOUS
        <5> QED BY <3>1, <4>6, <5>1
      <4>8. Phase(s)'
        BY <1>1, <4>2, <4>3, <4>5, <4>7 DEF Phase, RemoveSubscriber
      <4> QED BY <1>1, <1>3, <4>8 DEF PhaseInv, HeardInv
    <3>3. CASE ~(control = <<NewSubscriber(s)>> \/ control = <<NewSubscriber(s), RemoveSubscriber(s)>>)
      <4>1. /\ control = <<RemoveSubscriber(s)>> /\ Serving(s) /\ sub[s] = "dropped"
            /\ ~should_shut_down /\ unsub_calls = 0
        BY <2>1, <3>1, <3>3 DEF Phase, Leaving
      <4>2. Head(control) = RemoveSubscriber(s) /\ Tail(control) = << >>
        BY <4>1
      <4>3. t = s /\ subscribers' = {u \in subscribers : id[u] # id[s]} /\ current_future' = Unsubscribing
        BY <3>1, <4>2, ItemTypes
      <4>4. subscribers' = {}
        BY <4>1, <4>3 DEF Serving
      <4>5. should_shut_down'
        BY <3>1, <4>2, <4>4, ItemTypes
      <4>6. Leaving'
        BY <1>1, <3>1, <4>1, <4>2, <4>3, <4>4, <4>5 DEF Leaving
      <4>7. Phase(s)'
        BY <1>1, <4>1, <4>6 DEF Phase
      <4> QED BY <1>1, <1>3, <4>7 DEF PhaseInv, HeardInv
    <3> QED BY <3>2, <3>3
  <2> QED BY <2>2, <2>3
<1> QED BY <1>2, <1>3

LEMMA PhaseInvKept ==
  ASSUME Types, AddInv, HeardInv, PhaseInv, GoesInv, [Next]_vars PROVE PhaseInv' /\ GoesInv'
<1> USE DEF GoesInv, UnsubscribedBeforeItGoes, Become
<1>1. ASSUME NEW s \in Subs, SubscribeResolves(s) PROVE PhaseInv' /\ GoesInv'
  <2>1. /\ sub[s] \in {"answered", "refused", "sent"} /\ ~heard[s] /\ rx[s] = << >> /\ received[s] = << >>
        /\ UNCHANGED <<up, log, handler, subscribers, current_future, should_shut_down, unsub_calls, rx, received>>
        /\ \A t \in Subs \ {s} : sub'[t] = sub[t] /\ heard'[t] = heard[t]
    BY <1>1 DEF SubscribeResolves, HeardInv, Types, SubTypes
  <2>2. CASE sub[s] = "answered" /\ handler = "running"
    <3>1. /\ sub'[s] = "live" /\ heard'[s] /\ control' = Append(control, NewSubscriber(s))
      BY <1>1, <2>2 DEF SubscribeResolves, Types, SubTypes
    <3>2. \A t \in Subs : ~heard[t]
      BY <2>1, <2>2 DEF AddInv, HeardInv, Beyond, BeyondAdd
    <3>3. Unheard
      BY <3>2 DEF PhaseInv
    <3>4. control' = <<NewSubscriber(s)>>
      BY <3>1, <3>3 DEF Unheard, Nobody
    <3>5. NotYet(s)'
      BY <2>1, <3>3 DEF NotYet, Unheard, Nobody
    <3>6. Phase(s)'
      BY <2>1, <3>1, <3>3, <3>4, <3>5 DEF Phase, Unheard, NewSubscriber
    <3>7. \A t \in Subs : heard'[t] => t = s
      BY <2>1, <3>2
    <3> QED BY <2>1, <2>2, <3>1, <3>6, <3>7 DEF PhaseInv
  <2>3. CASE ~(sub[s] = "answered" /\ handler = "running")
    <3>1. UNCHANGED <<heard, control>>
      BY <1>1, <2>1, <2>3 DEF SubscribeResolves, Types, SubTypes
    <3>2. \A t \in Subs : heard[t] => sub'[t] = sub[t] /\ rx'[t] = rx[t] /\ received'[t] = received[t]
      BY <2>1
    <3>3. PhaseInv'
      BY <2>1, <3>1, <3>2, PhaseSame
    <3> QED BY <2>1, <3>1, <3>2, <3>3
  <2> QED BY <2>2, <2>3
<1>2. ASSUME NEW s \in Subs, SpawnHandler(s) PROVE PhaseInv' /\ GoesInv'
  <2>1. /\ sub[s] = "added" /\ handler' # "none"
        /\ UNCHANGED <<heard, subscribers, current_future, should_shut_down, control, unsub_calls>>
    BY <1>2 DEF SpawnHandler
  <2>2. \A t \in Subs : ~heard[t]
    BY <2>1 DEF AddInv, HeardInv, Beyond, BeyondAdd
  <2>3. Unheard
    BY <2>2 DEF PhaseInv
  <2> QED BY <2>1, <2>2, <2>3 DEF PhaseInv, Unheard, Nobody
<1>3. ASSUME NEW s \in Subs, DropSubscription(s) PROVE PhaseInv' /\ GoesInv'
  <2>1. /\ UNCHANGED <<up, log, handler, subscribers, current_future, should_shut_down, unsub_calls,
                       heard, received>>
        /\ sub[s] = "live" /\ sub'[s] = "dropped" /\ rx'[s] = << >>
        /\ \A t \in Subs \ {s} : sub'[t] = sub[t] /\ rx'[t] = rx[t]
        /\ control' = HandlerTold(s)
    BY <1>3 DEF DropSubscription, Types, SubTypes
  <2>2. GoesInv'
    BY <2>1
  <2>3. CASE handler = "running"
    <3>1. heard[s] /\ \A t \in Subs : heard[t] => t = s
      BY <2>1, <2>3 DEF HeardInv
    <3>2. Phase(s) /\ control' = Append(control, RemoveSubscriber(s))
      BY <2>1, <2>3, <3>1 DEF PhaseInv, HandlerTold
    <3>3. /\ ~should_shut_down /\ unsub_calls = 0
          /\ \/ control = <<NewSubscriber(s)>> /\ NotYet(s)
             \/ control = << >> /\ Serving(s)
      BY <2>1, <3>2 DEF Phase
    <3>4. \/ control' = <<NewSubscriber(s), RemoveSubscriber(s)>> /\ NotYet(s)
          \/ control' = <<RemoveSubscriber(s)>> /\ Serving(s)
      <4>1. /\ Append(<<NewSubscriber(s)>>, RemoveSubscriber(s)) = <<NewSubscriber(s), RemoveSubscriber(s)>>
            /\ Append(<< >>, RemoveSubscriber(s)) = <<RemoveSubscriber(s)>>
        BY AppendSmall, ItemTypes
      <4> QED BY <3>2, <3>3, <4>1
    <3>5. (NotYet(s) => NotYet(s)') /\ (Serving(s) => Serving(s)')
      BY <2>1 DEF NotYet, Serving, Parked, Sending, Idle
    <3>6. Phase(s)'
      BY <2>1, <3>3, <3>4, <3>5 DEF Phase, NewSubscriber, RemoveSubscriber
    <3> QED BY <2>1, <2>2, <2>3, <3>1, <3>6 DEF PhaseInv
  <2>4. CASE handler # "running"
    <3>1. handler = "finished"
      BY <2>1, <2>4 DEF Types, HandlerTypes, AddInv, Beyond, BeyondAdd
    <3>2. control' = control
      BY <2>1, <2>4 DEF HandlerTold
    <3> QED BY <2>1, <2>2, <3>1, <3>2 DEF PhaseInv, Unheard, Nobody
  <2> QED BY <2>3, <2>4
<1>4. ASSUME NEW s \in Subs, Read(s) PROVE PhaseInv' /\ GoesInv'
  <2>1. /\ UNCHANGED <<up, log, sub, handler, subscribers, current_future, should_shut_down, control,
                       unsub_calls, heard>>
        /\ rx[s] # << >> /\ sub[s] = "live"
        /\ \A t \in Subs \ {s} : rx'[t] = rx[t] /\ received'[t] = received[t]
    BY <1>4 DEF Read, Types, SubTypes
  <2>2. ASSUME NEW t \in Subs, heard[t], handler # "finished" PROVE Phase(t)'
    <3>1. Phase(t)
      BY <2>2 DEF PhaseInv
    <3>2. (Serving(t) => Serving(t)') /\ (Leaving => Leaving')
      BY <2>1 DEF Serving, Leaving, Parked, Sending, Idle
    <3>3. NotYet(t) => NotYet(t)'
      BY <2>1 DEF NotYet
    <3> QED BY <2>1, <3>1, <3>2, <3>3 DEF Phase, NewSubscriber, RemoveSubscriber
  <2> QED BY <2>1, <2>2 DEF PhaseInv, Unheard, Nobody
<1>5. ASSUME NEW s \in Subs, Subscribe(s) \/ AddSettled(s) \/ CallSubMethod(s) \/ PeerAnswers(s) \/ Abandon(s)
      PROVE  PhaseInv' /\ GoesInv'
  <2>1. /\ UNCHANGED <<up, log, handler, subscribers, current_future, should_shut_down, control,
                       unsub_calls, heard, rx, received>>
        /\ sub[s] \notin {"live", "dropped"} /\ \A t \in Subs \ {s} : sub'[t] = sub[t]
    BY <1>5 DEF Subscribe, AddSettled, CallSubMethod, PeerAnswers, Abandon, Types, SubTypes
  <2>2. \A t \in Subs : heard[t] => sub'[t] = sub[t] /\ rx'[t] = rx[t] /\ received'[t] = received[t]
    BY <2>1 DEF HeardInv
  <2>3. PhaseInv'
    BY <2>1, <2>2, PhaseSame
  <2> QED BY <2>1, <2>2, <2>3
<1>6. CASE FirstPoll
  <2>1. handler = "running" /\ handler' = handler
    BY <1>6 DEF FirstPoll
  <2> QED BY <1>6, <2>1, PhaseFirstPoll
<1>7. CASE LaterPoll
  <2>1. /\ UNCHANGED <<up, log, unsub_calls, sub, heard, rx, received, handler, subscribers,
                       should_shut_down, control>>
        /\ current_future # Idle /\ current_future' = Idle /\ handler = "running"
        /\ current_future.kind = "parked" \/ current_future = Unsubscribed
    BY <1>7, FutureKinds DEF LaterPoll
  <2>2. PICK s \in Subs : heard[s]
    BY <2>1 DEF PhaseInv, Unheard, Nobody
  <2>3. Phase(s)
    BY <2>1, <2>2 DEF PhaseInv
  <2>4. ~NotYet(s) /\ (Serving(s) => Serving(s)')
    BY <2>1 DEF NotYet, Serving
  <2>5. Leaving => Leaving'
    BY <2>1, FutureKinds DEF Leaving
  <2>6. Phase(s)'
    BY <2>1, <2>3, <2>4, <2>5 DEF Phase, RemoveSubscriber
  <2> QED BY <2>1, <2>2, <2>6 DEF PhaseInv, HeardInv
<1>8. CASE TakeMessage
  <2>1. handler = "running" /\ handler' = handler
    BY <1>8 DEF TakeMessage
  <2> QED BY <1>8, <2>1, PhaseTakeMessage
<1>9. CASE Finish
  <2>1. /\ UNCHANGED <<up, sub, heard, should_shut_down, unsub_calls>> /\ handler = "running"
        /\ handler' = "finished" /\ control' = << >> /\ subscribers' = {} /\ current_future' = Idle
    BY <1>9 DEF Finish
  <2>2. ASSUME NEW s \in Subs, up, heard[s] PROVE sub[s] = "dropped" /\ unsub_calls = 1
    <3>1. handler_set
      BY <2>1, <2>2 DEF AddInv
    <3>2. should_shut_down /\ current_future.kind # "unsub"
      BY <1>9, <3>1 DEF Finish, FuturePolled, select!StrongEnd
    <3>3. sub[s] = "dropped" /\ Leaving
      BY <2>1, <2>2, <3>2 DEF PhaseInv, Phase
    <3> QED BY <2>2, <3>2, <3>3, FutureKinds DEF Leaving
  <2> QED BY <2>1, <2>2 DEF PhaseInv, Unheard, Nobody
<1>10. ASSUME NEW i \in Ids, PeerNotifies(i) PROVE PhaseInv' /\ GoesInv'
  <2>1. /\ UNCHANGED <<up, sub, handler, subscribers, current_future, should_shut_down, control,
                       unsub_calls, heard, rx, received>>
        /\ log' = Append(log, i)
    BY <1>10 DEF PeerNotifies
  <2>2. DOMAIN log \subseteq DOMAIN log'
    BY <2>1 DEF Types, ClientTypes
  <2> QED BY <2>1, <2>2, PhaseSame
<1>11. ASSUME NEW why \in Reasons, ClientStops(why) PROVE PhaseInv' /\ GoesInv'
  <2>1. /\ UNCHANGED <<log, sub, handler, subscribers, current_future, should_shut_down, control,
                       unsub_calls, heard, rx, received>>
        /\ up /\ ~up'
    BY <1>11 DEF ClientStops
  <2> QED BY <2>1, PhaseSame
<1>12. CASE DropSubscriber \/ DropUserHandle \/ NothingToDo \/ UNCHANGED vars
  <2>1. UNCHANGED <<up, log, sub, handler, subscribers, current_future, should_shut_down, control,
                    unsub_calls, heard, rx, received>>
    BY <1>12 DEF DropSubscriber, DropUserHandle, NothingToDo, select!NotReady
  <2> QED BY <2>1, PhaseSame
<1> QED BY <1>1, <1>2, <1>3, <1>4, <1>5, <1>6, <1>7, <1>8, <1>9, <1>10, <1>11, <1>12
        DEF Next, HandlerStep, FutureStep

-----------------------------------------------------------------------------

HandlingInv == Types /\ AddInv /\ HeardInv /\ RoomInv /\ PhaseInv /\ GoesInv

LEMMA HandlingInvHolds == Spec => []HandlingInv
<1>1. Init => HandlingInv
  <2> SUFFICES ASSUME Init PROVE HandlingInv
    OBVIOUS
  <2> USE DEF Init, select!SelectInit
  <2>1. << >> \in Seq(Positions) /\ << >> \in Seq(Messages) /\ << >> \in Seq(Ids) /\ Len(<< >>) = 0
    OBVIOUS
  <2>2. Types
    <3>1. ClientTypes
      BY <2>1 DEF ClientTypes
    <3>2. SubTypes
      BY <2>1 DEF SubTypes, States
    <3>3. HandlerTypes
      <4>1. current_future \in Futures
        BY DEF Futures
      <4>2. subscribers \subseteq Subs /\ should_shut_down \in BOOLEAN /\ handler = "none"
        OBVIOUS
      <4> QED BY <4>1, <4>2 DEF HandlerTypes
    <3>4. SelectTypes
      BY <2>1 DEF SelectTypes
    <3> QED BY <3>1, <3>2, <3>3, <3>4 DEF Types
  <2>3. AddInv /\ HeardInv
    BY DEF AddInv, HeardInv, Beyond, BeyondAdd
  <2>4. RoomInv
    BY BufferSizeIsNatural, <2>1 DEF RoomInv
  <2>5. PhaseInv /\ GoesInv
    BY DEF PhaseInv, Unheard, Nobody, GoesInv, UnsubscribedBeforeItGoes
  <2> QED BY <2>2, <2>3, <2>4, <2>5 DEF HandlingInv
<1>2. HandlingInv /\ [Next]_vars => HandlingInv'
  BY TypesKept, AddInvKept, HeardInvKept, RoomInvKept, PhaseInvKept DEF HandlingInv
<1> QED BY <1>1, <1>2, PTL DEF Spec

(* Every value has its type, and a subscription is over its buffer by one  *)
(* notification at most, that of the send that waits for it                *)
(* (NotificationHandler::ready_for_next_connection).                       *)
THEOREM TypeCorrect == Spec => []TypeOK
<1>1. HandlingInv => TypeOK
  BY TypesSuffice DEF HandlingInv, RoomInv, AlmostInBuffer
<1> QED BY <1>1, HandlingInvHolds, PTL

(* While the client is there, the handler goes only after the subscription *)
(* it heard of was dropped and the call of unsub_method is on its way      *)
(* (handle_removal, NotificationHandler::poll).                            *)
THEOREM UnsubscribedBeforeItGoesHolds == Spec => []UnsubscribedBeforeItGoes
<1>1. HandlingInv => UnsubscribedBeforeItGoes
  BY DEF HandlingInv, GoesInv
<1> QED BY <1>1, HandlingInvHolds, PTL

-----------------------------------------------------------------------------
(* What a subscription gets                                                *)

Increasing(q) == \A i, j \in DOMAIN q : i < j => q[i] < q[j]

LEMMA IncreasingAppend ==
  ASSUME NEW q \in Seq(Positions), NEW e \in Positions, Increasing(q), \A n \in ToSet(q) : n < e
  PROVE  Increasing(Append(q, e))
<1> DEFINE t == Append(q, e)
<1>1. /\ Len(q) \in Nat /\ DOMAIN q = 1..Len(q) /\ DOMAIN t = 1..(Len(q) + 1)
      /\ t[Len(q) + 1] = e /\ \A i \in 1..Len(q) : t[i] = q[i]
  OBVIOUS
<1> HIDE DEF t
<1>2. \A i \in 1..Len(q) : q[i] < e
  BY <1>1 DEF ToSet
<1>3. ASSUME NEW i \in DOMAIN t, NEW j \in DOMAIN t, i < j PROVE t[i] < t[j]
  <2>1. i \in 1..Len(q)
    BY <1>1, <1>3
  <2>2. CASE j \in 1..Len(q)
    BY <1>1, <1>3, <2>1, <2>2 DEF Increasing
  <2>3. CASE j = Len(q) + 1
    BY <1>1, <1>2, <2>1, <2>3
  <2> QED BY <1>1, <2>2, <2>3
<1>4. Increasing(t)
  BY <1>3 DEF Increasing
<1> QED BY <1>4 DEF t

LEMMA IncreasingTail ==
  ASSUME NEW q \in Seq(Positions), q # << >>, Increasing(q)
  PROVE  /\ Increasing(Tail(q)) /\ \A n \in ToSet(Tail(q)) : Head(q) < n
         /\ ToSet(Tail(q)) = ToSet(q) \ {Head(q)}
<1> DEFINE t == Tail(q)
<1>1. /\ Len(q) \in Nat /\ Len(q) >= 1 /\ DOMAIN q = 1..Len(q) /\ DOMAIN t = 1..(Len(q) - 1)
      /\ Head(q) = q[1] /\ \A i \in 1..(Len(q) - 1) : t[i] = q[i + 1]
      /\ \A i \in 1..Len(q) : q[i] \in Nat
  BY DEF Positions
<1> HIDE DEF t
<1>2. \A i \in DOMAIN t : i \in Int /\ i + 1 \in DOMAIN q /\ t[i] = q[i + 1]
  BY <1>1
<1>3. Increasing(t)
  BY <1>2 DEF Increasing
<1>4. \A i \in DOMAIN t : Head(q) < t[i]
  BY <1>1, <1>2 DEF Increasing
<1>5. \A n \in ToSet(t) : Head(q) < n /\ n # Head(q)
  BY <1>1, <1>2, <1>4 DEF ToSet
<1>6. ToSet(q) = {Head(q)} \cup ToSet(t)
  BY ToSetHeadTail DEF t
<1>7. ToSet(t) = ToSet(q) \ {Head(q)}
  BY <1>5, <1>6
<1> QED BY <1>3, <1>5, <1>7 DEF t

\* The notifications that wait for the handler are the last ones there were.
MessagesInv ==
  /\ Increasing(messages)
  /\ \A n \in ToSet(messages) : n \in DOMAIN log
  /\ messages # << >> => \A n \in DOMAIN log : n > Head(messages) => n \in ToSet(messages)
  /\ handler = "finished" => messages = << >>

LEMMA MessagesInvKept ==
  ASSUME Types, AddInv, MessagesInv, [Next]_vars PROVE MessagesInv'
<1>1. messages \in Seq(Positions) /\ log \in Seq(Ids)
  BY DEF Types, ClientTypes, SelectTypes
<1>2. ASSUME UNCHANGED log, messages' = << >> PROVE MessagesInv'
  BY <1>2, ToSetSmall DEF MessagesInv, Increasing
<1>3. ASSUME NEW s \in Subs, SpawnHandler(s) PROVE MessagesInv'
  BY <1>2, <1>3 DEF SpawnHandler, MessagesInv
<1>4. CASE TakeMessage
  <2>1. UNCHANGED <<log, handler>> /\ handler = "running"
    BY <1>4 DEF TakeMessage
  <2>2. CASE messages' = messages
    BY <2>1, <2>2 DEF MessagesInv
  <2>3. CASE messages' # messages
    <3>1. messages # << >> /\ messages' = Tail(messages)
      BY <1>4, <2>3, TakeEffect
    <3>2. /\ Increasing(messages') /\ \A n \in ToSet(messages') : Head(messages) < n
          /\ ToSet(messages') = ToSet(messages) \ {Head(messages)}
      BY <1>1, <3>1, IncreasingTail DEF MessagesInv
    <3>3. ASSUME messages' # << >>, NEW n \in DOMAIN log, n > Head(messages')
          PROVE  n \in ToSet(messages')
      <4>1. Tail(messages) \in Seq(Positions) /\ Head(messages) \in Positions
        BY <1>1, <3>1
      <4>2. Head(messages') \in ToSet(messages') /\ Head(messages') \in Positions
        <5> DEFINE q == messages'
        <5>1. q \in Seq(Positions) /\ q # << >>
          BY <3>1, <3>3, <4>1
        <5> HIDE DEF q
        <5>2. Head(q) \in ToSet(q) /\ Head(q) \in Positions
          BY <5>1, ToSetHeadTail
        <5> QED BY <5>2 DEF q
      <4>3. Head(messages) < Head(messages')
        BY <3>2, <4>2
      <4>4. n \in Nat
        BY <1>1
      <4>5. n > Head(messages)
        BY <3>3, <4>1, <4>2, <4>3, <4>4 DEF Positions
      <4> QED BY <3>1, <3>2, <4>1, <4>4, <4>5 DEF MessagesInv, Positions
    <3> QED BY <2>1, <3>2, <3>3 DEF MessagesInv
  <2> QED BY <2>2, <2>3
<1>5. CASE Finish
  BY <1>2, <1>5 DEF Finish
<1>6. ASSUME NEW i \in Ids, PeerNotifies(i) PROVE MessagesInv'
  <2> DEFINE n == Len(log')
  <2>1. /\ log' = Append(log, i) /\ handler' = handler
        /\ \/ messages' = Append(messages, n) /\ handler # "finished"
           \/ messages' = messages /\ (~handler_set \/ handler = "finished")
        /\ up
    BY <1>6 DEF PeerNotifies
  <2>2. n \in Positions /\ DOMAIN log' = DOMAIN log \cup {n} /\ \A k \in DOMAIN log : k < n
    BY <1>1, <2>1 DEF Positions
  <2> HIDE DEF n
  <2>3. CASE messages' = messages
    <3>1. messages = << >> \/ (messages' = Append(messages, n) /\ handler # "finished")
      BY <2>1, <2>3 DEF AddInv, MessagesInv
    <3>2. Append(messages, n) # messages
      BY <1>1, <2>2
    <3> QED BY <2>1, <2>3, <3>1, <3>2, ToSetSmall DEF MessagesInv
  <2>4. CASE messages' # messages
    <3>1. messages' = Append(messages, n) /\ handler # "finished"
      BY <2>1, <2>4
    <3>2. ToSet(messages') = ToSet(messages) \cup {n}
      BY <1>1, <2>2, <3>1, ToSetAppend
    <3>3. \A k \in ToSet(messages) : k < n
      BY <2>2 DEF MessagesInv
    <3>4. Increasing(messages')
      BY <1>1, <2>2, <3>1, <3>3, IncreasingAppend DEF MessagesInv
    <3>5. ASSUME NEW k \in DOMAIN log', k > Head(messages') PROVE k \in ToSet(messages')
      <4>1. CASE messages = << >>
        <5>1. Head(messages') = n
          BY <2>2, <3>1, <4>1
        <5>2. k = n \/ k < n
          BY <2>2
        <5> QED BY <3>2, <3>5, <5>1, <5>2, <2>2, <1>1 DEF Positions
      <4>2. CASE messages # << >>
        <5>1. Head(messages') = Head(messages)
          BY <1>1, <2>2, <3>1, <4>2
        <5> QED BY <2>2, <3>2, <3>5, <4>2, <5>1 DEF MessagesInv
      <4> QED BY <4>1, <4>2
    <3> QED BY <2>1, <2>2, <3>1, <3>2, <3>4, <3>5 DEF MessagesInv
  <2> QED BY <2>3, <2>4
<1>7. CASE UNCHANGED <<log, messages, handler>>
  BY <1>7 DEF MessagesInv
<1> QED BY <1>3, <1>4, <1>5, <1>6, <1>7
        DEF Next, HandlerStep, FutureStep, Subscribe, AddSettled, CallSubMethod, SubscribeResolves,
            PeerAnswers, Abandon, Read, DropSubscription, DropSubscriber, DropUserHandle, FirstPoll,
            LaterPoll, NothingToDo, select!NotReady, ClientStops

\* What a subscription got is in order, of its id, and before all that
\* waits.  Whatever is of its id and after something it got is in there or
\* still waits; before something else it got, it is in there.
GotInv(s) ==
  /\ Increasing(Got(s))
  /\ \A n \in ToSet(Got(s)) :
       n \in DOMAIN log /\ log[n] = id[s] /\ \A m \in ToSet(messages) : n < m
  /\ \A a \in ToSet(Got(s)), n \in DOMAIN log : a < n /\ log[n] = id[s] =>
       /\ s \in subscribers => n \in ToSet(Got(s)) \cup ToSet(messages)
       /\ \A b \in ToSet(Got(s)) : n < b => n \in ToSet(Got(s))

LEMMA GotTypes ==
  ASSUME Types, NEW s \in Subs
  PROVE  /\ received[s] \in Seq(Positions) /\ rx[s] \in Seq(Positions) /\ InSend(s) \in Seq(Positions)
         /\ Got(s) \in Seq(Positions)
         /\ current_future.kind # "send" \/ current_future.to # s => InSend(s) = << >>
         /\ InSend(s) = << >> => Got(s) = received[s] \o rx[s]
<1>1. received[s] \in Seq(Positions) /\ rx[s] \in Seq(Positions)
  BY DEF Types, SubTypes
<1>2. InSend(s) \in Seq(Positions)
  <2>1. CASE current_future.kind = "send" /\ current_future.to = s
    <3>1. current_future.msg \in Positions
      BY <2>1, FutureTypes DEF Types, HandlerTypes
    <3> QED BY <2>1, <3>1 DEF InSend
  <2>2. CASE ~(current_future.kind = "send" /\ current_future.to = s)
    <3>1. InSend(s) = << >>
      BY <2>2 DEF InSend
    <3> QED BY <3>1
  <2> QED BY <2>1, <2>2
<1>3. Got(s) \in Seq(Positions)
  BY <1>1, <1>2 DEF Got
<1>4. InSend(s) = << >> => Got(s) = received[s] \o rx[s]
  <2>1. \A q \in Seq(Positions) : q \o << >> = q
    OBVIOUS
  <2>2. received[s] \o rx[s] \in Seq(Positions)
    BY <1>1
  <2> QED BY <2>1, <2>2 DEF Got
<1> QED BY <1>1, <1>2, <1>3, <1>4 DEF InSend

LEMMA GotSame ==
  ASSUME NEW s \in Subs, GotInv(s), Got(s)' = Got(s), log' = log, id'[s] = id[s],
         ToSet(messages') \subseteq ToSet(messages),
         s \in subscribers' => s \in subscribers /\ messages' = messages
  PROVE  GotInv(s)'
  BY DEF GotInv

\* Reading moves a notification from one place to another, and so does the
\* poll that puts it into the subscription.
LEMMA GotRead == ASSUME Types, NEW s \in Subs, Read(s), NEW t \in Subs PROVE Got(t)' = Got(t)
<1>1. /\ rx[s] # << >> /\ received' = [received EXCEPT ![s] = Append(received[s], Head(rx[s]))]
      /\ rx' = [rx EXCEPT ![s] = Tail(rx[s])] /\ current_future' = current_future
  BY DEF Read
<1>2. InSend(t)' = InSend(t)
  BY <1>1 DEF InSend
<1>3. CASE t = s
  <2>1. received'[s] = Append(received[s], Head(rx[s])) /\ rx'[s] = Tail(rx[s])
    BY <1>1 DEF Types, SubTypes
  <2>2. received'[s] \o rx'[s] = received[s] \o rx[s]
    <3>1. received[s] \in Seq(Positions) /\ rx[s] \in Seq(Positions) /\ rx[s] # << >>
      BY <1>1, GotTypes
    <3>2. Append(received[s], Head(rx[s])) \o Tail(rx[s]) = received[s] \o rx[s]
      BY <3>1, MoveHead
    <3> QED BY <2>1, <3>2
  <2> QED BY <1>2, <1>3, <2>2 DEF Got
<1>4. CASE t # s
  <2>1. received'[t] = received[t] /\ rx'[t] = rx[t]
    BY <1>1, <1>4 DEF Types, SubTypes
  <2> QED BY <1>2, <2>1 DEF Got
<1> QED BY <1>3, <1>4

LEMMA GotFirstPoll ==
  ASSUME Types, FirstPoll, NEW t \in Subs, sub[t] = "live" PROVE Got(t)' = Got(t)
<1>1. received' = received /\ Types' 
  BY TypesKept DEF FirstPoll, Next, HandlerStep
<1>2. current_future'.kind # "send"
  BY FirstPollEffect, FutureKinds
<1>3. InSend(t)' = << >>
  BY <1>2 DEF InSend
<1>4. Got(t)' = received[t] \o rx'[t]
  <2>1. \A q \in Seq(Positions) : q \o << >> = q
    OBVIOUS
  <2>2. received[t] \o rx'[t] \in Seq(Positions)
    BY <1>1 DEF Types, SubTypes
  <2> QED BY <1>1, <1>3, <2>1, <2>2 DEF Got
<1>5. CASE current_future.kind = "send" /\ current_future.to = t
  <2>1. rx' = [rx EXCEPT ![t] = Append(rx[t], current_future.msg)]
    BY <1>5, FirstPollEffect, FutureKinds
  <2>2. rx'[t] = Append(rx[t], current_future.msg) /\ InSend(t) = <<current_future.msg>>
    BY <1>5, <2>1 DEF Types, SubTypes, InSend
  <2>3. current_future.msg \in Positions
    BY <1>5, FutureTypes DEF Types, HandlerTypes
  <2>4. \A q \in Seq(Positions), r \in Seq(Positions), e \in Positions : q \o Append(r, e) = (q \o r) \o <<e>>
    <3> TAKE q \in Seq(Positions), r \in Seq(Positions), e \in Positions
    <3>1. q \o r \in Seq(Positions)
      OBVIOUS
    <3>2. q \o Append(r, e) = Append(q \o r, e)
      BY AppendLast
    <3>3. Append(q \o r, e) = (q \o r) \o <<e>>
      BY <3>1, AppendIsConcat
    <3> QED BY <3>2, <3>3
  <2>5. received[t] \o Append(rx[t], current_future.msg) = (received[t] \o rx[t]) \o <<current_future.msg>>
    BY <2>3, <2>4, GotTypes
  <2>6. Got(t)' = (received[t] \o rx[t]) \o <<current_future.msg>>
    BY <1>4, <2>2, <2>5
  <2>7. Got(t) = (received[t] \o rx[t]) \o <<current_future.msg>>
    BY <2>2 DEF Got
  <2> QED BY <2>6, <2>7
<1>6. CASE ~(current_future.kind = "send" /\ current_future.to = t)
  <2>1. rx'[t] = rx[t]
    <3>1. \/ rx' = rx
          \/ current_future.kind = "send" /\ rx' = [rx EXCEPT ![current_future.to] = Append(@, current_future.msg)]
      BY FirstPollEffect
    <3> QED BY <1>6, <3>1 DEF Types, SubTypes
  <2>2. Got(t) = received[t] \o rx[t]
    BY <1>6, GotTypes
  <2> QED BY <1>4, <2>1, <2>2
<1> QED BY <1>5, <1>6

LEMMA OneSubscriber ==
  ASSUME HandlingInv
  PROVE  /\ \A s \in subscribers : handler # "finished" /\ heard[s] /\ \A t \in subscribers : t = s
         /\ (\A s \in Subs : ~heard[s]) \/ handler = "finished" => control = << >>
<1>1. CASE handler = "finished" \/ \A s \in Subs : ~heard[s]
  BY <1>1 DEF HandlingInv, PhaseInv, Unheard, Nobody
<1>2. ASSUME handler # "finished", NEW s \in Subs, heard[s]
      PROVE  subscribers = {} \/ subscribers = {s}
  BY <1>2 DEF HandlingInv, PhaseInv, Phase, NotYet, Serving, Leaving
<1> QED BY <1>1, <1>2

\* A subscription that the handler hears of only now has got nothing yet.
LEMMA GotNothingYet ==
  ASSUME HandlingInv, TakeMessage, NEW s \in Subs, s \in subscribers', s \notin subscribers
  PROVE  Got(s)' = << >>
<1>1. UNCHANGED <<rx, received, heard>> /\ handler = "running"
  BY DEF TakeMessage
<1>2. /\ control # << >> /\ Head(control) = NewSubscriber(s) /\ current_future' = current_future
      /\ current_future = Idle
  BY TakeEffect DEF HandlingInv
<1>3. PICK t \in Subs : heard[t]
  BY <1>2, OneSubscriber
<1>4. Phase(t)
  BY <1>1, <1>3 DEF HandlingInv, PhaseInv
<1>5. t = s /\ NotYet(t)
  <2>1. \A a, b : Head(<<a>>) = a /\ Head(<<a, b>>) = a
    OBVIOUS
  <2>2. \/ Head(control) = NewSubscriber(t) /\ NotYet(t)
        \/ Head(control) = RemoveSubscriber(t)
    BY <1>2, <1>4, <2>1 DEF Phase, Leaving
  <2> QED BY <1>2, <2>2, ItemTypes
<1>6. received'[s] = << >> /\ rx'[s] = << >> /\ InSend(s)' = << >>
  BY <1>1, <1>2, <1>5, FutureKinds DEF NotYet, InSend
<1> QED BY <1>6 DEF Got

LEMMA GotTakeMessage ==
  ASSUME HandlingInv, MessagesInv, TakeMessage, NEW s \in Subs, sub[s] = "live", GotInv(s)
  PROVE  GotInv(s)'
<1>1. UNCHANGED <<log, id, rx, received>> /\ current_future = Idle /\ Types
  BY TakeEffect DEF TakeMessage, HandlingInv
<1>2. InSend(s) = << >> /\ Got(s) = received[s] \o rx[s] /\ Got(s) \in Seq(Positions)
  BY <1>1, GotTypes, FutureKinds
<1>3. CASE control' = control
  <2> DEFINE n == Head(messages)
  <2>1. /\ messages # << >> /\ messages' = Tail(messages) /\ subscribers' = subscribers /\ n \in DOMAIN log
        /\ \/ current_future' = Idle /\ \A t \in subscribers : id[t] # log[n]
           \/ \E t \in subscribers : id[t] = log[n] /\ current_future' = Sending(t, n)
    BY <1>1, <1>3, TakeEffect DEF Types, SelectTypes
  <2>2. /\ n \in Positions /\ n \in ToSet(messages) /\ \A m \in ToSet(messages') : n < m
        /\ ToSet(messages') = ToSet(messages) \ {n}
    BY <1>1, <2>1, IncreasingTail, ToSetHeadTail DEF MessagesInv, Types, SelectTypes
  <2> HIDE DEF n
  <2>3. CASE current_future' = Sending(s, n) /\ s \in subscribers /\ id[s] = log[n]
    <3>1. InSend(s)' = <<n>>
      BY <2>3, FutureKinds DEF InSend
    <3>2. Got(s)' = Append(Got(s), n)
      <4>1. Got(s)' = Got(s) \o <<n>>
        BY <1>1, <1>2, <3>1 DEF Got
      <4> QED BY <1>2, <2>2, <4>1, AppendIsConcat
    <3>3. ToSet(Got(s)') = ToSet(Got(s)) \cup {n}
      <4>1. ToSet(Append(Got(s), n)) = ToSet(Got(s)) \cup {n}
        <5>1. \A q \in Seq(Positions), e \in Positions : ToSet(Append(q, e)) = ToSet(q) \cup {e}
          BY ToSetAppend
        <5> QED BY <1>2, <2>2, <5>1
      <4> QED BY <3>2, <4>1
    <3>4. \A a \in ToSet(Got(s)) : a < n
      BY <2>2 DEF GotInv
    <3>5. Increasing(Got(s)')
      BY <1>2, <2>2, <3>2, <3>4, IncreasingAppend DEF GotInv
    <3>6. \A k \in ToSet(Got(s)') :
            k \in DOMAIN log /\ log[k] = id[s] /\ \A m \in ToSet(messages') : k < m
      BY <2>1, <2>2, <2>3, <3>3 DEF GotInv
    <3>7. ASSUME NEW a \in ToSet(Got(s)'), NEW k \in DOMAIN log, a < k, log[k] = id[s]
          PROVE  /\ k \in ToSet(Got(s)') \cup ToSet(messages')
                 /\ \A b \in ToSet(Got(s)') : k < b => k \in ToSet(Got(s)')
      <4>1. a \in Nat /\ k \in Nat /\ n \in Nat
        BY <1>1, <2>1, <3>6 DEF Types, ClientTypes
      <4>2. k \in ToSet(Got(s)) \cup ToSet(messages)
        <5>1. CASE a \in ToSet(Got(s))
          BY <2>3, <3>7, <5>1 DEF GotInv
        <5>2. CASE a = n
          BY <2>1, <3>7, <5>2, <4>1 DEF MessagesInv, n
        <5> QED BY <3>3, <5>1, <5>2
      <4>3. k \in ToSet(Got(s)') \cup ToSet(messages')
        BY <2>2, <3>3, <4>2
      <4>4. ASSUME NEW b \in ToSet(Got(s)'), k < b PROVE k \notin ToSet(messages')
        <5>1. b = n \/ b < n
          BY <3>3, <3>4
        <5>2. b \in Nat
          BY <1>1, <3>6 DEF Types, ClientTypes
        <5> QED BY <2>2, <4>1, <4>4, <5>1, <5>2
      <4> QED BY <4>3, <4>4
    <3> QED BY <1>1, <3>5, <3>6, <3>7 DEF GotInv
  <2>4. CASE ~(current_future' = Sending(s, n) /\ s \in subscribers /\ id[s] = log[n])
    <3>1. InSend(s)' = << >>
      BY <2>1, <2>4, FutureKinds DEF InSend
    <3>2. Got(s)' = Got(s)
      BY <1>1, <1>2, <3>1 DEF Got
    <3>3. s \in subscribers => id[s] # log[n]
      BY <2>1, <2>4, OneSubscriber
    <3> QED BY <1>1, <2>1, <2>2, <3>2, <3>3 DEF GotInv
  <2> QED BY <2>3, <2>4
<1>4. CASE control' # control
  <2>1. messages' = messages /\ current_future' \in {Idle, Unsubscribing}
    BY <1>1, <1>4, TakeEffect
  <2>2. Got(s)' = Got(s)
    <3>1. InSend(s)' = << >>
      BY <2>1, FutureKinds DEF InSend
    <3> QED BY <1>1, <1>2, <3>1 DEF Got
  <2>3. CASE s \in subscribers' /\ s \notin subscribers
    <3>1. Got(s)' = << >>
      BY <2>3, GotNothingYet
    <3> QED BY <3>1, ToSetSmall DEF GotInv, Increasing
  <2>4. CASE s \in subscribers' => s \in subscribers
    BY <1>1, <2>1, <2>2, <2>4, GotSame
  <2> QED BY <2>3, <2>4
<1> QED BY <1>3, <1>4

LEMMA GotNotified ==
  ASSUME HandlingInv, MessagesInv, NEW i \in Ids, PeerNotifies(i),
         NEW s \in Subs, sub[s] = "live", GotInv(s)
  PROVE  GotInv(s)'
<1> DEFINE n == Len(log')
<1>1. /\ log' = Append(log, i) /\ UNCHANGED <<id, rx, received, subscribers, current_future>>
      /\ \/ messages' = Append(messages, n)
         \/ messages' = messages /\ (~handler_set \/ handler = "finished")
      /\ up
  BY DEF PeerNotifies
<1>2. log \in Seq(Ids) /\ messages \in Seq(Positions)
  BY DEF HandlingInv, Types, ClientTypes, SelectTypes
<1>3. /\ n \in Positions /\ DOMAIN log' = DOMAIN log \cup {n}
      /\ \A k \in DOMAIN log : k < n /\ log'[k] = log[k] /\ k \in Nat
  BY <1>1, <1>2 DEF Positions
<1> HIDE DEF n
<1>4. Got(s)' = Got(s)
  BY <1>1 DEF Got, InSend
<1>5. \/ ToSet(messages') = ToSet(messages) \cup {n}
      \/ ToSet(messages') = ToSet(messages) /\ (~handler_set \/ handler = "finished")
  <2>1. ToSet(Append(messages, n)) = ToSet(messages) \cup {n}
    BY <1>2, <1>3, ToSetAppend
  <2> QED BY <1>1, <2>1
<1>6. s \in subscribers => n \in ToSet(messages')
  <2>1. s \in subscribers => handler_set /\ handler # "finished"
    BY <1>1, OneSubscriber DEF HandlingInv, AddInv, Beyond, BeyondAdd
  <2> QED BY <1>5, <2>1
<1>7. \A k \in ToSet(Got(s)) :
        k \in DOMAIN log' /\ log'[k] = id'[s] /\ \A m \in ToSet(messages') : k < m
  BY <1>1, <1>3, <1>5 DEF GotInv
<1>8. ASSUME NEW a \in ToSet(Got(s)), NEW k \in DOMAIN log', a < k, log'[k] = id'[s]
      PROVE  /\ s \in subscribers => k \in ToSet(Got(s)) \cup ToSet(messages')
             /\ \A b \in ToSet(Got(s)) : k < b => k \in ToSet(Got(s))
  <2>1. CASE k = n
    <3>1. \A b \in ToSet(Got(s)) : b < n /\ b \in Nat
      BY <1>3 DEF GotInv
    <3> QED BY <1>3, <1>6, <2>1, <3>1 DEF Positions
  <2>2. CASE k \in DOMAIN log
    BY <1>1, <1>3, <1>5, <1>8, <2>2 DEF GotInv
  <2> QED BY <1>3, <2>1, <2>2
<1> QED BY <1>1, <1>4, <1>7, <1>8 DEF GotInv

\* What every live subscription got, and no subscription is given two ids.
StreamInv ==
  /\ MessagesInv
  /\ \A s \in Subs : sub[s] = "live" => GotInv(s)
  /\ \A s \in Subs : sub[s] \in {"none", "adding", "added", "calling", "sent"} => id[s] = NoId

LEMMA IdKept ==
  ASSUME Types, StreamInv, [Next]_vars, NEW s \in Subs
  PROVE  /\ sub'[s] \in {"none", "adding", "added", "calling", "sent"} => id'[s] = NoId
         /\ sub'[s] = "live" => id'[s] = id[s]
<1>1. ASSUME NEW t \in Subs, PeerAnswers(t)
      PROVE  /\ sub'[s] \in {"none", "adding", "added", "calling", "sent"} => id'[s] = NoId
             /\ sub'[s] = "live" => id'[s] = id[s]
  <2>1. /\ sub'[t] \in {"answered", "refused"}
        /\ \A u \in Subs \ {t} : sub'[u] = sub[u] /\ id'[u] = id[u]
    BY <1>1 DEF PeerAnswers, Become, Types, SubTypes
  <2> QED BY <2>1 DEF StreamInv
<1>2. ASSUME NEW t \in Subs, Subscribe(t) \/ AddSettled(t) \/ FutureStep(t) \/ Abandon(t) \/ DropSubscription(t)
      PROVE  /\ id' = id
             /\ sub'[s] \in {"none", "adding", "added", "calling", "sent"} =>
                  sub[s] \in {"none", "adding", "added", "calling", "sent"}
  BY <1>2 DEF Subscribe, AddSettled, FutureStep, SpawnHandler, CallSubMethod, SubscribeResolves, Abandon,
              DropSubscription, Become, Types, SubTypes
<1>3. CASE UNCHANGED <<sub, id>>
  BY <1>3 DEF StreamInv
<1> QED BY <1>1, <1>2, <1>3
        DEF StreamInv, Next, HandlerStep, Read, DropSubscriber, DropUserHandle, FirstPoll, LaterPoll,
            TakeMessage, Finish, NothingToDo, PeerNotifies, ClientStops

\* A subscription starts with nothing, even if it takes the place of one
\* whose handler has gone.
LEMMA GotStarts ==
  ASSUME HandlingInv, NEW s \in Subs, NEW t \in Subs, SubscribeResolves(t), sub[s] # "live", sub'[s] = "live"
  PROVE  Got(s)' = << >>
<1>1. s = t /\ sub[s] = "answered" /\ UNCHANGED <<rx, received, current_future>>
  BY DEF SubscribeResolves, Become, HandlingInv, Types, SubTypes
<1>2. rx[s] = << >> /\ received[s] = << >>
  BY <1>1 DEF HandlingInv, HeardInv
<1>3. current_future.kind # "send" \/ current_future.to # s
  <2>1. CASE handler = "finished" \/ \A u \in Subs : ~heard[u]
    BY <2>1, FutureKinds DEF HandlingInv, PhaseInv, Unheard, Nobody
  <2>2. ASSUME handler # "finished", NEW u \in Subs, heard[u] PROVE FALSE
    BY <1>1, <2>2 DEF HandlingInv, HeardInv, AddInv, Beyond, BeyondAdd
  <2> QED BY <2>1, <2>2
<1>4. InSend(s)' = << >>
  BY <1>1, <1>3 DEF InSend
<1> QED BY <1>1, <1>2, <1>4 DEF Got

LEMMA StreamInvKept ==
  ASSUME HandlingInv, HandlingInv', StreamInv, [Next]_vars PROVE StreamInv'
<1>1. Types /\ MessagesInv'
  BY MessagesInvKept DEF HandlingInv, StreamInv
<1>2. ASSUME NEW s \in Subs, sub'[s] = "live" PROVE GotInv(s)'
  <2>1. id'[s] = id[s]
    BY <1>1, <1>2, IdKept
  <2>2. CASE sub[s] = "live"
    <3>1. GotInv(s)
      BY <2>2 DEF StreamInv
    <3>2. CASE TakeMessage
      BY <2>2, <3>1, <3>2, GotTakeMessage DEF StreamInv
    <3>3. ASSUME NEW i \in Ids, PeerNotifies(i) PROVE GotInv(s)'
      BY <2>2, <3>1, <3>3, GotNotified DEF StreamInv
    <3>4. CASE FirstPoll
      <4>1. Got(s)' = Got(s) /\ UNCHANGED <<log, messages, subscribers>>
        BY <1>1, <2>2, <3>4, GotFirstPoll DEF FirstPoll
      <4> QED BY <2>1, <3>1, <4>1, GotSame
    <3>5. ASSUME NEW t \in Subs, Read(t) PROVE GotInv(s)'
      <4>1. Got(s)' = Got(s) /\ UNCHANGED <<log, messages, subscribers>>
        BY <1>1, <3>5, GotRead DEF Read
      <4> QED BY <2>1, <3>1, <4>1, GotSame
    <3>6. CASE LaterPoll
      <4>1. /\ UNCHANGED <<log, messages, subscribers, rx, received>> /\ current_future' = Idle
            /\ current_future.kind # "send"
        BY <3>6, FutureKinds DEF LaterPoll
      <4>2. Got(s)' = Got(s)
        BY <4>1, FutureKinds DEF Got, InSend
      <4> QED BY <2>1, <3>1, <4>1, <4>2, GotSame
    <3>7. CASE Finish
      <4>1. /\ UNCHANGED <<log, rx, received>> /\ messages' = << >> /\ subscribers' = {}
            /\ current_future' = Idle /\ current_future.kind # "send"
        BY <3>7, FutureKinds DEF Finish, NotBusy, FuturePolled
      <4>2. Got(s)' = Got(s)
        BY <4>1, FutureKinds DEF Got, InSend
      <4> QED BY <2>1, <3>1, <4>1, <4>2, GotSame, ToSetSmall
    <3>8. ASSUME NEW t \in Subs, SpawnHandler(t) PROVE GotInv(s)'
      <4>1. /\ UNCHANGED <<log, rx, received, subscribers, current_future>>
            /\ messages' = messages \/ messages' = << >>
        BY <3>8 DEF SpawnHandler
      <4>2. Got(s)' = Got(s) /\ ToSet(messages') \subseteq ToSet(messages)
        BY <4>1, ToSetSmall DEF Got, InSend
      <4>3. s \notin subscribers
        BY <2>2, <3>8 DEF SpawnHandler, HandlingInv, AddInv, Beyond, BeyondAdd
      <4> QED BY <2>1, <3>1, <4>1, <4>2, <4>3, GotSame
    <3>9. ASSUME UNCHANGED <<log, rx, received, subscribers, current_future, messages>> PROVE GotInv(s)'
      <4>1. Got(s)' = Got(s)
        BY <3>9 DEF Got, InSend
      <4> QED BY <2>1, <3>1, <3>9, <4>1, GotSame
    <3>10. ASSUME NEW t \in Subs, DropSubscription(t) PROVE GotInv(s)'
      <4>1. t # s /\ UNCHANGED <<log, received, subscribers, current_future, messages>> /\ rx'[s] = rx[s]
        BY <1>2, <3>10 DEF DropSubscription, Become, HandlingInv, Types, SubTypes
      <4>2. Got(s)' = Got(s)
        BY <4>1 DEF Got, InSend
      <4> QED BY <2>1, <3>1, <4>1, <4>2, GotSame
    <3> QED BY <3>2, <3>3, <3>4, <3>5, <3>6, <3>7, <3>8, <3>9, <3>10
            DEF Next, HandlerStep, FutureStep, Subscribe, AddSettled, CallSubMethod, SubscribeResolves,
                PeerAnswers, Abandon, DropSubscriber, DropUserHandle, NothingToDo, select!NotReady,
                ClientStops
  <2>3. CASE sub[s] # "live"
    <3>1. PICK t \in Subs : SubscribeResolves(t)
      BY <1>1, <1>2, <2>3
         DEF Next, HandlerStep, FutureStep, Subscribe, AddSettled, SpawnHandler, CallSubMethod, PeerAnswers,
             Abandon, Read, DropSubscription, DropSubscriber, DropUserHandle, FirstPoll, LaterPoll,
             TakeMessage, Finish, NothingToDo, PeerNotifies, ClientStops, Become, Types, SubTypes
    <3>2. Got(s)' = << >>
      BY <1>2, <2>3, <3>1, GotStarts
    <3> QED BY <3>2, ToSetSmall DEF GotInv, Increasing
  <2> QED BY <2>2, <2>3
<1> QED BY <1>1, <1>2, IdKept DEF StreamInv

LEMMA StreamInvHolds == Spec => [](HandlingInv /\ StreamInv)
<1>1. Init => StreamInv
  <2>1. Init => /\ messages = << >> /\ handler = "none" /\ \A s \in Subs : id[s] = NoId /\ sub[s] = "none"
    BY DEF Init, select!SelectInit
  <2> QED BY <2>1, ToSetSmall DEF StreamInv, MessagesInv, Increasing
<1>2. HandlingInv /\ HandlingInv' /\ StreamInv /\ [Next]_vars => StreamInv'
  BY StreamInvKept
<1> QED BY <1>1, <1>2, HandlingInvHolds, PTL DEF Spec

(* A subscription gets the notifications of its id, in their order, and    *)
(* from its first one on all of them, for any number of subscriptions and  *)
(* any buffer (handle_new_message, ready_for_next_connection).             *)
THEOREM InOrderWithoutGapsHolds == Spec => []InOrderWithoutGaps
<1>1. HandlingInv /\ StreamInv => InOrderWithoutGaps
  <2> SUFFICES ASSUME HandlingInv, StreamInv, NEW s \in Subs, sub[s] = "live"
               PROVE  /\ \A i \in DOMAIN Got(s) : log[Got(s)[i]] = id[s]
                      /\ \A i, j \in DOMAIN Got(s) : i < j => Got(s)[i] < Got(s)[j]
                      /\ Got(s) # << >> /\ s \in subscribers =>
                           \A n \in DOMAIN log :
                              n > Got(s)[1] /\ log[n] = id[s] => n \in Elements(Got(s)) \cup Elements(messages)
    BY DEF InOrderWithoutGaps
  <2>1. GotInv(s) /\ Got(s) \in Seq(Positions) /\ log \in Seq(Ids)
    BY GotTypes DEF HandlingInv, StreamInv, Types, ClientTypes
  <2>2. \A q : Elements(q) = ToSet(q)
    BY DEF Elements, ToSet
  <2>3. \A i \in DOMAIN Got(s) : Got(s)[i] \in ToSet(Got(s))
    BY DEF ToSet
  <2>4. Got(s) # << >> => 1 \in DOMAIN Got(s)
    BY <2>1
  <2>5. \A n \in DOMAIN log, a \in Positions : n > a => a < n
    BY <2>1 DEF Positions
  <2>6. \A i \in DOMAIN Got(s) : Got(s)[i] \in Positions
    BY <2>1
  <2> QED BY <2>1, <2>2, <2>3, <2>4, <2>5, <2>6 DEF GotInv, Increasing
<1> QED BY <1>1, StreamInvHolds, PTL

-----------------------------------------------------------------------------
(* A subscription is a MessageStream                                       *)

\* What is read is due: the next one of the subscription's id.
LEMMA ReadIsDue ==
  ASSUME Types, NEW s \in Subs, Read(s), GotInv(s)
  PROVE  Head(rx[s]) \in DOMAIN log /\ Stream!Due(s, Head(rx[s]))
<1> DEFINE n == Head(rx[s])
           g == Got(s)
           k == Len(received[s])
           last == received[s][k]
<1>1. /\ g \in Seq(Positions) /\ k \in Nat /\ k + 1 \in DOMAIN g /\ g[k + 1] = n
      /\ received[s] # << >> => k \in DOMAIN g /\ g[k] = last
  <2>1. rx[s] # << >>
    BY DEF Read
  <2>2. received[s] # << >> => k \in DOMAIN received[s]
    BY GotTypes
  <2>3. received[s] \in Seq(Positions) /\ rx[s] \in Seq(Positions) /\ InSend(s) \in Seq(Positions)
      /\ g \in Seq(Positions)
    BY GotTypes
  <2>4. g = received[s] \o rx[s] \o InSend(s)
    BY DEF Got
  <2>5. PICK q, r, t \in Seq(Positions) : q = received[s] /\ r = rx[s] /\ t = InSend(s)
    BY <2>3
  <2>6. /\ Len(q) \in Nat /\ Len(q) + 1 \in DOMAIN (q \o r \o t) /\ (q \o r \o t)[Len(q) + 1] = Head(r)
        /\ \A i \in DOMAIN q : i \in DOMAIN (q \o r \o t) /\ (q \o r \o t)[i] = q[i]
    <3>1. r # << >>
      BY <2>1, <2>5
    <3> QED BY <3>1, ConcatIndex
  <2>7. g = q \o r \o t /\ k = Len(q) /\ n = Head(r) /\ last = q[k]
    BY <2>4, <2>5
  <2>8. received[s] # << >> => k \in DOMAIN q
    BY <2>2, <2>5
  <2> HIDE DEF g, k, n, last
  <2> QED BY <2>3, <2>6, <2>7, <2>8
<1>2. /\ \A i \in DOMAIN g : g[i] \in ToSet(g) /\ g[i] \in Nat /\ i \in Nat
      /\ \A m \in ToSet(g) : \E i \in DOMAIN g : g[i] = m
  <2>1. \A i \in DOMAIN g : g[i] \in Nat /\ i \in Nat
    BY <1>1 DEF Positions
  <2> QED BY <2>1 DEF ToSet
<1>3. n \in DOMAIN log /\ log[n] = id[s]
  BY <1>1, <1>2 DEF GotInv
<1>4. ASSUME received[s] # << >>
      PROVE  last < n /\ \A m \in DOMAIN log : last < m /\ m < n => log[m] # id[s]
  <2>1. k < k + 1 /\ last \in ToSet(g) /\ n \in ToSet(g) /\ last \in Nat /\ n \in Nat
    BY <1>1, <1>2, <1>4
  <2>2. Increasing(g)
    BY DEF GotInv
  <2>3. last < n
    BY <1>1, <1>4, <2>1, <2>2 DEF Increasing
  <2>4. ASSUME NEW m \in DOMAIN log, last < m, m < n, log[m] = id[s] PROVE FALSE
    <3>1. m \in ToSet(g)
      BY <2>1, <2>4 DEF GotInv
    <3>2. PICK i \in DOMAIN g : g[i] = m
      BY <1>2, <3>1
    <3> HIDE DEF g, k, n, last
    <3>3. i < k \/ i = k \/ i = k + 1 \/ i > k + 1
      BY <1>1, <1>2
    <3>4. CASE i < k
      <4>1. g[i] < g[k]
        BY <1>1, <1>4, <2>2, <3>4 DEF Increasing
      <4> QED BY <1>1, <1>2, <1>4, <2>1, <2>4, <3>2, <4>1
    <3>5. CASE i > k + 1
      <4>1. g[k + 1] < g[i]
        BY <1>1, <1>2, <2>2, <3>5 DEF Increasing
      <4> QED BY <1>1, <1>2, <2>1, <2>4, <3>2, <4>1
    <3>6. CASE i = k \/ i = k + 1
      BY <1>1, <1>4, <2>1, <2>4, <3>2, <3>6
    <3> QED BY <3>3, <3>4, <3>5, <3>6
  <2> QED BY <2>3, <2>4
<1> QED BY <1>3, <1>4 DEF Stream!Due

(* To its owner a subscription is a stream of the notifications that carry *)
(* its id: they are read in order, and none of them is left out from the   *)
(* first on, whatever the handler, the buffer and the client do            *)
(* (NotificationHandler::poll, Subscription::poll).                        *)
THEOREM SubscriptionIsStream == Spec => Stream!Spec
<1>1. Init => Stream!Init
  BY DEF Init, select!SelectInit, Stream!Init
<1>2. HandlingInv /\ HandlingInv' /\ StreamInv /\ [Next]_vars => [Stream!Next]_(Stream!vars)
  <2> SUFFICES ASSUME HandlingInv, HandlingInv', StreamInv, [Next]_vars
               PROVE  Stream!Next \/ UNCHANGED Stream!vars
    OBVIOUS
  <2>1. ASSUME UNCHANGED <<log, id, received>> PROVE Stream!Next
    <3>1. {s \in subscribers' : sub'[s] = "live"} \in SUBSET Subs
      BY DEF HandlingInv, Types, HandlerTypes
    <3> QED BY <2>1, <3>1 DEF Stream!Next, Stream!AttachAndDetach
  <2>2. ASSUME NEW i \in Ids, PeerNotifies(i) PROVE Stream!Next
    <3>1. log' = Append(log, i) /\ UNCHANGED <<id, received, subscribers, sub>>
      BY <2>2 DEF PeerNotifies
    <3> QED BY <3>1 DEF Stream!Next, Stream!Notify
  <2>3. ASSUME NEW s \in Subs, PeerAnswers(s) PROVE Stream!Next
    <3>1. CASE UNCHANGED id
      BY <2>1, <2>3, <3>1 DEF PeerAnswers
    <3>2. CASE ~UNCHANGED id
      <4>1. PICK i \in Ids : id' = [id EXCEPT ![s] = i]
        BY <2>3, <3>2 DEF PeerAnswers
      <4>2. /\ UNCHANGED <<log, received, subscribers>> /\ id[s] = NoId
            /\ \A t \in Subs : sub'[t] = "live" <=> sub[t] = "live"
        BY <2>3 DEF PeerAnswers, Become, StreamInv, HandlingInv, Types, SubTypes
      <4>3. {t \in subscribers' : sub'[t] = "live"} = {t \in subscribers : sub[t] = "live"}
        BY <4>2 DEF HandlingInv, Types, HandlerTypes
      <4> QED BY <4>1, <4>2, <4>3 DEF Stream!Next, Stream!Identify
    <3> QED BY <3>1, <3>2
  <2>4. ASSUME NEW s \in Subs, Read(s) PROVE Stream!Next
    <3>1. /\ UNCHANGED <<log, id, subscribers, sub>> /\ sub[s] = "live"
          /\ received' = [received EXCEPT ![s] = Append(@, Head(rx[s]))]
      BY <2>4 DEF Read
    <3>2. Head(rx[s]) \in DOMAIN log /\ Stream!Due(s, Head(rx[s]))
      BY <2>4, <3>1, ReadIsDue DEF HandlingInv, StreamInv
    <3> QED BY <3>1, <3>2 DEF Stream!Next, Stream!Read
  <2>5. CASE UNCHANGED vars
    BY <2>5 DEF Stream!vars
  <2> QED BY <2>1, <2>2, <2>3, <2>4, <2>5
          DEF Next, HandlerStep, FutureStep, Subscribe, AddSettled, SpawnHandler, CallSubMethod,
              SubscribeResolves, Abandon, DropSubscription, DropSubscriber, DropUserHandle, FirstPoll,
              LaterPoll, TakeMessage, Finish, NothingToDo, ClientStops
<1> QED BY <1>1, <1>2, StreamInvHolds, PTL DEF Spec, Stream!Spec
=============================================================================
