------------------------------- MODULE PubSub -------------------------------
(***************************************************************************)
(* Subscriptions (pubsub/src/lib.rs): one Subscriber, the subscriptions it *)
(* creates for one notification method, and the NotificationHandler that   *)
(* hands the notifications of that method out to them.                     *)
(*                                                                         *)
(* The Client and its Server are seen through their handles (the modules   *)
(* Client and Server have the rest): a call is sent, answered or fails     *)
(* when the client is gone; an add is settled by the server.  Nobody else  *)
(* sets or unsets a handler of this method.  That makes the notification   *)
(* handler the first add allows for the only one: its name stays taken     *)
(* while the server lives, and no add succeeds without it.                 *)
(*                                                                         *)
(* An iteration of NotificationHandler::poll is a step.  The wakeups are   *)
(* left out: a poll ends with current_future or both channels NotReady, so *)
(* the task is always registered with whatever can enable its next step.   *)
(***************************************************************************)
EXTENDS Integers, Sequences, FiniteSets

CONSTANTS
  Subs,          \* calls of Subscriber::subscribe
  Ids,           \* subscription ids the peer may give
  NoId,
  MaxMessages,   \* bound: notifications of the peer
  BufferSize,    \* buffer_size of every subscription
  Faults         \* "sub_error", "abandon", "spawn_fails", "client_stops"

ASSUME BufferSizeIsNatural == BufferSize \in Nat /\ MaxMessages \in Nat
ASSUME NoIdIsNone == NoId \notin Ids

VARIABLES
  \* the client, the server and the peer
  up,               \* the Client, with its Server, is alive
  stopped_by,       \* why it went
  user_handle,      \* the user holds a ClientHandle of its own
  handler_set,      \* the server has a handler for the method
  late_error,       \* a notification failed in the server, to be noticed at its next poll
  log,              \* the notifications of the peer, by the id they carry
  unsub_calls,      \* calls of unsub_method that the peer was sent
  \* the Subscriber and its subscriptions
  subscriber,       \* it is alive
  has_chan,         \* notification_handlers has an entry
  sub,              \* the state of each call of subscribe
  id,               \* the id it was given
  heard,            \* its NewSubscriber message was accepted
  rx,               \* the messages waiting in it, as positions in log
  received,         \* the messages its owner has read
  \* the NotificationHandler
  handler,          \* "none", "running", "finished"
  subscribers,      \* the subscriptions it holds a sender of, at most one per id
  current_future,
  should_shut_down,
  messages,         \* messages: notifications, the strong stream ...
  control,          \* ... and control messages, the weak one
  use_strong, weak_done

clientVars == <<up, stopped_by, user_handle, handler_set, late_error, log, unsub_calls>>
ownerVars == <<subscriber, has_chan>>
subDataVars == <<id, heard, rx, received>>
subVars == <<ownerVars, sub, subDataVars>>
handlerVars == <<handler, subscribers, current_future, should_shut_down>>
selectVars == <<messages, control, use_strong, weak_done>>
vars == <<clientVars, subVars, handlerVars, selectVars>>

\* Futures and subscriptions that own a clone of the control channel.
HasChan(s) == sub[s] \in {"calling", "sent", "answered", "refused", "live"}
ControlOpen == (subscriber /\ has_chan) \/ \E s \in Subs : HasChan(s)

select == INSTANCE SelectWeak WITH strong <- messages, strong_open <- handler_set,
                                   weak <- control, weak_open <- ControlOpen

\* What current_future may be: a send to a subscription or the call of
\* unsub_method, before its first poll or after it.
Idle == [kind |-> "none", to |-> NoId, msg |-> 0]
Sending(s, n) == [kind |-> "send", to |-> s, msg |-> n]
Parked(s) == [kind |-> "parked", to |-> s, msg |-> 0]
Unsubscribing == [kind |-> "unsub", to |-> NoId, msg |-> 0]
Unsubscribed == [kind |-> "unsub_sent", to |-> NoId, msg |-> 0]

Init ==
  /\ up = TRUE /\ stopped_by = "nothing" /\ user_handle = TRUE
  /\ handler_set = FALSE /\ late_error = FALSE
  /\ log = << >> /\ unsub_calls = 0
  /\ subscriber = TRUE /\ has_chan = FALSE
  /\ sub = [s \in Subs |-> "none"]
  /\ id = [s \in Subs |-> NoId]
  /\ heard = [s \in Subs |-> FALSE]
  /\ rx = [s \in Subs |-> << >>]
  /\ received = [s \in Subs |-> << >>]
  /\ handler = "none"
  /\ subscribers = {}
  /\ current_future = Idle
  /\ should_shut_down = FALSE
  /\ select!SelectInit

-----------------------------------------------------------------------------
(* Subscriber::subscribe, a synchronous part and the future it returns     *)

Become(s, state) == sub' = [sub EXCEPT ![s] = state]

\* The channel is taken over only from an entry whose handler is gone.
ReusesChan == has_chan /\ handler = "finished"

\* One at a time: subscribe borrows the Subscriber and blocks until the
\* handler is added.
Subscribe(s) ==
  /\ subscriber
  /\ sub[s] = "none"
  /\ \A t \in Subs : sub[t] \notin {"adding", "added"}
  /\ Become(s, IF ReusesChan THEN "calling" ELSE "adding")
  /\ UNCHANGED <<clientVars, ownerVars, subDataVars, handlerVars, selectVars>>

\* The server settles the add, or is gone (the add fails or panics then, see
\* Server).
AddSettled(s) ==
  /\ sub[s] = "adding"
  /\ \/ /\ up /\ ~handler_set
        /\ handler_set' = TRUE
        /\ Become(s, "added")
     \/ /\ up => handler_set
        /\ Become(s, IF up THEN "exists" ELSE "failed")
        /\ UNCHANGED handler_set
  /\ UNCHANGED <<up, stopped_by, user_handle, late_error, log, unsub_calls,
                 ownerVars, subDataVars, handlerVars, selectVars>>

\* The rest of spawn_notification_handler.  An executor that refuses the
\* handler drops it, which is only logged.
SpawnHandler(s) ==
  /\ sub[s] = "added"
  /\ has_chan' = TRUE
  /\ Become(s, "calling")
  /\ \/ handler' = "running" /\ UNCHANGED messages
     \/ "spawn_fails" \in Faults /\ handler' = "finished" /\ messages' = << >>
  /\ UNCHANGED <<clientVars, subscriber, id, heard, rx, received, subscribers,
                 current_future, should_shut_down, control, use_strong, weak_done>>

\* The first poll of the future sends the call.
CallSubMethod(s) ==
  /\ sub[s] = "calling"
  /\ Become(s, IF up THEN "sent" ELSE "failed")
  /\ UNCHANGED <<clientVars, ownerVars, subDataVars, handlerVars, selectVars>>

\* The peer gives the subscription an id, or an error.
PeerAnswers(s) ==
  /\ up
  /\ sub[s] = "sent"
  /\ \/ /\ Become(s, "answered")
        /\ \E i \in Ids : id' = [id EXCEPT ![s] = i]
     \/ /\ "sub_error" \in Faults
        /\ Become(s, "refused")
        /\ UNCHANGED id
  /\ UNCHANGED <<clientVars, ownerVars, heard, rx, received,
                 handlerVars, selectVars>>

\* The future resolves.  If the handler is gone, so is the sender that was
\* sent to it, and the subscription is made all the same.
NewSubscriber(s) == [kind |-> "new", s |-> s]
SubscribeResolves(s) ==
  /\ \/ /\ sub[s] = "answered"
        /\ Become(s, "live")
        /\ heard' = [heard EXCEPT ![s] = (handler = "running")]
        /\ control' = IF handler = "running" THEN Append(control, NewSubscriber(s)) ELSE control
     \/ /\ sub[s] = "refused" \/ (sub[s] = "sent" /\ ~up)
        /\ Become(s, "failed")
        /\ UNCHANGED <<heard, control>>
  /\ UNCHANGED <<clientVars, ownerVars, id, rx, received, handlerVars,
                 messages, use_strong, weak_done>>

Abandon(s) ==
  /\ "abandon" \in Faults
  /\ sub[s] \in {"calling", "sent", "answered"}
  /\ Become(s, "abandoned")
  /\ UNCHANGED <<clientVars, ownerVars, subDataVars, handlerVars, selectVars>>

-----------------------------------------------------------------------------
(* Subscription                                                            *)

Read(s) ==
  /\ sub[s] = "live"
  /\ rx[s] # << >>
  /\ received' = [received EXCEPT ![s] = Append(@, Head(rx[s]))]
  /\ rx' = [rx EXCEPT ![s] = Tail(@)]
  /\ UNCHANGED <<clientVars, ownerVars, sub, id, heard, handlerVars, selectVars>>

\* (mutant) nobody is told.
NobodyTold(s) == control
\* Subscription::drop
RemoveSubscriber(s) == [kind |-> "remove", s |-> s]
HandlerTold(s) ==
  IF handler = "running" THEN Append(control, RemoveSubscriber(s)) ELSE control
DropSubscription(s) ==
  /\ sub[s] = "live"
  /\ Become(s, "dropped")
  /\ control' = HandlerTold(s)
  /\ rx' = [rx EXCEPT ![s] = << >>]
  /\ UNCHANGED <<clientVars, ownerVars, id, heard, received, handlerVars,
                 messages, use_strong, weak_done>>

DropSubscriber ==
  /\ subscriber
  /\ \A s \in Subs : sub[s] \notin {"adding", "added"}
  /\ subscriber' = FALSE
  /\ UNCHANGED <<clientVars, has_chan, sub, id, heard, rx, received, handlerVars, selectVars>>

DropUserHandle ==
  /\ user_handle
  /\ user_handle' = FALSE
  /\ UNCHANGED <<up, stopped_by, handler_set, late_error, log, unsub_calls,
                 subVars, handlerVars, selectVars>>

-----------------------------------------------------------------------------
(* NotificationHandler                                                     *)

\* (mutant) the next message does not wait for the last one.
NeverBusy == TRUE
NotBusy == current_future = Idle

\* The first poll of current_future, in ready_for_next_connection.  A send
\* is accepted (its sender is a clone of its own) unless the receiver is
\* gone, and is over at once if the buffer had room.
FirstPoll ==
  /\ handler = "running"
  /\ \/ /\ current_future.kind = "send"
        /\ LET s == current_future.to
               sent == Append(rx[s], current_future.msg) IN
             IF sub[s] = "live"
             THEN /\ rx' = [rx EXCEPT ![s] = sent]
                  /\ current_future' = IF Len(sent) > BufferSize THEN Parked(s) ELSE Idle
             ELSE current_future' = Idle /\ UNCHANGED rx
        /\ UNCHANGED unsub_calls
     \/ /\ current_future = Unsubscribing
        /\ unsub_calls' = IF up THEN unsub_calls + 1 ELSE unsub_calls
        /\ current_future' = IF up THEN Unsubscribed ELSE Idle
        /\ UNCHANGED rx
  /\ UNCHANGED <<up, stopped_by, user_handle, handler_set, late_error, log, ownerVars,
                 sub, id, heard, received, handler, subscribers,
                 should_shut_down, selectVars>>

\* A later poll of it finds it done.
LaterPoll ==
  /\ handler = "running"
  /\ \/ /\ current_future.kind = "parked"
        /\ sub[current_future.to] = "live" => Len(rx[current_future.to]) <= BufferSize
     \/ current_future = Unsubscribed   \* answered, or given up
  /\ current_future' = Idle
  /\ UNCHANGED <<clientVars, subVars, handler, subscribers, should_shut_down, selectVars>>

handle_new_message(n) ==
  LET matching == {s \in subscribers : id[s] = log[n]} IN
    IF matching = {} THEN UNCHANGED current_future
    ELSE \E s \in matching : current_future' = Sending(s, n)

handle_new_subscription(s) ==
  subscribers' = {t \in subscribers : id[t] # id[s]} \cup {s}

\* (mutant) the handler stays for others to come.
StaysOn == FALSE
LastGone == subscribers' = {}
handle_removal(s) ==
  /\ subscribers' = {t \in subscribers : id[t] # id[s]}
  /\ should_shut_down' = LastGone
  /\ current_future' = Unsubscribing

TakeMessage ==
  /\ handler = "running"
  /\ NotBusy
  /\ \/ \E n \in DOMAIN log :
          /\ select!TakeStrong(n)
          /\ handle_new_message(n)
          /\ UNCHANGED <<subscribers, should_shut_down>>
     \/ \E s \in Subs :
          /\ select!TakeWeak(NewSubscriber(s))
          /\ handle_new_subscription(s)
          /\ UNCHANGED <<current_future, should_shut_down>>
     \/ \E s \in Subs :
          /\ select!TakeWeak(RemoveSubscriber(s))
          /\ handle_removal(s)
  /\ UNCHANGED <<clientVars, subVars, handler>>

\* Neither stream has anything: the handler sleeps.
NothingToDo ==
  /\ handler = "running"
  /\ NotBusy
  /\ select!NotReady
  /\ ~should_shut_down
  /\ UNCHANGED <<clientVars, subVars, handlerVars>>

\* The handler resolves, when the server has let go of it or when a poll
\* ends with nothing ready after its last subscription has gone, and is
\* dropped.  The future that would remove its name from the server is
\* dropped before any poll, and so does nothing: the name stays taken.
\* (mutant) an unsubscription that has not been polled does not matter.
Regardless == TRUE
FuturePolled == current_future.kind \notin {"send", "unsub"}
Finish ==
  /\ handler = "running"
  /\ \/ NotBusy /\ select!StrongEnd /\ select!StrongGoesFirst
     \/ /\ should_shut_down
        /\ FuturePolled
        /\ NotBusy => select!StrongIdle /\ ~select!WeakItem
  /\ handler' = "finished"
  /\ messages' = << >> /\ control' = << >>
  /\ subscribers' = {}
  /\ current_future' = Idle
  /\ UNCHANGED <<clientVars, subVars, should_shut_down, use_strong, weak_done>>

-----------------------------------------------------------------------------
(* The peer, the server and the client                                     *)

\* A notification reaches the server's handler, whose future sends it to
\* the NotificationHandler, if that is there, and else fails.
PeerNotifies(i) ==
  /\ up
  /\ Len(log) < MaxMessages
  /\ log' = Append(log, i)
  /\ messages' = IF handler_set /\ handler # "finished"
                 THEN Append(messages, Len(log')) ELSE messages
  /\ late_error' = (late_error \/ (handler_set /\ handler = "finished"))
  /\ UNCHANGED <<up, stopped_by, user_handle, handler_set, unsub_calls, subVars,
                 handlerVars, control, use_strong, weak_done>>

\* A ClientHandle is held by the user, the Subscriber, a call that is not
\* sent yet, and the NotificationHandler.
HandlesLeft ==
  user_handle \/ subscriber \/ handler = "running" \/ \E s \in Subs : sub[s] = "calling"

ClientStops(why) ==
  /\ up
  /\ \/ why = "fault" /\ "client_stops" \in Faults
     \/ why = "no handles" /\ ~HandlesLeft
     \/ why = "late error" /\ late_error
  /\ up' = FALSE
  /\ stopped_by' = why
  /\ handler_set' = FALSE
  /\ UNCHANGED <<user_handle, late_error, log, unsub_calls, subVars, handlerVars, selectVars>>

Reasons == {"fault", "no handles", "late error"}

HandlerStep == FirstPoll \/ LaterPoll \/ TakeMessage \/ Finish

FutureStep(s) == SpawnHandler(s) \/ CallSubMethod(s) \/ SubscribeResolves(s)

Next ==
  \/ \E s \in Subs :
        \/ Subscribe(s)
        \/ AddSettled(s)
        \/ FutureStep(s)
        \/ PeerAnswers(s)
        \/ Abandon(s)
        \/ Read(s)
        \/ DropSubscription(s)
  \/ DropSubscriber
  \/ DropUserHandle
  \/ HandlerStep
  \/ NothingToDo
  \/ \E i \in Ids : PeerNotifies(i)
  \/ \E why \in Reasons : ClientStops(why)

Spec == Init /\ [][Next]_vars

\* The tasks of the handler and the client are polled; users poll their
\* futures and read their subscriptions; the peer answers.
FairSpec ==
  /\ Spec
  /\ WF_vars(HandlerStep)
  /\ WF_vars(ClientStops("no handles") \/ ClientStops("late error"))
  /\ \A s \in Subs :
        /\ WF_vars(AddSettled(s))
        /\ WF_vars(FutureStep(s))
        /\ WF_vars(PeerAnswers(s))
        /\ WF_vars(Read(s))

-----------------------------------------------------------------------------
(* Properties                                                              *)

States == {"none", "adding", "added", "exists", "calling", "sent", "answered",
           "refused", "failed", "abandoned", "live", "dropped"}

TypeOK ==
  /\ up \in BOOLEAN /\ user_handle \in BOOLEAN /\ stopped_by \in Reasons \cup {"nothing"}
  /\ handler_set \in BOOLEAN /\ late_error \in BOOLEAN
  /\ log \in Seq(Ids) /\ unsub_calls \in Nat
  /\ subscriber \in BOOLEAN /\ has_chan \in BOOLEAN
  /\ sub \in [Subs -> States]
  /\ id \in [Subs -> Ids \cup {NoId}]
  /\ heard \in [Subs -> BOOLEAN]
  /\ rx \in [Subs -> Seq(Nat \ {0})] /\ received \in [Subs -> Seq(Nat \ {0})]
  \* one sender at a time goes over the buffer of a subscription
  /\ \A s \in Subs : Len(rx[s]) <= BufferSize + 1
  /\ handler \in {"none", "running", "finished"}
  /\ subscribers \subseteq Subs
  /\ current_future \in [kind : {"none", "send", "parked", "unsub", "unsub_sent"},
                         to : Subs \cup {NoId}, msg : Nat]
  /\ should_shut_down \in BOOLEAN
  /\ messages \in Seq(Nat \ {0})
  /\ control \in Seq([kind : {"new", "remove"}, s : Subs])
  /\ use_strong \in BOOLEAN /\ weak_done \in BOOLEAN

(* A subscription gets the notifications of its id, in their order, and    *)
(* from its first one on all of them, whatever its reader does             *)
(* (handle_new_message, ready_for_next_connection).                        *)
InSend(s) ==
  IF current_future.kind = "send" /\ current_future.to = s THEN <<current_future.msg>> ELSE << >>
Got(s) == received[s] \o rx[s] \o InSend(s)
Elements(q) == {q[i] : i \in DOMAIN q}
InOrderWithoutGaps ==
  \A s \in Subs : sub[s] = "live" =>
    /\ \A i \in DOMAIN Got(s) : log[Got(s)[i]] = id[s]
    /\ \A i, j \in DOMAIN Got(s) : i < j => Got(s)[i] < Got(s)[j]
    /\ Got(s) # << >> /\ s \in subscribers =>
         \A n \in DOMAIN log :
            n > Got(s)[1] /\ log[n] = id[s] => n \in Elements(Got(s)) \cup Elements(messages)

(* To its owner a subscription is a stream without gaps that goes on while *)
(* the handler has it, however slowly it is read and in whatever way the   *)
(* client ends (NotificationHandler::poll).                                *)
Stream == INSTANCE MessageStream WITH
  attached <- {s \in subscribers : sub[s] = "live"},
  got <- received
ImplementsStreams == Stream!FairSpec

(* While the client is there, the handler goes only after the subscription *)
(* it heard of was dropped and the call of unsub_method is on its way: the *)
(* future of that call is dropped with the handler, but not before its     *)
(* first poll (handle_removal, NotificationHandler::poll).                 *)
UnsubscribedBeforeItGoes ==
  \A s \in Subs : up /\ handler = "finished" /\ heard[s] =>
                    sub[s] = "dropped" /\ unsub_calls = 1

(* A dropped subscription that the handler had heard of is unsubscribed    *)
(* from (Subscription::drop, handle_removal).                              *)
Unsubscribes ==
  \A s \in Subs : sub[s] = "dropped" /\ heard[s] ~> unsub_calls > 0 \/ ~up

(* Subscriptions end with the client, although they hold a control channel *)
(* of the handler themselves (SelectWithWeak in NotificationHandler::poll).*)
HasSender(s) ==
  \/ s \in subscribers
  \/ current_future.to = s
  \/ NewSubscriber(s) \in Elements(control)
StreamsEnd ==
  \A s \in Subs : sub[s] = "live" /\ ~up
                    ~> sub[s] = "dropped" \/ (rx[s] = << >> /\ ~HasSender(s))

(* core/src/lib.rs:272-273: "The client will resolve once all of it's      *)
(* handles and corresponding futures get resolved."  The handler holds a   *)
(* ClientHandle, which it gives up after its last subscription.  A         *)
(* subscribe call that was refused or given up is excepted: nobody tells   *)
(* its handler, which stays and keeps the client (subscribe).              *)
Settled(s) == sub[s] \in {"none", "exists", "dropped"}
ClientReleased ==
  ~user_handle /\ ~subscriber /\ (\A s \in Subs : Settled(s)) ~> ~up

(* pubsub/src/lib.rs:250: "A single notification can receive messages for  *)
(* different subscribers for the same notification."  The second one's add *)
(* finds the name taken.                                                   *)
SecondSubscriberAccepted == \A s \in Subs : sub[s] # "exists"

(* core/src/lib.rs:269-273 gives the reasons for a client to end: an error *)
(* of the sink or the stream, the end of the stream, no handles.  A        *)
(* notification that comes after the handler has gone is another.          *)
LateNotificationsHarmless == stopped_by # "late error"
=============================================================================
