---------------------------- MODULE ClientHandle ----------------------------
(***************************************************************************)
(* ClientHandle and the futures it returns (core/src/lib.rs:136-197): one  *)
(* future per RPC call (call_method, the methods jsonrpc_client!           *)
(* generates) and one per notification (send_notification).  Such a future *)
(* clones the handle's mpsc sender, sends one OutgoingMessage holding the  *)
(* sending half of a oneshot channel, then waits for the receiving half.   *)
(*                                                                         *)
(* The channel is mpsc::channel(0) of futures 0.1 (external): every sender *)
(* owns one slot, so the single send of a future is always accepted while  *)
(* the receiver lives, and the future then stays parked, still owning its  *)
(* sender, until its message has been received.                            *)
(***************************************************************************)
EXTENDS Task, Messages, Sequences, SequencesExt

VARIABLES
  handle,            \* some ClientHandle is alive
  fut,               \* the state of the future of each message
  oneshot,           \* the value sent through the oneshot of each message
  client_handle_rx   \* the messages waiting in the handles' channel

handleVars == <<handle, fut, oneshot, client_handle_rx>>

Unresolved == {"created", "queued", "waiting"}
\* "answered": resolved with the value in oneshot; "shutdown": resolved with
\* ErrorKind::Shutdown; "rejected": resolved with ErrorKind::SerializeError;
\* "abandoned": dropped by its owner before it resolved.
Resolved == {"answered", "shutdown", "rejected"}
FutureStates == {"none", "abandoned"} \cup Unresolved \cup Resolved

\* A future owns its sender until the send is over.
OwnsSender(m) == fut[m] \in {"created", "queued"}
StrongOpen == handle \/ \E m \in Outgoing : OwnsSender(m)

HandleInit ==
  /\ handle = TRUE
  /\ fut = [m \in Outgoing |-> "none"]
  /\ oneshot = [m \in Outgoing |-> NoValue]
  /\ client_handle_rx = << >>

\* Dropping the last sender ends the channel, which its receiver hears of.
SendersMayHaveGone == IF StrongOpen' THEN UNCHANGED taskVars ELSE Notify("strong")

Become(m, state) == fut' = [fut EXCEPT ![m] = state]

\* call_method or send_notification: the future exists, nothing is sent yet.
Invoke(m) ==
  /\ handle
  /\ fut[m] = "none"
  /\ Become(m, "created")
  /\ UNCHANGED <<handle, oneshot, client_handle_rx, taskVars>>

\* serialize_parameters failed: the first poll returns its error.
Reject(m) ==
  /\ fut[m] = "created"
  /\ Become(m, "rejected")
  /\ UNCHANGED <<handle, oneshot, client_handle_rx>>
  /\ SendersMayHaveGone

\* The first poll of a future with good parameters.
Send(m) ==
  /\ fut[m] = "created"
  /\ IF Dropped
     THEN /\ Become(m, "shutdown")
          /\ UNCHANGED <<client_handle_rx, taskVars>>
     ELSE /\ Become(m, "queued")
          /\ client_handle_rx' = Append(client_handle_rx, m)
          /\ Notify("strong")
  /\ UNCHANGED <<handle, oneshot>>

\* The send is over (received, or the channel is gone): the sender is
\* dropped and the future waits for the oneshot.
Sent(m) ==
  /\ fut[m] = "queued"
  /\ ~Contains(client_handle_rx, m)
  /\ Become(m, "waiting")
  /\ UNCHANGED <<handle, oneshot, client_handle_rx>>
  /\ SendersMayHaveGone

\* The oneshot holds a value, or its sending half was dropped without one;
\* held says whether some part of the client still holds that half.
Resolve(m, held) ==
  /\ fut[m] = "waiting"
  /\ \/ /\ oneshot[m] # NoValue
        /\ Become(m, "answered")
     \/ /\ oneshot[m] = NoValue
        /\ ~held
        /\ Become(m, "shutdown")
  /\ UNCHANGED <<handle, oneshot, client_handle_rx, taskVars>>

\* The owner drops the future; a message already sent stays in the channel.
Abandon(m) ==
  /\ fut[m] \in Unresolved
  /\ Become(m, "abandoned")
  /\ UNCHANGED <<handle, oneshot, client_handle_rx>>
  /\ SendersMayHaveGone

\* The last ClientHandle is dropped.
DropHandle ==
  /\ handle
  /\ handle' = FALSE
  /\ UNCHANGED <<fut, oneshot, client_handle_rx>>
  /\ SendersMayHaveGone

\* A oneshot sender is used: the value is lost if the future is gone.
Complete(m, value) ==
  oneshot' = [oneshot EXCEPT ![m] = IF fut[m] = "abandoned" THEN @ ELSE value]
=============================================================================
