-------------------------------- MODULE Task --------------------------------
(***************************************************************************)
(* The task that drives a Client future, as the futures 0.1 executors run  *)
(* it (external: the futures and tokio crates).  A poll that finds nothing *)
(* at one of its sources leaves the task registered there; the next event  *)
(* at that source consumes the registration and queues the task to be      *)
(* polled again.  An event at a source where the task is not registered    *)
(* wakes nobody: what the task does not poll, it does not hear of.         *)
(***************************************************************************)

VARIABLES
  pc,          \* where the Client future is inside a poll; "idle" between polls
  woken,       \* the executor has the task queued for a poll
  registered   \* the sources that would wake the task

taskVars == <<woken, registered>>

TaskInit ==
  /\ pc = "idle"
  /\ woken = TRUE        \* a spawned future is polled once
  /\ registered = {}

\* An event at source s.
Notify(s) ==
  /\ woken' = (woken \/ s \in registered)
  /\ registered' = registered \ {s}

\* A poll of the sources in S returned NotReady.
Register(S) == registered' = registered \cup S

\* The future was dropped, and its receivers and transport with it.
Dropped == pc = "dropped"
=============================================================================
