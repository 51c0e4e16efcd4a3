---------------------------- MODULE TaskHandleInv ---------------------------
(***************************************************************************)
(* Why the safety properties of TaskHandle hold: what the polls know of the*)
(* task, next to the invariants of the system under them.  TLC checks it on*)
(* small instances, TaskHandleProof proves it.                             *)
(***************************************************************************)
EXTENDS TaskHandle, AsyncSequentialInv

\* send() refused it.
Refused(t) == task[t] \in {"refused_unavailable", "refused_panic", "refused_shutdown"}

\* Where a poll is tells what its task can no longer do.
Look(t) ==
  /\ ph[t] \notin {"fresh", "done"} => HasCanceller(t)
  /\ ph[t] # "done" /\ panic_rx_ready[t] => NoPanicToCome(t)
  /\ ph[t] # "done" /\ result_rx_ready[t] => NoResultToCome(t)
  /\ ph[t] \in {"none", "flag"} => NoPanicToCome(t) /\ NoResultToCome(t)
  /\ ph[t] \in {"steal", "holding"} => op \in Cancels

\* And what its handle said, its task did do, or will never do.
Said(t) ==
  /\ out[t] = "Ok" => task[t] = "done"
  /\ out[t] = "TaskPanic" => task[t] = "panicked"
  /\ IsCancelled(out[t]) => Refused(t) \/ (NoPanicToCome(t) /\ NoResultToCome(t))
  /\ out[t] \in {"PreviousTaskPanic", "TaskCancelled", "TaskSpawnerUnavailable"} =>
       task[t] \notin {"unwound", "broken"}
  /\ out[t] = "PreviousTaskPanic" =>
       /\ flags = FLAG_TASK_PANICKED
       /\ \E p \in Tasks \ {t} : task[p] \in {"unwound", "panicked"} /\ msg[t] = Text(p)
  /\ out[t] = "WorkerAborted" => op \in Aborts
  /\ out[t] = "WorkerCancelled" =>
       op \in Cancels /\ (task[t] \in {"unwound", "broken"} => ~up)

LookInv == \A t \in Watched : Look(t)
SaidInv == \A t \in Watched : Said(t)

PollInv == IInv /\ LineInv /\ ShownInv /\ PollTypeOK /\ LookInv /\ SaidInv

-----------------------------------------------------------------------------
(* A second layer, on top of PollInv: who is to blame, and who is to wake whom. *)

\* A payload was taken out of its OnceTake by the poll that says so, or by the task's
\* canceller, who comes to say so.
Blame(t) ==
  /\ task[t] = "cancelled" /\ out[t] # "WorkerCancelled" => cx[t] \in {"won", "yes"}
  /\ is_cancelled[t] /\ out[t] # "WorkerCancelled" => cx[t] = "yes"
  /\ out[t] = "TaskCancelled" => cx[t] = "yes"
  /\ out[t] = "RuntimeShutdown" => ~up \/ cx[t] \in {"won", "yes"}

\* A poll that is pending, or will be, has a receiver that is not ready; and holds the
\* payload only while it is about to take it.
Wait(t) ==
  /\ ph[t] \in {"idle", "pending", "steal", "holding"} =>
       ~(panic_rx_ready[t] /\ result_rx_ready[t])
  /\ t \in stealing => ph[t] = "holding"

\* The layers of the system that are not part of PollInv hold under the polls, too.
WholeInv ==
  /\ PollInv /\ WaitInv /\ TakenInv
  /\ \A t \in Watched : Blame(t) /\ Wait(t)
  /\ stealing \subseteq Watched
=============================================================================
