----------------------------- MODULE TaskSender -----------------------------
(***************************************************************************)
(* spawn() and spawn_blocking() of the WorkerHandle and of the             *)
(* TaskSpawners, down to WorkerHandle::send and WorkerTaskSender::send.    *)
(*                                                                         *)
(* A TaskSpawner sends while it holds the mutex of the ctx it shares with  *)
(* the handle, so finding the ctx and sending is one step; the flags are   *)
(* read after the mutex is released, by which time they may have changed.  *)
(***************************************************************************)
EXTENDS WorkerState

senderAside == <<statusVars, data, mutexVars, workerVars, job, tokioVars, handleVars,
                 cancellerVars>>

\* The caller of spawn() has its handle or spawner: both are borrowed by the call.
CanCall(c) ==
  IF c = Handle THEN hpc = "idle" ELSE spawner[c] \in {"open", "closed"}

\* The UnboundedSender is within reach: the ctx of a closed spawner is gone.
HasSender(c) == c # Handle => spawner[c] = "open"

\* A plausible slip: the newest task goes to the front.
SubmitFirst(t) ==
  /\ task[t] = "new"
  /\ CanCall(Caller[t])
  /\ HasSender(Caller[t])
  /\ ~ReceiverGone
  /\ task' = [task EXCEPT ![t] = "queued"]
  /\ queue' = <<t>> \o queue
  /\ sent' = Append(sent, t)
  /\ UNCHANGED <<spawner, senderAside>>

\* task_tx.send(task) returns Ok.
Submit(t) ==
  /\ task[t] = "new"
  /\ CanCall(Caller[t])
  /\ HasSender(Caller[t])
  /\ ~ReceiverGone
  /\ task' = [task EXCEPT ![t] = "queued"]
  /\ queue' = Append(queue, t)
  /\ sent' = Append(sent, t)
  /\ UNCHANGED <<spawner, senderAside>>

\* task_tx.send(task) returns Err: the receiver is gone, and the payload with it.
SubmitFails(t) ==
  /\ task[t] = "new"
  /\ CanCall(Caller[t])
  /\ HasSender(Caller[t])
  /\ ReceiverGone
  /\ task' = [task EXCEPT ![t] = "failed"]
  /\ UNCHANGED <<channelVars, spawner, senderAside>>

\* The ctx is None: the spawner was closed.
SubmitUnavailable(t) ==
  /\ task[t] = "new"
  /\ CanCall(Caller[t])
  /\ ~HasSender(Caller[t])
  /\ task' = [task EXCEPT ![t] = "refused_unavailable"]
  /\ UNCHANGED <<channelVars, spawner, senderAside>>

\* The match on the flags after a failed send.  The handle rules an abort and a
\* cancel out (unreachable!()), a spawner reports them as its own unavailability.
ReportSendError(t) ==
  /\ task[t] = "failed"
  /\ \E error \in {"refused_panic", "refused_shutdown", "refused_unavailable", "unreachable"} :
       /\ flags = FLAG_TASK_PANICKED <=> error = "refused_panic"
       /\ flags = FLAG_OTHER <=> error = "refused_shutdown"
       /\ error = "unreachable" => Caller[t] = Handle
       /\ error = "refused_unavailable" => Caller[t] # Handle
       /\ task' = [task EXCEPT ![t] = error]
  /\ UNCHANGED <<channelVars, spawner, senderAside>>

\* WorkerHandle::spawner: a new sender that shares the handle's present ctx.
NewSpawner(s) ==
  /\ hpc = "idle"
  /\ spawner[s] = "none"
  /\ spawner' = [spawner EXCEPT ![s] = "open"]
  /\ UNCHANGED <<task, channelVars, senderAside>>

\* A TaskSpawner is dropped; no call borrows it.
DropSpawner(s) ==
  /\ spawner[s] \in {"open", "closed"}
  /\ \A t \in Tasks : Caller[t] = s => task[t] # "failed"
  /\ spawner' = [spawner EXCEPT ![s] = "dropped"]
  /\ UNCHANGED <<task, channelVars, senderAside>>

SenderNext ==
  \/ \E t \in Tasks : Submit(t) \/ SubmitFails(t) \/ SubmitUnavailable(t) \/ ReportSendError(t)
  \/ \E s \in Spawners : NewSpawner(s) \/ DropSpawner(s)
=============================================================================
