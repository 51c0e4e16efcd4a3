----------------------------- MODULE WorkerLoop -----------------------------
(***************************************************************************)
(* The async block of spawn_worker, which is the only receiver of tasks    *)
(* and runs as one Tokio task, together with the closure it hands to       *)
(* Tokio's blocking pool and what Tokio does to both on an abort or a      *)
(* shutdown.  One action per step between two accesses to shared state.    *)
(*                                                                         *)
(* A Tokio task that is aborted, or whose runtime shuts down, is destroyed *)
(* at an await and nowhere else: a poll that is in progress goes on until  *)
(* it is pending.  Nothing outside tells whether a poll is in progress, so *)
(* a step that leaves an await stays possible after the abort.             *)
(***************************************************************************)
EXTENDS WorkerState

aside == <<tx, hpc, op, leftover, hres, spawner, cancellerVars>>

\* Back to the top of `while let`.
NextTask ==
  /\ wpc' = "recv"
  /\ cur' = NoTask

\* A plausible slip: the receiver hands out the newest task first.
RecvNewest ==
  /\ wpc = "recv"
  /\ queue # <<>>
  /\ cur' = queue[Len(queue)]
  /\ queue' = SubSeq(queue, 1, Len(queue) - 1)
  /\ wpc' = "flag"
  /\ UNCHANGED <<statusVars, task, sent, data, mutexVars, job, tokioVars, aside>>

\* task_rx.recv().await yields a task.
Recv ==
  /\ wpc = "recv"
  /\ queue # <<>>
  /\ cur' = Head(queue)
  /\ queue' = Tail(queue)
  /\ wpc' = "flag"
  /\ UNCHANGED <<statusVars, task, sent, data, mutexVars, job, tokioVars, aside>>

\* A plausible slip: the async block captures a sender of its own, which it holds
\* as long as it holds the receiver.
RecvHoldingSender ==
  /\ wpc = "recv"
  /\ queue = <<>>
  /\ ~ChannelOpen /\ ReceiverGone
  /\ DestroyLocals("Ok", "dropped")
  /\ UNCHANGED <<statusVars, sent, data, mutexVars, job, tokioVars, aside>>

\* recv() yields None: every sender is gone and the channel is drained.
RecvClosed ==
  /\ wpc = "recv"
  /\ queue = <<>>
  /\ ~ChannelOpen
  /\ DestroyLocals("Ok", "dropped")
  /\ UNCHANGED <<statusVars, sent, data, mutexVars, job, tokioVars, aside>>

\* The flag shows a started cancel: break, and return Ok(()).
ObserveCancel ==
  /\ wpc = "flag"
  /\ flags = FLAG_CANCEL_STARTED
  /\ DestroyLocals("Ok", task[cur])
  /\ UNCHANGED <<statusVars, sent, data, mutexVars, job, tokioVars, aside>>

\* A plausible slip: the flag is not looked at.
PassAlways ==
  /\ wpc = "flag"
  /\ wpc' = "take"
  /\ UNCHANGED <<statusVars, task, channelVars, data, mutexVars, cur, job, tokioVars, aside>>

PassFlag ==
  /\ wpc = "flag"
  /\ flags # FLAG_CANCEL_STARTED
  /\ wpc' = "take"
  /\ UNCHANGED <<statusVars, task, channelVars, data, mutexVars, cur, job, tokioVars, aside>>

\* take_if_not_cancelled() returns the payload.
TakeTask ==
  /\ wpc = "take"
  /\ task[cur] = "queued"
  /\ task' = [task EXCEPT ![cur] = "taken"]
  /\ wpc' = "start"
  /\ UNCHANGED <<statusVars, channelVars, data, mutexVars, cur, job, tokioVars, aside>>

\* A plausible slip: a task that is not to be had is tried again.
SkipRetries ==
  /\ wpc = "take"
  /\ task[cur] # "queued"
  /\ wpc' = "flag"
  /\ UNCHANGED <<statusVars, task, channelVars, data, mutexVars, cur, job, tokioVars, aside>>

\* take_if_not_cancelled() returns None: a canceller was first.
SkipCancelled ==
  /\ wpc = "take"
  /\ task[cur] # "queued"
  /\ NextTask
  /\ UNCHANGED <<statusVars, task, channelVars, data, mutexVars, job, tokioVars, aside>>

\* RawTask::Async: try_lock(), then the first poll of the closure's future.  Where
\* a join has the lock, or took the state, the worker returns Err(()).
StartAsync ==
  /\ wpc = "start"
  /\ cur \notin Blocking
  /\ IF lock = "free" /\ present
       THEN /\ lock' = "worker"
            /\ task' = [task EXCEPT ![cur] = "running"]
            /\ data' = Append(data, cur)
            /\ wpc' = "async"
            /\ UNCHANGED <<queue, cur>>
       ELSE /\ DestroyLocals("Err", "dropped")
            /\ UNCHANGED <<lock, data>>
  /\ UNCHANGED <<statusVars, sent, present, job, tokioVars, aside>>

\* RawTask::Blocking: spawn_blocking() on a runtime that still accepts closures.
StartBlocking ==
  /\ wpc = "start"
  /\ cur \in Blocking
  /\ up
  /\ job' = "queued"
  /\ wpc' = "blocking"
  /\ UNCHANGED <<statusVars, task, channelVars, data, mutexVars, cur, tokioVars, aside>>

\* spawn_blocking() on a runtime that shuts down: the closure is destroyed.
StartBlockingShutdown ==
  /\ wpc = "start"
  /\ cur \in Blocking
  /\ ~up
  /\ job' = "shut"
  /\ task' = [task EXCEPT ![cur] = "dropped"]
  /\ wpc' = "blocking"
  /\ UNCHANGED <<statusVars, channelVars, data, mutexVars, cur, tokioVars, aside>>

\* catch_unwind_async(..).await yields Ok, after result_tx.send() in the future.
AsyncReturns ==
  /\ wpc = "async"
  /\ lock' = "free"
  /\ task' = [task EXCEPT ![cur] = "done"]
  /\ NextTask
  /\ UNCHANGED <<statusVars, channelVars, data, present, job, tokioVars, aside>>

\* catch_unwind_async(..).await yields Err.
AsyncPanics ==
  /\ wpc = "async"
  /\ lock' = "free"
  /\ task' = [task EXCEPT ![cur] = "unwound"]
  /\ wpc' = "set_msg"
  /\ UNCHANGED <<statusVars, channelVars, data, present, cur, job, tokioVars, aside>>

-----------------------------------------------------------------------------
(* The closure on the blocking pool.  There is at most one: the worker      *)
(* waits for it, and a worker that is destroyed while waiting starts none.  *)

\* The closure begins: try_lock() succeeds and the state is there.
PoolStart ==
  /\ job = "queued"
  /\ lock = "free" /\ present
  /\ \E t \in Blocking :
       /\ task[t] = "taken"
       /\ task' = [task EXCEPT ![t] = "running"]
       /\ data' = Append(data, t)
  /\ lock' = "pool"
  /\ job' = "running"
  /\ UNCHANGED <<statusVars, channelVars, present, workerVars, tokioVars, aside>>

\* try_lock() fails, or a join took the state: the closure returns None.
PoolRefuse ==
  /\ job = "queued"
  /\ lock # "free" \/ ~present
  /\ task' = [t \in Tasks |-> IF t \in Blocking /\ task[t] = "taken" THEN "dropped" ELSE task[t]]
  /\ job' = "lost"
  /\ UNCHANGED <<statusVars, channelVars, data, mutexVars, workerVars, tokioVars, aside>>

\* The runtime shuts down before a thread of the pool picks the closure up.
PoolShutdown ==
  /\ job = "queued"
  /\ ~up
  /\ task' = [t \in Tasks |-> IF t \in Blocking /\ task[t] = "taken" THEN "dropped" ELSE task[t]]
  /\ job' = "shut"
  /\ UNCHANGED <<statusVars, channelVars, data, mutexVars, workerVars, tokioVars, aside>>

\* catch_unwind(|| task(state)) yields Ok; the guard is dropped at the end of the block.
PoolReturns ==
  /\ job = "running"
  /\ task' = [t \in Tasks |-> IF t \in Blocking /\ task[t] = "running" THEN "done" ELSE task[t]]
  /\ lock' = "free"
  /\ job' = "returned"
  /\ UNCHANGED <<statusVars, channelVars, data, present, workerVars, tokioVars, aside>>

\* A plausible slip: the panic unwinds past the guard's owner and the lock stays taken.
PoolPanicsLocked ==
  /\ job = "running"
  /\ task' = [t \in Tasks |-> IF t \in Blocking /\ task[t] = "running" THEN "unwound" ELSE task[t]]
  /\ job' = "panicked"
  /\ UNCHANGED <<statusVars, channelVars, data, mutexVars, workerVars, tokioVars, aside>>

\* catch_unwind(|| task(state)) yields Err.
PoolPanics ==
  /\ job = "running"
  /\ task' = [t \in Tasks |-> IF t \in Blocking /\ task[t] = "running" THEN "unwound" ELSE task[t]]
  /\ lock' = "free"
  /\ job' = "panicked"
  /\ UNCHANGED <<statusVars, channelVars, data, present, workerVars, tokioVars, aside>>

-----------------------------------------------------------------------------
(* The worker again: the result of spawn_blocking(..).await.                *)

\* Ok(Some((s, Ok(())))).
BlockingReturned ==
  /\ wpc = "blocking"
  /\ job = "returned"
  /\ job' = "none"
  /\ NextTask
  /\ UNCHANGED <<statusVars, task, channelVars, data, mutexVars, tokioVars, aside>>

\* Ok(Some((s, Err(panic)))).
BlockingPanicked ==
  /\ wpc = "blocking"
  /\ job = "panicked"
  /\ job' = "none"
  /\ wpc' = "set_msg"
  /\ UNCHANGED <<statusVars, task, channelVars, data, mutexVars, cur, tokioVars, aside>>

\* Ok(None) | Err(_): return Err(()).
BlockingLost ==
  /\ wpc = "blocking"
  /\ job \in {"lost", "shut"}
  /\ job' = "none"
  /\ DestroyLocals("Err", "dropped")
  /\ UNCHANGED <<statusVars, sent, data, mutexVars, tokioVars, aside>>

\* A plausible slip: the message is not stored.
SetNoMsg ==
  /\ wpc = "set_msg"
  /\ wpc' = "set_flag"
  /\ UNCHANGED <<statusVars, task, channelVars, data, mutexVars, cur, job, tokioVars, aside>>

\* set_task_panicked, first store: the message of the panic.
SetMsg ==
  /\ wpc = "set_msg"
  /\ SetPanicMsg(cur)
  /\ wpc' = "set_flag"
  /\ UNCHANGED <<task, channelVars, data, mutexVars, cur, job, tokioVars, aside>>

\* set_task_panicked, second store: the flag.
SetFlag ==
  /\ wpc = "set_flag"
  /\ StoreTaskPanicked
  /\ wpc' = "send_panic"
  /\ UNCHANGED <<task, channelVars, data, mutexVars, cur, job, tokioVars, aside>>

\* task_panic_sender.send(panic).
SendPanic ==
  /\ wpc = "send_panic"
  /\ task' = [task EXCEPT ![cur] = "panicked"]
  /\ wpc' = "return_err"
  /\ UNCHANGED <<statusVars, channelVars, data, mutexVars, cur, job, tokioVars, aside>>

\* A plausible slip: the panic is reported, and the loop goes on.
ContinueAfterPanic ==
  /\ wpc = "return_err"
  /\ NextTask
  /\ UNCHANGED <<statusVars, task, channelVars, data, mutexVars, job, tokioVars, aside>>

\* A plausible slip: the panic ends the loop, and the block returns Ok(()).
ReturnOk ==
  /\ wpc = "return_err"
  /\ DestroyLocals("Ok", task[cur])
  /\ UNCHANGED <<statusVars, sent, data, mutexVars, job, tokioVars, aside>>

\* return Err(()).
ReturnErr ==
  /\ wpc = "return_err"
  /\ DestroyLocals("Err", task[cur])
  /\ UNCHANGED <<statusVars, sent, data, mutexVars, job, tokioVars, aside>>

-----------------------------------------------------------------------------
(* Tokio: the worker's future is destroyed at an await.                     *)

DropAtRecv ==
  /\ wpc = "recv"
  /\ Stopping
  /\ DestroyLocals("Cancelled", "dropped")
  /\ UNCHANGED <<statusVars, sent, data, mutexVars, job, tokioVars, aside>>

\* The future of the task is destroyed between two polls, and the guard with it.
DropInAsync ==
  /\ wpc = "async"
  /\ Stopping
  /\ lock' = "free"
  /\ DestroyLocals("Cancelled", "broken")
  /\ UNCHANGED <<statusVars, sent, data, present, job, tokioVars, aside>>

\* The closure on the pool is detached: it begins, or goes on, without the worker.
DropInBlocking ==
  /\ wpc = "blocking"
  /\ Stopping
  /\ DestroyLocals("Cancelled", task[cur])
  /\ UNCHANGED <<statusVars, sent, data, mutexVars, job, tokioVars, aside>>

\* Tokio completes the JoinHandle, after the future and its locals are gone.
CompleteJoinHandle ==
  /\ wpc \in Ends
  /\ ~finished
  /\ finished' = TRUE
  /\ UNCHANGED <<statusVars, task, channelVars, data, mutexVars, workerVars, job,
                 aborting, up, aside>>

\* Runtime::shutdown_background, shutdown_timeout, or a drop of the runtime.
Shutdown ==
  /\ up
  /\ up' = FALSE
  /\ UNCHANGED <<statusVars, task, channelVars, data, mutexVars, workerVars, job,
                 finished, aborting, aside>>

\* Whether the task at hand returns or panics, an async one only if it is ever ready.
AsyncBody == AsyncReturns \/ AsyncPanics

PoolBody == PoolReturns \/ PoolPanics

Pool == PoolStart \/ PoolRefuse \/ PoolShutdown

Drops == DropAtRecv \/ DropInAsync \/ DropInBlocking

\* The code of the loop itself.
Loop ==
  \/ Recv \/ RecvClosed \/ ObserveCancel \/ PassFlag \/ TakeTask \/ SkipCancelled
  \/ StartAsync \/ StartBlocking \/ StartBlockingShutdown
  \/ BlockingReturned \/ BlockingPanicked \/ BlockingLost
  \/ SetMsg \/ SetFlag \/ SendPanic \/ ReturnErr

WorkerNext == Loop \/ AsyncBody \/ Pool \/ PoolBody \/ Drops \/ CompleteJoinHandle \/ Shutdown
=============================================================================
