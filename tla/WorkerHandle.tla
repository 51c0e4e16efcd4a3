---------------------------- MODULE WorkerHandle ----------------------------
(***************************************************************************)
(* internal::WorkerHandle: close_senders, and the six ways in which the    *)
(* owner gives the handle up: abort, cancel, abort_and_join,               *)
(* cancel_and_join, join, and a plain drop.  Each takes the handle by      *)
(* value, so no call that borrows it is in progress.  The synchronous part *)
(* is one step per access to state that others read; join_worker is one    *)
(* step per await, and one for what follows it.                            *)
(***************************************************************************)
EXTENDS WorkerState

handleAside == <<task, channelVars, data, workerVars, job, cancellerVars>>

Aborts == {"abort", "abort_and_join"}
Cancels == {"cancel", "cancel_and_join"}
Joins == {"join", "abort_and_join", "cancel_and_join"}

\* The shared ctx is moved to a new Arc: the spawners there are lose it, those to
\* come share the new one.
TakeCtx == spawner' = [s \in Spawners |-> IF spawner[s] = "open" THEN "closed" ELSE spawner[s]]

\* No spawn() borrows the handle.
NotBorrowed == \A t \in Tasks : Caller[t] = Handle => task[t] # "failed"

\* A plausible slip: closing the spawners is taken for the start of a cancel.
CloseSendersCancels ==
  /\ hpc = "idle"
  /\ NotBorrowed
  /\ TakeCtx
  /\ TrySetFlag(FLAG_CANCEL_STARTED)
  /\ UNCHANGED <<task_panic_msg, mutexVars, tokioVars, handleVars, handleAside>>

\* close_senders, called by close_spawners: the handle stays usable.
CloseSenders ==
  /\ hpc = "idle"
  /\ NotBorrowed
  /\ TakeCtx
  /\ UNCHANGED <<statusVars, mutexVars, tokioVars, handleVars, handleAside>>

\* The call that takes the handle by value.
Consume(o) ==
  /\ hpc = "idle"
  /\ NotBorrowed
  /\ op' = o
  /\ hpc' = IF o \in Aborts \cup Cancels THEN "check" ELSE "drop"
  /\ UNCHANGED <<tx, leftover, hres, spawner, statusVars, mutexVars, tokioVars, handleAside>>

\* if !worker_handle.is_finished()
CheckFinished ==
  /\ hpc = "check"
  /\ hpc' = IF finished THEN "close" ELSE "try"
  /\ UNCHANGED <<tx, op, leftover, hres, spawner, statusVars, mutexVars, tokioVars, handleAside>>

\* A plausible slip: the worker's task is aborted and the flags do not tell.
AbortUnflagged ==
  /\ hpc = "try"
  /\ op \in Aborts
  /\ hpc' = IF DidSetFlag THEN "abort" ELSE "close"
  /\ UNCHANGED <<tx, op, leftover, hres, spawner, statusVars, mutexVars, tokioVars, handleAside>>

\* if worker_status.try_set_abort_started()
TrySetAbort ==
  /\ hpc = "try"
  /\ op \in Aborts
  /\ TrySetFlag(FLAG_ABORT_STARTED)
  /\ hpc' = IF DidSetFlag THEN "abort" ELSE "close"
  /\ UNCHANGED <<tx, op, leftover, hres, spawner, task_panic_msg, mutexVars, tokioVars, handleAside>>

\* A plausible slip: the cancel overwrites whatever the flags hold.
SetCancel ==
  /\ hpc = "try"
  /\ op \in Cancels
  /\ StoreFlag(FLAG_CANCEL_STARTED)
  /\ hpc' = "close"
  /\ UNCHANGED <<tx, op, leftover, hres, spawner, task_panic_msg, mutexVars, tokioVars, handleAside>>

\* worker_status.try_set_cancel_started()
TrySetCancel ==
  /\ hpc = "try"
  /\ op \in Cancels
  /\ TrySetFlag(FLAG_CANCEL_STARTED)
  /\ hpc' = "close"
  /\ UNCHANGED <<tx, op, leftover, hres, spawner, task_panic_msg, mutexVars, tokioVars, handleAside>>

\* A plausible slip: the flag is set and the Tokio task is left alone.
AbortForgotten ==
  /\ hpc = "abort"
  /\ hpc' = "close"
  /\ UNCHANGED <<tx, op, leftover, hres, spawner, statusVars, mutexVars, tokioVars, handleAside>>

\* worker_handle.abort()
AbortWorker ==
  /\ hpc = "abort"
  /\ aborting' = TRUE
  /\ hpc' = "close"
  /\ UNCHANGED <<tx, op, leftover, hres, spawner, statusVars, mutexVars, finished, up, handleAside>>

\* self.close_senders()
CloseAll ==
  /\ hpc = "close"
  /\ TakeCtx
  /\ hpc' = "drop"
  /\ UNCHANGED <<tx, op, leftover, hres, statusVars, mutexVars, tokioVars, handleAside>>

\* drop(shared_task_senders_ctx), drop(task_tx): here abort() and cancel() return.
DropSenders ==
  /\ hpc = "drop"
  /\ tx' = FALSE
  /\ leftover' = IF op \in Aborts \cup Cancels THEN Range(queue) ELSE {}
  /\ hpc' = IF op \in Joins THEN "await" ELSE "gone"
  /\ UNCHANGED <<op, hres, spawner, statusVars, mutexVars, tokioVars, handleAside>>

\* A plausible slip: the state is asked for without waiting for the worker's task.
JoinAtOnce ==
  /\ hpc = "await"
  /\ hpc' = "lock"
  /\ UNCHANGED <<tx, op, leftover, hres, spawner, statusVars, mutexVars, tokioVars, handleAside>>

\* worker_handle.await
JoinAwait ==
  /\ hpc = "await"
  /\ finished
  /\ hpc' = "lock"
  /\ UNCHANGED <<tx, op, leftover, hres, spawner, statusVars, mutexVars, tokioVars, handleAside>>

\* A plausible slip: the state is taken while a detached blocking task has it.
JoinBarges ==
  /\ hpc = "lock"
  /\ lock' = "join"
  /\ hpc' = "take"
  /\ UNCHANGED <<tx, op, leftover, hres, spawner, statusVars, present, tokioVars, handleAside>>

\* state.lock().await: a detached blocking task may still hold it.
JoinLock ==
  /\ hpc = "lock"
  /\ lock = "free"
  /\ lock' = "join"
  /\ hpc' = "take"
  /\ UNCHANGED <<tx, op, leftover, hres, spawner, statusVars, present, tokioVars, handleAside>>

\* .take().expect(..), and the guard is dropped at the end of the statement.
JoinTake ==
  /\ hpc = "take"
  /\ present' = FALSE
  /\ lock' = "free"
  /\ hpc' = IF present THEN "report" ELSE "gone"
  /\ hres' = IF present THEN hres ELSE "expect_failed"
  /\ UNCHANGED <<tx, op, leftover, spawner, statusVars, tokioVars, handleAside>>

\* The match of join_worker on how the worker's task ended and, for Ok(Err(())), on
\* the flags.
JoinOutcome ==
  CASE wpc = "Ok" -> "Ok"
    [] wpc = "Err" /\ flags = FLAG_ABORT_STARTED -> "WorkerAborted"
    [] wpc = "Err" /\ flags = FLAG_TASK_PANICKED -> "AnyTaskPanic"
    [] OTHER -> "RuntimeShutdown"

\* abort_and_join turns Ok(state) into WorkerAborted.
JoinReport ==
  /\ hpc = "report"
  /\ hpc' = "gone"
  /\ hres' = IF op = "abort_and_join" /\ JoinOutcome = "Ok" THEN "WorkerAborted" ELSE JoinOutcome
  /\ UNCHANGED <<tx, op, leftover, spawner, statusVars, mutexVars, tokioVars, handleAside>>

\* The future of a join call is dropped at one of its two awaits.
DropJoin ==
  /\ hpc \in {"await", "lock"}
  /\ hpc' = "gone"
  /\ UNCHANGED <<tx, op, leftover, hres, spawner, statusVars, mutexVars, tokioVars, handleAside>>

\* The synchronous part of the calls, which runs to its end.
HandleRuns == CheckFinished \/ TrySetAbort \/ TrySetCancel \/ AbortWorker \/ CloseAll \/ DropSenders

JoinRuns == JoinAwait \/ JoinLock \/ JoinTake \/ JoinReport

HandleNext ==
  \/ CloseSenders
  \/ \E o \in Aborts \cup Cancels \cup Joins \cup {"drop"} : Consume(o)
  \/ HandleRuns \/ JoinRuns \/ DropJoin
=============================================================================
