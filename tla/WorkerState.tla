---------------------------- MODULE WorkerState -----------------------------
(***************************************************************************)
(* The state that the parts of async-sequential share: the channel of      *)
(* tasks, the mutex around the user's state S, the Tokio task that runs    *)
(* the worker, the task that runs on Tokio's blocking pool, and how far    *)
(* the owner of the WorkerHandle and the cancellers have come.             *)
(*                                                                         *)
(* A task is one closure given to spawn() or spawn_blocking().  task[t] is *)
(* where its payload (closure, result sender, panic sender) is:            *)
(*   "new"      not spawned yet                                            *)
(*   "failed"   the channel refused it; send() has yet to read the flags   *)
(*   "refused_unavailable", "refused_panic", "refused_shutdown"            *)
(*              send() returned that WorkerSendError                       *)
(*   "unreachable"  send() ran into its unreachable!()                     *)
(*   "queued"   in its OnceTake, which no one has taken                    *)
(*   "kept"     as "queued", but the channel is gone: a reference that a   *)
(*              canceller upgraded is the last to the OnceTake             *)
(*   "cancelled"  taken out of the OnceTake by a canceller, and destroyed  *)
(*   "taken"    taken by the worker, not begun                             *)
(*   "running"  its closure runs on the state                              *)
(*   "done"     it returned; its result is in the result channel           *)
(*   "unwound"  it panicked; the panic is not in the panic channel         *)
(*   "panicked" it panicked; the panic is in the panic channel             *)
(*   "dropped"  destroyed before it began                                  *)
(*   "broken"   its future was destroyed between two of its polls          *)
(***************************************************************************)
EXTENDS WorkerStatus, Sequences, Functions

CONSTANTS
  Blocking,         \* the tasks given to spawn_blocking(); the others to spawn()
  Spawners,         \* the TaskSpawners the owner of the WorkerHandle may create
  Handle,           \* the WorkerHandle, as a place to spawn from
  Caller,           \* for each task, the Spawner or the Handle it is spawned from
  Cancellable       \* the tasks whose canceller is ever used

ASSUME ConstantsAssumption ==
  /\ Blocking \subseteq Tasks
  /\ Cancellable \subseteq Tasks
  /\ Handle \notin Spawners
  /\ Caller \in [Tasks -> Spawners \cup {Handle}]

VARIABLES
  task,             \* per task, as above
  queue,            \* the unbounded mpsc channel
  sent,             \* history: the tasks the channel accepted, in that order
  data,             \* the state S, as the tasks that began on it, in that order
  lock,             \* the tokio Mutex around the state: "free" or who holds it
  present,          \* whether the Option<S> in the Mutex is Some
  wpc,              \* where the worker's async block is
  cur,              \* the task in the worker's hands
  job,              \* the closure given to tokio's spawn_blocking
  finished,         \* JoinHandle::is_finished of the worker's Tokio task
  aborting,         \* JoinHandle::abort was called on it
  up,               \* the Tokio runtime is not shut down
  tx,               \* the WorkerHandle still holds its senders
  spawner,          \* per spawner: "none", "open", "closed" (its ctx was taken), "dropped"
  hpc,              \* where the owner of the WorkerHandle is
  op,               \* the call that consumed the WorkerHandle
  leftover,         \* history: what was in the channel when abort or cancel let go of it
  hres,             \* what the join call returned
  cx,               \* per task: where its canceller is; "held" with an upgraded reference
  stealing,         \* the tasks to which a poll of their TaskHandle has such a reference
  is_cancelled      \* per task: TaskCancellerImpl::is_cancelled

channelVars == <<queue, sent>>
mutexVars == <<lock, present>>
workerVars == <<wpc, cur>>
tokioVars == <<finished, aborting, up>>
handleVars == <<tx, hpc, op, leftover, hres>>
cancellerVars == <<cx, stealing, is_cancelled>>

vars == <<statusVars, task, channelVars, data, mutexVars, workerVars, job,
          tokioVars, handleVars, spawner, cancellerVars>>

TaskStatus ==
  {"new", "failed", "refused_unavailable", "refused_panic", "refused_shutdown",
   "unreachable", "queued", "kept", "cancelled", "taken", "running", "done", "unwound",
   "panicked", "dropped", "broken"}

\* The points of the async block at which it waits, and those it passes through.
Awaits == {"recv", "async", "blocking"}
Steps == {"flag", "take", "start", "set_msg", "set_flag", "send_panic", "return_err"}
Ends == {"Ok", "Err", "Cancelled"}    \* task_rx and the locals are destroyed

\* WorkerJoinError, which the callers of the joins get as a PoisonError.
JoinErrors == {"AnyTaskPanic", "RuntimeShutdown", "WorkerAborted"}

TypeOK ==
  /\ StatusTypeOK
  /\ task \in [Tasks -> TaskStatus]
  /\ queue \in Seq(Tasks)
  /\ sent \in Seq(Tasks)
  /\ data \in Seq(Tasks)
  /\ lock \in {"free", "worker", "pool", "join"}
  /\ present \in BOOLEAN
  /\ wpc \in Awaits \cup Steps \cup Ends
  /\ cur \in Tasks \cup {NoTask}
  /\ job \in {"none", "queued", "running", "returned", "panicked", "lost", "shut"}
  /\ finished \in BOOLEAN
  /\ aborting \in BOOLEAN
  /\ up \in BOOLEAN
  /\ tx \in BOOLEAN
  /\ spawner \in [Spawners -> {"none", "open", "closed", "dropped"}]
  /\ hpc \in {"idle", "check", "try", "abort", "close", "drop",
              "await", "lock", "take", "report", "gone"}
  /\ op \in {"none", "abort", "cancel", "abort_and_join", "cancel_and_join", "join", "drop"}
  /\ leftover \in SUBSET Tasks
  /\ hres \in {"none", "Ok", "expect_failed"} \cup JoinErrors
  /\ cx \in [Tasks -> {"idle", "armed", "held", "won", "yes"}]
  /\ stealing \in SUBSET Tasks
  /\ is_cancelled \in [Tasks -> BOOLEAN]

\* spawn_worker: the channel, the status, the state in its Mutex, the Tokio task.
Init ==
  /\ InitStatus
  /\ task = [t \in Tasks |-> "new"]
  /\ queue = <<>>
  /\ sent = <<>>
  /\ data = <<>>
  /\ lock = "free"
  /\ present = TRUE
  /\ wpc = "recv"
  /\ cur = NoTask
  /\ job = "none"
  /\ finished = FALSE
  /\ aborting = FALSE
  /\ up = TRUE
  /\ tx = TRUE
  /\ spawner = [s \in Spawners |-> "none"]
  /\ hpc = "idle"
  /\ op = "none"
  /\ leftover = {}
  /\ hres = "none"
  /\ cx = [t \in Tasks |-> "idle"]
  /\ stealing = {}
  /\ is_cancelled = [t \in Tasks |-> FALSE]

\* Some UnboundedSender exists: the handle's, or the one in a ctx spawners share.
ChannelOpen == tx \/ \E s \in Spawners : spawner[s] = "open"

\* The Receiver is destroyed: every send() fails from now on.
ReceiverGone == wpc \in Ends

\* The runtime destroys the worker's future at the next await it is stopped at.
Stopping == aborting \/ ~up

\* A plausible slip: the receiver is owned by someone who outlives the worker.
KeepReceiver(end, gone) ==
  /\ wpc' = end
  /\ cur' = NoTask
  /\ task' = [t \in Tasks |-> IF t = cur THEN gone ELSE task[t]]
  /\ UNCHANGED queue

\* Weak::upgrade gave out a reference to the OnceTake that is still in use.
Upgraded(t) == cx[t] = "held" \/ t \in stealing

\* The payload is in its OnceTake, for whoever takes it first.
Takeable(t) == task[t] \in {"queued", "kept"}

\* The worker's future is destroyed or returns, and with it task_rx and all that is in
\* the channel but what a canceller refers to.  `gone` is what becomes of the task in
\* its hands.
DestroyLocals(end, gone) ==
  /\ wpc' = end
  /\ cur' = NoTask
  /\ task' = [t \in Tasks |-> IF task[t] = "queued" THEN IF Upgraded(t) THEN "kept" ELSE "dropped"
                              ELSE IF t = cur THEN gone ELSE task[t]]
  /\ queue' = <<>>
=============================================================================
