------------------------------ MODULE TaskError ------------------------------
(***************************************************************************)
(* What a failed task or join carries to its user: internal::PanicPayload, *)
(* TaskError with its kinds, and PoisonError.  Values and operators only;  *)
(* TaskHandle and WorkerHandle say when which of them is made.             *)
(*                                                                         *)
(* The text of a panic is named by the task that panicked; NoTask is the   *)
(* None of an Option<Arc<String>>.                                         *)
(***************************************************************************)
EXTENDS WorkerStatus

CONSTANT Payload    \* per task: the type of what it panics with, if it does

ASSUME PayloadAssumption == Payload \in [Tasks -> {"String", "&str", "other"}]

\* TaskErrorKind, the Repr of a TaskError without its fields.
Kinds ==
  {"WorkerAborted", "WorkerCancelled", "PreviousTaskPanic", "TaskSpawnerUnavailable",
   "TaskCancelled", "TaskPanic", "RuntimeShutdown"}

\* PanicPayload::msg: only the two types that panic!() makes can be read as text.
Text(t) == IF Payload[t] \in {"String", "&str"} THEN t ELSE NoTask

\* WorkerStatus::task_panic_msg: None if nothing is set, or what is set is None.
PanicMsg == IF task_panic_msg = NoTask THEN NoTask ELSE Text(task_panic_msg)

\* The text an error of that kind, of task t, is made with.
MsgOf(kind, t) ==
  CASE kind = "TaskPanic" -> Text(t)
    [] kind = "PreviousTaskPanic" -> PanicMsg
    [] OTHER -> NoTask

\* TaskError::is_cancelled
IsCancelled(kind) ==
  kind \in {"WorkerAborted", "WorkerCancelled", "TaskSpawnerUnavailable", "TaskCancelled",
            "PreviousTaskPanic", "RuntimeShutdown"}

\* TaskError::is_panic; then, and only then, into_panic and try_into_panic give a payload.
IsPanic(kind) == kind = "TaskPanic"
=============================================================================
