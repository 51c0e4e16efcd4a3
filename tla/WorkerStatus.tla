---------------------------- MODULE WorkerStatus ----------------------------
(***************************************************************************)
(* internal::WorkerStatus: the one byte of atomic flags and the OnceLock   *)
(* that the worker, its handle, its spawners and every TaskHandle share.   *)
(*                                                                         *)
(* The atomics of the code are acquire/release accesses to single cells;   *)
(* each is one step here.  set_task_panicked is two of them, so its two    *)
(* stores are separate operators.                                          *)
(***************************************************************************)
EXTENDS Naturals

CONSTANTS
  Tasks,            \* the closures that are ever spawned
  NoTask            \* "no task"; also an OnceLock that is not set

ASSUME NoTaskAssumption == NoTask \notin Tasks

VARIABLES
  flags,            \* AtomicU8
  task_panic_msg    \* OnceLock: NoTask, or the task whose panic message it holds

statusVars == <<flags, task_panic_msg>>

FLAG_OTHER == 0
FLAG_ABORT_STARTED == 1
FLAG_CANCEL_STARTED == 2
FLAG_TASK_PANICKED == 4

\* The values for which WorkerStatus::flag() does not reach its unreachable!().
Flags == {FLAG_OTHER, FLAG_ABORT_STARTED, FLAG_CANCEL_STARTED, FLAG_TASK_PANICKED}

InitStatus ==
  /\ flags = FLAG_OTHER
  /\ task_panic_msg = NoTask

StatusTypeOK ==
  /\ flags \in Flags
  /\ task_panic_msg \in Tasks \cup {NoTask}

\* A plausible slip: a plain store where the code compares and exchanges.
StoreFlag(flag) == flags' = flag

\* compare_exchange(FLAG_OTHER, flag): an earlier abort, cancel or panic stays.
TrySetFlag(flag) == flags' = IF flags = FLAG_OTHER THEN flag ELSE flags

\* try_set_abort_started and try_set_cancel_started return is_ok().
DidSetFlag == flags = FLAG_OTHER

\* OnceLock::set: the first message stays.
SetPanicMsg(t) ==
  /\ task_panic_msg' = IF task_panic_msg = NoTask THEN t ELSE task_panic_msg
  /\ UNCHANGED flags

\* A plausible slip: fetch_or, so that a started abort or cancel stays in the byte.
OrTaskPanicked ==
  /\ flags' = IF flags = FLAG_TASK_PANICKED THEN flags ELSE flags + FLAG_TASK_PANICKED
  /\ UNCHANGED task_panic_msg

\* A plausible slip: compare_exchange, as for an abort or a cancel.
TryStoreTaskPanicked ==
  /\ TrySetFlag(FLAG_TASK_PANICKED)
  /\ UNCHANGED task_panic_msg

\* flags.store(FLAG_TASK_PANICKED): a started abort or cancel is overwritten.
StoreTaskPanicked ==
  /\ flags' = FLAG_TASK_PANICKED
  /\ UNCHANGED task_panic_msg
=============================================================================
