--------------------------- MODULE SpawnerQueries ---------------------------
(***************************************************************************)
(* WorkerHandle::has_panicked, TaskSpawner::has_panicked and               *)
(* TaskSpawner::is_unavailable, over everything else: what a caller that   *)
(* asks before it spawns may rely on, while the worker and the owner go on *)
(* between the answer and the call of spawn().                             *)
(***************************************************************************)
EXTENDS TaskHandle

VARIABLE seen       \* per task: what its caller was told last, before it spawned it: "fine"
                    \* (or nothing), "panicked" (true), "none" (has_panicked() is None),
                    \* "unavailable"

QueryInit == PollInit /\ seen = [t \in Tasks |-> "fine"]

\* A plausible slip: unavailable is whatever has_panicked() has no answer for.
UnavailableByFlag(s) ==
  IF spawner[s] = "closed" \/ flags \in {FLAG_ABORT_STARTED, FLAG_CANCEL_STARTED}
    THEN "unavailable" ELSE "fine"

\* TaskSpawner::is_unavailable: the ctx is None.
IsUnavailable(s) == IF spawner[s] = "closed" THEN "unavailable" ELSE "fine"

\* WorkerHandle::has_panicked
HandleHasPanicked == IF flags = FLAG_TASK_PANICKED THEN "panicked" ELSE "fine"

\* TaskSpawner::has_panicked: None without a ctx, or after an abort or a cancel;
\* the flags are read while the mutex of the ctx is held.
SpawnerHasPanicked(s) ==
  IF spawner[s] = "closed" \/ flags \in {FLAG_ABORT_STARTED, FLAG_CANCEL_STARTED}
    THEN "none" ELSE HandleHasPanicked

\* The caller of spawn() asks first.  Once told more than "fine", it asks no more.
Ask(t) ==
  /\ task[t] = "new"
  /\ CanCall(Caller[t])
  /\ seen[t] = "fine"
  /\ \E answer \in IF Caller[t] = Handle THEN {HandleHasPanicked}
                   ELSE {IsUnavailable(Caller[t]), SpawnerHasPanicked(Caller[t])} :
       seen' = [seen EXCEPT ![t] = answer]
  /\ UNCHANGED allVars

QueryNext ==
  \/ PollNext /\ UNCHANGED seen
  \/ \E t \in Tasks : Ask(t)

QuerySpec == QueryInit /\ [][QueryNext]_<<allVars, seen>>

-----------------------------------------------------------------------------
(***************************************************************************)
(* worker_handle.rs and task_spawner.rs, has_panicked: once it answers     *)
(* true, a task spawned by its caller does not begin.  Its TaskHandle says *)
(* PreviousTaskPanic, unless the spawner was closed or the task cancelled  *)
(* in the meantime, and whoever joins is told of the panic too: no abort,  *)
(* cancel or shutdown that comes later takes the answer back.              *)
(***************************************************************************)
PanicAnswerStands ==
  \A t \in Tasks : seen[t] = "panicked" =>
    /\ t \notin Begun
    /\ t \in Watched => out[t] \in {"none", "PreviousTaskPanic", "TaskSpawnerUnavailable",
                                     "TaskCancelled"}
    /\ hres \in {"none", "AnyTaskPanic"}

(***************************************************************************)
(* task_spawner.rs, is_unavailable: from the moment it answers true, every *)
(* spawn of that TaskSpawner is refused as unavailable, for that reason and*)
(* no other.                                                               *)
(***************************************************************************)
UnavailableAnswerStands ==
  \A t \in Tasks : seen[t] = "unavailable" => task[t] \in {"new", "refused_unavailable"}

(***************************************************************************)
(* task_spawner.rs, has_panicked: when it has no answer, for a cancel or   *)
(* for a close of the spawners, a task spawned by its caller does not      *)
(* begin, though after a cancel it may still be accepted; and its          *)
(* TaskHandle says that something was cancelled, closed or had panicked,   *)
(* never that the runtime shut down.  (An abort promises less; see the     *)
(* README.)                                                                *)
(***************************************************************************)
NoneAnswerStands ==
  \A t \in Tasks : seen[t] = "none" /\ op \notin Aborts =>
    /\ t \notin Begun
    /\ t \in Watched => out[t] \in {"none", "WorkerCancelled", "PreviousTaskPanic",
                                     "TaskSpawnerUnavailable", "TaskCancelled"}

(***************************************************************************)
(* Why: the ctx that a spawner lost does not come back, and a panic that   *)
(* shows in the flags stays there; and from there no poll of the task's    *)
(* handle gets where it would look for another reason.  A cancel in the    *)
(* flags may give way to a panic, but not to nothing, and the worker is at *)
(* neither the look at them nor the take behind it with a task it has yet  *)
(* to receive.                                                             *)
(***************************************************************************)
Closed(t) ==
  /\ Caller[t] # Handle /\ spawner[Caller[t]] \in {"closed", "dropped"}
  /\ task[t] \in {"new", "refused_unavailable"}
  /\ t \in Watched => out[t] \in {"none", "TaskSpawnerUnavailable"}

Barred(t) ==
  /\ flags # FLAG_OTHER /\ op \in Aborts \cup Cancels
  /\ op \in Cancels =>
       /\ task[t] \in {"new", "failed", "refused_unavailable", "refused_panic", "queued", "kept",
                      "cancelled", "dropped"}
       /\ ~(wpc = "take" /\ cur = t)
       /\ t \in Watched => out[t] # "RuntimeShutdown"

QueryInv ==
  /\ seen \in [Tasks -> {"fine", "panicked", "none", "unavailable"}]
  /\ \A t \in Tasks : seen[t] = "unavailable" =>
       /\ Caller[t] # Handle /\ spawner[Caller[t]] \in {"closed", "dropped"}
       /\ task[t] \in {"new", "refused_unavailable"}
  /\ \A t \in Tasks : seen[t] = "panicked" =>
       /\ flags = FLAG_TASK_PANICKED
       /\ t \notin Begun
       /\ t \in Watched => /\ ph[t] \notin {"steal", "holding"}
                           /\ out[t] \in {"none", "PreviousTaskPanic", "TaskSpawnerUnavailable",
                                          "TaskCancelled"}
  /\ \A t \in Tasks : seen[t] = "none" => Closed(t) \/ Barred(t)

-----------------------------------------------------------------------------
(* What the documentation says and the code does not do.                    *)

(***************************************************************************)
(* task_spawner.rs 56-62: has_panicked() is None if the TaskSpawner is     *)
(* unavailable, and from this point onward spawn() returns a TaskHandle    *)
(* that immediately resolves to TaskSpawnerUnavailable.                    *)
(***************************************************************************)
NoneMeansUnavailable ==
  \A t \in Tasks : seen[t] = "none" => task[t] \in {"new", "failed", "refused_unavailable"}
=============================================================================
