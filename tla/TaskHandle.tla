----------------------------- MODULE TaskHandle -----------------------------
(***************************************************************************)
(* The futures that spawn() and spawn_blocking() return: TaskHandle::poll  *)
(* and, under it, TaskResultReceiver::poll, over everything else.          *)
(*                                                                         *)
(* A poll reads the panic channel, the result channel, is_cancelled and the*)
(* flags one after the other while the worker and the cancellers go on; a  *)
(* poll that is pending leaves its waker in the channels that are open, and*)
(* only those two channels ever wake it.                                   *)
(***************************************************************************)
EXTENDS AsyncSequential, TaskError

CONSTANT Watched    \* the tasks whose TaskHandle is polled

ASSUME WatchedAssumption == Watched \subseteq Tasks

VARIABLES
  ph,               \* per task: where the poll is; "fresh", "idle" and "done" between polls
  panic_rx_ready,   \* per task: TaskResultReceiver::panic_rx_ready
  result_rx_ready,  \* per task: TaskResultReceiver::result_rx_ready
  out,              \* per task: what the TaskHandle resolved to
  msg               \* per task: the text of a panic in that, or NoTask

pollVars == <<ph, panic_rx_ready, result_rx_ready, out, msg>>
allVars == <<vars, pollVars>>

Outcomes == {"Ok"} \cup Kinds

PollTypeOK ==
  /\ ph \in [Watched -> {"fresh", "idle", "result", "none", "flag",
                         "pending", "steal", "holding", "done"}]
  /\ panic_rx_ready \in [Watched -> BOOLEAN]
  /\ result_rx_ready \in [Watched -> BOOLEAN]
  /\ out \in [Watched -> Outcomes \cup {"none"}]
  /\ msg \in [Watched -> Tasks \cup {NoTask}]
  /\ \A t \in Watched : out[t] # "none" <=> ph[t] = "done"

PollInit ==
  /\ Init
  /\ ph = [t \in Watched |-> "fresh"]
  /\ panic_rx_ready = [t \in Watched |-> FALSE]
  /\ result_rx_ready = [t \in Watched |-> FALSE]
  /\ out = [t \in Watched |-> "none"]
  /\ msg = [t \in Watched |-> NoTask]

\* The panic channel: its sender lies in the payload, then in the worker's hands.
PanicTx(t) ==
  CASE task[t] = "panicked" -> "sent"
    [] \/ Takeable(t)
       \/ cur = t /\ wpc \in (Awaits \cup Steps) \ {"flag", "take", "return_err"} -> "open"
    [] OTHER -> "closed"

\* The result channel: its sender lies in the closure and is used or lost with it.
ResultTx(t) ==
  CASE task[t] = "done" -> "sent"
    [] task[t] \in {"queued", "kept", "taken", "running"} -> "open"
    [] OTHER -> "closed"

\* A plausible slip: the future can be polled after it was ready.
ResolveAgain(t, outcome) ==
  /\ out' = [out EXCEPT ![t] = outcome]
  /\ msg' = [msg EXCEPT ![t] = MsgOf(outcome, t)]
  /\ ph' = [ph EXCEPT ![t] = "idle"]

Resolve(t, outcome) ==
  /\ out' = [out EXCEPT ![t] = outcome]
  /\ msg' = [msg EXCEPT ![t] = MsgOf(outcome, t)]
  /\ ph' = [ph EXCEPT ![t] = "done"]

Goto(t, step) ==
  /\ ph' = [ph EXCEPT ![t] = step]
  /\ UNCHANGED <<out, msg>>

\* TaskHandle::unspawned: what the handle of a refused task keeps of the WorkerSendError.
UnspawnedReason(error) ==
  CASE error = "refused_panic" -> "PreviousTaskPanic"
    [] error = "refused_shutdown" -> "RuntimeShutdown"
    [] error = "refused_unavailable" -> "TaskSpawnerUnavailable"

\* The first poll tells it; the text of the panic was in place by the time of the refusal.
Unspawned(t) ==
  /\ ph[t] = "fresh"
  /\ task[t] \in {"refused_panic", "refused_shutdown", "refused_unavailable"}
  /\ Resolve(t, UnspawnedReason(task[t]))
  /\ UNCHANGED <<panic_rx_ready, result_rx_ready, vars>>

\* One of the two channels was open when the last poll looked, and no longer is.
Woken(t) ==
  \/ ~panic_rx_ready[t] /\ PanicTx(t) # "open"
  \/ ~result_rx_ready[t] /\ ResultTx(t) # "open"

\* TaskResultReceiver::poll, the panic channel.
PollPanicRx(t) ==
  /\ IF ~panic_rx_ready[t] /\ PanicTx(t) = "sent"
       THEN Resolve(t, "TaskPanic")
       ELSE Goto(t, "result")
  /\ panic_rx_ready' = [panic_rx_ready EXCEPT ![t] = @ \/ PanicTx(t) # "open"]
  /\ UNCHANGED <<result_rx_ready, vars>>

\* The executor polls: for the first time, or because a channel woke the waker.
StartPoll(t) ==
  /\ HasCanceller(t)
  /\ ph[t] = "fresh" \/ (ph[t] = "idle" /\ Woken(t))
  /\ PollPanicRx(t)

\* The user polls again for a reason of his own (select!, join!, a timer).
PollAgain(t) ==
  /\ ph[t] = "idle"
  /\ PollPanicRx(t)

\* A plausible slip: a closed result channel settles it, whatever the panic channel holds.
PollResultRxAlone(t) ==
  /\ ph[t] = "result"
  /\ IF ~result_rx_ready[t] /\ ResultTx(t) = "sent"
       THEN Resolve(t, "Ok")
       ELSE Goto(t, IF ResultTx(t) # "open" THEN "none" ELSE "pending")
  /\ result_rx_ready' = [result_rx_ready EXCEPT ![t] = @ \/ ResultTx(t) # "open"]
  /\ UNCHANGED <<panic_rx_ready, vars>>

\* A plausible slip: the receivers are left once they are ready, and not marked.
PollResultRxForgets(t) ==
  /\ ph[t] = "result"
  /\ IF ~result_rx_ready[t] /\ ResultTx(t) = "sent"
       THEN Resolve(t, "Ok")
       ELSE Goto(t, IF panic_rx_ready[t] /\ result_rx_ready[t] THEN "none" ELSE "pending")
  /\ result_rx_ready' = [result_rx_ready EXCEPT ![t] = @ \/ ResultTx(t) # "open"]
  /\ UNCHANGED <<panic_rx_ready, vars>>

\* The result channel; both closed without a message is Err(None).
PollResultRx(t) ==
  /\ ph[t] = "result"
  /\ IF ~result_rx_ready[t] /\ ResultTx(t) = "sent"
       THEN Resolve(t, "Ok")
       ELSE Goto(t, IF panic_rx_ready[t] /\ (result_rx_ready[t] \/ ResultTx(t) # "open")
                      THEN "none" ELSE "pending")
  /\ result_rx_ready' = [result_rx_ready EXCEPT ![t] = @ \/ ResultTx(t) # "open"]
  /\ UNCHANGED <<panic_rx_ready, vars>>

\* task_canceller.is_cancelled()
ReadIsCancelled(t) ==
  /\ ph[t] = "none"
  /\ IF is_cancelled[t] THEN Resolve(t, "TaskCancelled") ELSE Goto(t, "flag")
  /\ UNCHANGED <<panic_rx_ready, result_rx_ready, vars>>

\* The match on worker_status.flag() for Err(None).
ReadFlag(t) ==
  /\ ph[t] = "flag"
  /\ Resolve(t, CASE flags = FLAG_ABORT_STARTED -> "WorkerAborted"
                  [] flags = FLAG_CANCEL_STARTED -> "WorkerCancelled"
                  [] flags = FLAG_TASK_PANICKED -> "PreviousTaskPanic"
                  [] OTHER -> "RuntimeShutdown")
  /\ UNCHANGED <<panic_rx_ready, result_rx_ready, vars>>

\* Poll::Pending: is a cancel of the worker under way?
ReadFlagPending(t) ==
  /\ ph[t] = "pending"
  /\ Goto(t, IF flags = FLAG_CANCEL_STARTED THEN "steal" ELSE "idle")
  /\ UNCHANGED <<panic_rx_ready, result_rx_ready, vars>>

\* A plausible slip: the poll waits for the worker to drop the payload.
StealNever(t) ==
  /\ ph[t] = "steal"
  /\ Goto(t, "idle")
  /\ UNCHANGED <<panic_rx_ready, result_rx_ready, vars>>

\* task_canceller.cancel(), not behind try_cancel: the upgrade.
StealUpgrade(t) ==
  /\ ph[t] = "steal"
  /\ Goto(t, IF Takeable(t) THEN "holding" ELSE "idle")
  /\ stealing' = IF Takeable(t) THEN stealing \cup {t} ELSE stealing
  /\ UNCHANGED <<panic_rx_ready, result_rx_ready, task, cx, is_cancelled, cancelAside>>

\* The take; is_cancelled of this task is read by no one else, so its store is part of
\* the step.
StealTake(t) ==
  /\ ph[t] = "holding"
  /\ stealing' = stealing \ {t}
  /\ IF Takeable(t)
       THEN /\ task' = [task EXCEPT ![t] = "cancelled"]
            /\ is_cancelled' = [is_cancelled EXCEPT ![t] = TRUE]
            /\ Resolve(t, "WorkerCancelled")
       ELSE /\ Goto(t, "idle")
            /\ UNCHANGED <<task, is_cancelled>>
  /\ UNCHANGED <<panic_rx_ready, result_rx_ready, cx, cancelAside>>

PollRuns(t) ==
  \/ Unspawned(t) \/ StartPoll(t) \/ PollResultRx(t)
  \/ ReadIsCancelled(t) \/ ReadFlag(t) \/ ReadFlagPending(t)
  \/ StealUpgrade(t) \/ StealTake(t)

PollNext ==
  \/ Next /\ UNCHANGED pollVars
  \/ \E t \in Watched : PollRuns(t) \/ PollAgain(t)

PollSpec == PollInit /\ [][PollNext]_allVars

\* An executor polls what is fresh or woken; no one polls for the fun of it.
PollsRun == \A t \in Watched : WF_allVars(PollRuns(t))

PollFairSpec == PollSpec /\ CodeRuns /\ BlockingTasksEnd /\ AsyncTasksEnd /\ PollsRun

PollStuckSpec == PollSpec /\ CodeRuns /\ BlockingTasksEnd /\ PollsRun

-----------------------------------------------------------------------------
(***************************************************************************)
(* task_error.rs: what a TaskHandle resolves to is what happened.  Ok and  *)
(* TaskPanic are the task's own end; a previous panic is another task's,   *)
(* with its text if it has one; a canceller that is named returned true; an*)
(* abort and a cancel are the owner's, and a cancel does not stop a task   *)
(* that began, unless the runtime shuts down.  A shutdown is named that did*)
(* not happen only to the caller of a cancel() that has taken the payload  *)
(* (see the README), and a panic is passed over only if it is that of a    *)
(* blocking task that outlived its worker.                                 *)
(***************************************************************************)
OutcomeIsTrue ==
  \A t \in Watched :
    /\ out[t] = "Ok" => task[t] = "done"
    /\ out[t] = "TaskPanic" => task[t] = "panicked"
    /\ out[t] = "PreviousTaskPanic" =>
         \E p \in Begun \ {t} : task[p] \in {"unwound", "panicked"} /\ msg[t] = Text(p)
    /\ out[t] = "TaskCancelled" => cx[t] = "yes"
    /\ out[t] = "WorkerAborted" => op \in Aborts
    /\ out[t] = "WorkerCancelled" =>
         op \in Cancels /\ (t \in Begun => task[t] \in {"broken", "unwound"} /\ ~up)
    /\ out[t] = "RuntimeShutdown" => ~up \/ cx[t] \in {"won", "yes"}
    /\ IsCancelled(out[t]) /\ task[t] = "unwound" => t \in Blocking /\ wpc = "Cancelled"

(***************************************************************************)
(* task_error.rs: a task that another task's panic, a canceller or its     *)
(* spawner is blamed for did not begin, and never will.                    *)
(***************************************************************************)
BlamelessNeverBegins ==
  \A t \in Watched :
    out[t] \in {"PreviousTaskPanic", "TaskCancelled", "TaskSpawnerUnavailable"} => t \notin Begun

(***************************************************************************)
(* A task waits until it begins or can no longer begin, whoever has its    *)
(* payload; one whose panic is still to be reported is as good as broken.  *)
(***************************************************************************)
Life(t) ==
  CASE task[t] \in {"new", "failed", "queued", "kept", "taken"} -> "waiting"
    [] task[t] = "running" -> "running"
    [] task[t] = "done" -> "returned"
    [] task[t] \in {"unwound", "panicked", "broken"} -> "broken"
    [] OTHER -> "gone"

HandlePromise == INSTANCE TaskPromise WITH
  Handles <- Watched,
  BrokenAnswers <- {"TaskPanic", "WorkerAborted", "WorkerCancelled", "RuntimeShutdown"},
  GoneAnswers <- Kinds \ {"TaskPanic"},
  life <- [t \in Watched |-> Life(t)],
  answer <- out

(***************************************************************************)
(* task_handle.rs, poll: the handles implement TaskPromise, however polls, *)
(* the worker, cancellers, aborts and shutdowns interleave: one answer,    *)
(* after the end of the task, that fits it; and no task that begins, or is *)
(* run on, after its handle has answered.                                  *)
(***************************************************************************)
ImplementsTaskPromise == HandlePromise!TaskPromiseSpec

(***************************************************************************)
(* task_error.rs, is_cancelled: an error that says so is final.  When it is*)
(* given, the task does not run and is not to run, and it did not end in a *)
(* result or in a panic that its handle could have been given instead.     *)
(***************************************************************************)
CancelledMeansOver ==
  \A t \in Watched : IsCancelled(out[t]) =>
    Life(t) \in {"gone", "broken"} /\ task[t] # "panicked"

(***************************************************************************)
(* task_canceller.rs and task_handle.rs, cancel: a cancel() that returned  *)
(* true is what the handle reports, whatever abort, cancel, panic or       *)
(* shutdown comes before the poll, or came between the cancel's own look at*)
(* the flags and its take.  Only a poll that was past its look at          *)
(* is_cancelled before cancel() returned gets its reason from the flags.   *)
(***************************************************************************)
CancelIsReported ==
  [][\A t \in Watched : cx[t] = "yes" /\ ph[t] \notin {"flag", "done"} =>
       ph'[t] # "flag" /\ out'[t] \in {"none", "TaskCancelled"}]_allVars

(***************************************************************************)
(* task_error.rs, is_previous_task_panic: whoever is told of a panic before*)
(* its own task can count on the other handle.  The handle of the task that*)
(* panicked, polled before or after, says TaskPanic and nothing else.      *)
(***************************************************************************)
BlamedHandleTells ==
  \A t \in Watched : out[t] = "PreviousTaskPanic" =>
    \A p \in Watched : task[p] \in {"unwound", "panicked"} => out[p] = "none" \/ IsPanic(out[p])

(***************************************************************************)
(* worker.rs 422-429: a panic overwrites the flag of an abort that came    *)
(* before it.  Once a handle has given its user the panic, no other handle *)
(* gives one, or puts the blame on an abort or a shutdown of the runtime.  *)
(***************************************************************************)
PanicIsKnown ==
  [][\A p, t \in Watched : IsPanic(out[p]) /\ out[t] = "none" =>
       ~IsPanic(out'[t]) /\ out'[t] \notin {"WorkerAborted", "RuntimeShutdown"}]_allVars

(***************************************************************************)
(* A handle that waits has its waker in a channel that has not been told of*)
(* yet and whose sender is with someone who will use or drop it: the       *)
(* receiver, a canceller or a poll that goes on, the closure, the worker   *)
(* that has a panic to report.                                             *)
(***************************************************************************)
NoWakeupLost ==
  \A t \in Watched :
    /\ ph[t] = "idle" =>
         \/ Woken(t)
         \/ task[t] = "queued" /\ ~ReceiverGone
         \/ task[t] = "kept" /\ Upgraded(t)
         \/ task[t] \in {"taken", "running"}
         \/ cur = t /\ wpc \in {"blocking", "set_msg", "set_flag", "send_panic"}
    /\ t \in stealing => ph[t] = "holding"

(***************************************************************************)
(* A TaskHandle that is awaited resolves, if every task ends: no wake-up is*)
(* lost and no channel stays open without an owner.                        *)
(***************************************************************************)
HandleResolves == \A t \in Watched : HasCanceller(t) ~> out[t] # "none"

(***************************************************************************)
(* task_handle.rs 217: a cancelled worker finishes the task at hand first, *)
(* so the handle of a task behind it cancels that task itself.  A handle   *)
(* first polled after the cancel resolves even if the task at hand never   *)
(* ends, unless its own task begins.                                       *)
(***************************************************************************)
LatePollResolves ==
  \A t \in Watched :
    flags = FLAG_CANCEL_STARTED /\ task[t] = "queued" /\ ph[t] = "fresh"
      ~> out[t] # "none" \/ t \in Begun

-----------------------------------------------------------------------------
(* What the documentation says and the code does not do.                    *)

(***************************************************************************)
(* task_error.rs 504: RuntimeShutdown means that the Tokio runtime shut    *)
(* down.                                                                   *)
(***************************************************************************)
ShutdownErrorMeansShutdown == \A t \in Watched : out[t] = "RuntimeShutdown" => ~up

(***************************************************************************)
(* task_error.rs 271-274: the handle of a blocking task that was already   *)
(* running when the worker was aborted does not return WorkerAborted.      *)
(***************************************************************************)
DetachedIsNotAborted ==
  \A t \in Watched \cap Blocking : out[t] = "WorkerAborted" => t \notin Begun

(***************************************************************************)
(* task_handle.rs 217-220: without a cancel of the task by its own handle, *)
(* the handles of the tasks behind the one at hand would not resolve until *)
(* that task completes.  So they do: once the worker is cancelled, the     *)
(* handle of a queued task that is awaited resolves.                       *)
(***************************************************************************)
CancelResolvesQueued ==
  \A t \in Watched :
    flags = FLAG_CANCEL_STARTED /\ task[t] = "queued" ~> out[t] # "none" \/ t \in Begun
=============================================================================
