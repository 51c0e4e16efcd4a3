---------------------------- MODULE TaskCanceller ---------------------------
(***************************************************************************)
(* TaskHandle::cancel and TaskCanceller::cancel: try_cancel reads the      *)
(* worker's flags, then TaskCancellerImpl::cancel upgrades its reference to*)
(* the OnceTake, takes the payload out of it and, if it got it, sets       *)
(* is_cancelled.  Four accesses to shared memory, four steps.  From the    *)
(* upgrade to the take the canceller owns the OnceTake along with the      *)
(* channel, so that what is in it outlives the channel.  A payload that is *)
(* taken is destroyed in the same step, and with it the result sender and  *)
(* the panic sender.  The take itself is the step that OnceTake implements.*)
(***************************************************************************)
EXTENDS WorkerState

cancelAside == <<statusVars, channelVars, data, mutexVars, workerVars, job, tokioVars,
                 handleVars, spawner>>

\* The spawn was accepted; otherwise the canceller is Noncancellable, and cancel() false.
HasCanceller(t) == t \in Range(sent)

\* try_cancel goes on only while no abort, cancel or panic shows in the flags.
CancelReadFlag(t) ==
  /\ cx[t] = "idle"
  /\ HasCanceller(t)
  /\ flags = FLAG_OTHER
  /\ cx' = [cx EXCEPT ![t] = "armed"]
  /\ UNCHANGED <<task, stealing, is_cancelled, cancelAside>>

\* task.upgrade(): someone still owns the OnceTake.  That it is owned and empty comes
\* to the same as that it is gone: cancel() is false.
CancelUpgrade(t) ==
  /\ cx[t] = "armed"
  /\ cx' = [cx EXCEPT ![t] = IF Takeable(t) THEN "held" ELSE "idle"]
  /\ UNCHANGED <<task, stealing, is_cancelled, cancelAside>>

\* A plausible slip: success is reported for a payload someone else has taken.
CancelTakeAlways(t) ==
  /\ cx[t] = "held"
  /\ task' = [task EXCEPT ![t] = IF Takeable(t) THEN "cancelled" ELSE @]
  /\ cx' = [cx EXCEPT ![t] = "won"]
  /\ UNCHANGED <<stealing, is_cancelled, cancelAside>>

\* is_some_and(|task| task.take().is_some()); on None cancel() is false.
CancelTake(t) ==
  /\ cx[t] = "held"
  /\ IF Takeable(t)
       THEN /\ task' = [task EXCEPT ![t] = "cancelled"]
            /\ cx' = [cx EXCEPT ![t] = "won"]
       ELSE /\ cx' = [cx EXCEPT ![t] = "idle"]
            /\ UNCHANGED task
  /\ UNCHANGED <<stealing, is_cancelled, cancelAside>>

\* A plausible slip: cancel() returns true and leaves no trace of it.
CancelForgets(t) ==
  /\ cx[t] = "won"
  /\ cx' = [cx EXCEPT ![t] = "yes"]
  /\ UNCHANGED <<task, stealing, is_cancelled, cancelAside>>

\* is_cancelled.store(true); cancel() returns true.
CancelStore(t) ==
  /\ cx[t] = "won"
  /\ is_cancelled' = [is_cancelled EXCEPT ![t] = TRUE]
  /\ cx' = [cx EXCEPT ![t] = "yes"]
  /\ UNCHANGED <<task, stealing, cancelAside>>

\* A call of cancel() that has passed the flags runs to its end.
CancelRuns(t) == CancelUpgrade(t) \/ CancelTake(t) \/ CancelStore(t)

CancellerNext == \E t \in Cancellable : CancelReadFlag(t) \/ CancelRuns(t)
=============================================================================
