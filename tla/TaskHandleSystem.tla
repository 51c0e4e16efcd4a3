-------------------------- MODULE TaskHandleSystem --------------------------
(***************************************************************************)
(* Proofs about TaskHandle and the system under it together: the polls,    *)
(* which take payloads of their own accord, leave everything intact that   *)
(* was proved about the system without them; what a handle says is true;   *)
(* and a handle that waits will be woken.                                  *)
(***************************************************************************)
EXTENDS TaskHandleProof, AsyncSequentialProgress

USE DEF statusVars, channelVars, mutexVars, workerVars, tokioVars, handleVars, cancellerVars,
        aside, senderAside, cancelAside, handleAside, ReceiverGone, Stopping, Ends,
        Awaits, Steps, Flags, TaskStatus, StatusTypeOK, FLAG_OTHER, FLAG_ABORT_STARTED,
        FLAG_CANCEL_STARTED, FLAG_TASK_PANICKED, Aborts, Cancels, Joins, JoinErrors

USE NoTaskAssumption, ConstantsAssumption

-----------------------------------------------------------------------------
(* The system under the polls.                                              *)

\* What a poll does to the system, by the two steps that do anything to it.
LEMMA PollTouches ==
  ASSUME PollInv, NEW t \in Watched, PollRuns(t) \/ PollAgain(t)
  PROVE  /\ UNCHANGED <<cx, cancelAside>>
         /\ \/ UNCHANGED <<task, is_cancelled, stealing>>
            \/ /\ UNCHANGED <<task, is_cancelled>>
               /\ stealing' = stealing \cup {t} /\ ph'[t] = "holding"
            \/ /\ ph[t] = "holding" /\ stealing' = stealing \ {t} /\ ~Takeable(t)
               /\ UNCHANGED <<task, is_cancelled>>
            \/ /\ ph[t] = "holding" /\ stealing' = stealing \ {t} /\ Takeable(t)
               /\ task' = [task EXCEPT ![t] = "cancelled"]
               /\ is_cancelled' = [is_cancelled EXCEPT ![t] = TRUE]
               /\ out'[t] = "WorkerCancelled"
<1> USE DEF PollInv
<1>1. CASE Unspawned(t) \/ ReadIsCancelled(t) \/ ReadFlag(t) \/ ReadFlagPending(t)
  BY <1>1 DEF Unspawned, UnspawnedReason, ReadIsCancelled, ReadFlag, ReadFlagPending, vars
<1>2. CASE StartPoll(t) \/ PollAgain(t) \/ PollResultRx(t)
  BY <1>2 DEF StartPoll, PollAgain, PollPanicRx, PollResultRx, vars
<1>3. CASE StealUpgrade(t)
  BY <1>3 DEF StealUpgrade, Goto, PollTypeOK
<1>4. CASE StealTake(t)
  <2>1. UNCHANGED <<cx, cancelAside>> /\ ph[t] = "holding" /\ stealing' = stealing \ {t}
    BY <1>4 DEF StealTake
  <2>2. CASE ~Takeable(t)
    <3>1. UNCHANGED <<task, is_cancelled>>
      BY <1>4, <2>2, Zenon DEF StealTake
    <3> QED
      BY <2>1, <2>2, <3>1
  <2>3. CASE Takeable(t)
    <3>1. /\ task' = [task EXCEPT ![t] = "cancelled"]
          /\ is_cancelled' = [is_cancelled EXCEPT ![t] = TRUE]
          /\ Resolve(t, "WorkerCancelled")
      BY <1>4, <2>3, Zenon DEF StealTake
    <3>2. out'[t] = "WorkerCancelled"
      BY <3>1 DEF Resolve, PollTypeOK
    <3> QED
      BY <2>1, <2>3, <3>1, <3>2
  <2> QED
    BY <2>2, <2>3
<1> QED
  BY <1>1, <1>2, <1>3, <1>4 DEF PollRuns

\* In every step the system goes on by itself, a poll does, or nothing does.
LEMMA WholeStep ==
  ASSUME [PollNext]_allVars
  PROVE  ([Next]_vars /\ UNCHANGED pollVars) \/ \E t \in Watched : PollRuns(t) \/ PollAgain(t)
BY DEF PollNext, allVars

\* Whoever is waited for is there, whatever the polls take.
LEMMA PollWaits ==
  ASSUME PollInv, WaitInv, NEW t \in Watched, PollRuns(t) \/ PollAgain(t)
  PROVE  WaitInv'
<1>1. UNCHANGED <<cx, cancelAside>> /\ t \in Tasks /\ task \in [Tasks -> TaskStatus]
  BY PollTouches, WatchedAreTasks DEF PollInv, IInv, TypeOK
<1>2. CASE task' = task
  <2>1. stealing' \in {stealing, stealing \cup {t}} \/ (stealing' = stealing \ {t} /\ ~Takeable(t))
    <3>1. task' = [task EXCEPT ![t] = "cancelled"] /\ Takeable(t) => task' # task
      BY <1>1 DEF Takeable
    <3> QED
      BY <1>2, <3>1, PollTouches
  <2>2. \A u \in Tasks : task[u] = "kept" /\ u \in stealing => u \in stealing'
    BY <2>1 DEF Takeable
  <2> QED
    BY <1>1, <1>2, <2>2 DEF WaitInv, Upgraded
<1>3. CASE task' # task
  <2>1. /\ task' = [task EXCEPT ![t] = "cancelled"] /\ Takeable(t)
        /\ stealing' = stealing \ {t}
    BY <1>3, PollTouches
  <2>2. /\ \A u \in Tasks : task'[u] = "kept" => task[u] = "kept" /\ u # t
        /\ \A u \in Tasks : task[u] \in {"taken", "running"} => task'[u] = task[u]
    BY <1>1, <2>1 DEF Takeable
  <2> QED
    BY <1>1, <2>1, <2>2 DEF WaitInv, Upgraded
<1> QED
  BY <1>2, <1>3

\* Only cancellers cancel, and what they did they do not take back.
LEMMA CancellersAlone ==
  ASSUME PollInv, [Next]_vars
  PROVE  /\ stealing' = stealing
         /\ ~up => ~up'
         /\ \A t \in Tasks :
              /\ task'[t] = "cancelled" => task[t] = "cancelled" \/ cx'[t] \in {"won", "yes"}
              /\ is_cancelled'[t] => is_cancelled[t] \/ cx'[t] = "yes"
              /\ cx[t] = "yes" => cx'[t] = "yes"
              /\ cx[t] = "won" => cx'[t] \in {"won", "yes"}
<1>1. /\ task \in [Tasks -> TaskStatus] /\ is_cancelled \in [Tasks -> BOOLEAN]
      /\ cx \in [Tasks -> {"idle", "armed", "held", "won", "yes"}]
  BY DEF PollInv, IInv, TypeOK
<1>2. CASE Loop
  BY <1>1, <1>2 DEF Loop, Recv, RecvClosed, ObserveCancel, PassFlag, TakeTask, SkipCancelled,
     StartAsync, StartBlocking, StartBlockingShutdown, BlockingReturned, BlockingPanicked,
     BlockingLost, SetMsg, SetFlag, SendPanic, ReturnErr, NextTask, DestroyLocals
<1>3. CASE AsyncBody \/ Pool \/ PoolBody
  BY <1>1, <1>3 DEF AsyncBody, Pool, PoolBody, AsyncReturns, AsyncPanics, PoolStart, PoolRefuse,
     PoolShutdown, PoolReturns, PoolPanics, NextTask
<1>4. CASE Drops \/ CompleteJoinHandle \/ Shutdown
  BY <1>1, <1>4 DEF Drops, DropAtRecv, DropInAsync, DropInBlocking, CompleteJoinHandle, Shutdown,
     DestroyLocals
<1>5. CASE SenderNext
  BY <1>1, <1>5 DEF SenderNext, Submit, SubmitFails, SubmitUnavailable, ReportSendError, NewSpawner,
     DropSpawner
<1>6. CASE CancellerNext
  BY <1>1, <1>6 DEF CancellerNext, CancelRuns, CancelReadFlag, CancelUpgrade, CancelTake,
     CancelStore, Takeable
<1>7. CASE HandleNext
  BY <1>1, <1>7 DEF HandleNext, HandleRuns, JoinRuns, CloseSenders, Consume, CheckFinished,
     TrySetAbort, TrySetCancel, AbortWorker, CloseAll, DropSenders, JoinAwait, JoinLock,
     JoinTake, JoinReport, DropJoin
<1>8. CASE UNCHANGED vars
  BY <1>8 DEF vars
<1> QED
  BY <1>2, <1>3, <1>4, <1>5, <1>6, <1>7, <1>8 DEF Next, WorkerNext

-----------------------------------------------------------------------------
(* The second layer.                                                        *)

\* A poll finds out why there is neither a result nor a panic.
LEMMA ReadFlagBlames ==
  ASSUME PollInv, NEW t \in Watched, Blame(t), ph[t] = "flag", flags = FLAG_OTHER
  PROVE  ~up \/ cx[t] \in {"won", "yes"}
<1>1. /\ t \in Tasks /\ NoPanicToCome(t) /\ NoResultToCome(t) /\ out[t] = "none"
  BY WatchedAreTasks DEF PollInv, LookInv, Look, PollTypeOK
<1>2. CASE task[t] = "cancelled"
  BY <1>1, <1>2 DEF Blame
<1>3. CASE task[t] # "cancelled"
  <2>1. task[t] \in {"unwound", "dropped", "broken"} /\ cur # t
    BY <1>1, <1>3 DEF NoPanicToCome, NoResultToCome
  <2>2. wpc \in {"Err", "Cancelled"}
    BY <1>1, <2>1 DEF PollInv, IInv, CleanInv
  <2>3. wpc = "Err" => ~up
    BY DEF PollInv, IInv, BlameInv
  <2>4. wpc = "Cancelled" => ~up
    BY DEF PollInv, IInv, FlagInv
  <2> QED
    BY <2>2, <2>3, <2>4
<1> QED
  BY <1>2, <1>3

\* What a handle comes to blame is to blame.
LEMMA PollBlames ==
  ASSUME PollInv, PollInv', NEW t \in Watched, PollRuns(t) \/ PollAgain(t), Blame(t)
  PROVE  Blame(t)'
<1> USE DEF PollInv
<1>1. UNCHANGED <<cx, cancelAside>> /\ t \in Tasks
  BY PollTouches, WatchedAreTasks
<1>2. out[t] = "none" /\ ph[t] # "done"
  BY DEF PollRuns, PollAgain, Unspawned, UnspawnedReason, StartPoll, PollResultRx, ReadIsCancelled,
     ReadFlag, ReadFlagPending, StealUpgrade, StealTake, PollTypeOK
<1>3. out'[t] # "WorkerCancelled" => UNCHANGED <<task, is_cancelled>>
  BY PollTouches
<1>4. CASE Unspawned(t)
  <2>1. PICK outcome \in {"PreviousTaskPanic", "RuntimeShutdown", "TaskSpawnerUnavailable"} :
          Resolve(t, outcome) /\ (outcome = "RuntimeShutdown" => task[t] = "refused_shutdown")
    BY <1>4 DEF Unspawned, UnspawnedReason
  <2>2. out'[t] = outcome
    BY <2>1 DEF Resolve, PollTypeOK
  <2>3. outcome = "RuntimeShutdown" => ~up
    BY <1>1, <2>1 DEF IInv, BlameInv
  <2> QED
    BY <1>1, <1>2, <1>3, <2>1, <2>2, <2>3 DEF Blame
<1>5. CASE ReadIsCancelled(t)
  <2>1. out'[t] = "none" \/ (out'[t] = "TaskCancelled" /\ is_cancelled[t])
    BY <1>2, <1>5 DEF ReadIsCancelled, Resolve, Goto, PollTypeOK
  <2> QED
    BY <1>1, <1>2, <1>3, <2>1 DEF Blame
<1>6. CASE ReadFlag(t)
  <2>1. PICK outcome \in {"WorkerAborted", "WorkerCancelled", "PreviousTaskPanic", "RuntimeShutdown"} :
        Resolve(t, outcome) /\ (outcome = "RuntimeShutdown" => flags = FLAG_OTHER)
    BY <1>6 DEF ReadFlag, IInv, TypeOK
  <2>2. out'[t] = outcome /\ ph[t] = "flag"
    BY <1>6, <2>1 DEF Resolve, PollTypeOK, ReadFlag
  <2>3. outcome = "RuntimeShutdown" => ~up \/ cx[t] \in {"won", "yes"}
    BY <2>1, <2>2, ReadFlagBlames
  <2>4. UNCHANGED <<task, is_cancelled>>
    BY <1>6 DEF ReadFlag, vars
  <2> QED
    BY <1>1, <1>2, <2>1, <2>2, <2>3, <2>4 DEF Blame
<1>7. CASE PollPanicRx(t) \/ PollResultRx(t) \/ ReadFlagPending(t) \/ StealUpgrade(t) \/ StealTake(t)
  <2>1. out'[t] \in {"none", "TaskPanic", "Ok", "WorkerCancelled"}
    BY <1>2, <1>7 DEF PollPanicRx, PollResultRx, ReadFlagPending, StealUpgrade, StealTake, Resolve,
       Goto, PollTypeOK
  <2> QED
    BY <1>1, <1>2, <1>3, <2>1 DEF Blame
<1> QED
  BY <1>4, <1>5, <1>6, <1>7 DEF PollRuns, PollAgain, StartPoll

\* Where a poll goes that has to wait.
LEMMA PollAwaits ==
  ASSUME PollInv, NEW t \in Watched, PollRuns(t) \/ PollAgain(t), Wait(t)
  PROVE  Wait(t)'
<1> USE DEF PollInv
<1>1. t \in stealing => ph[t] = "holding"
  BY DEF Wait
<1>2. CASE Unspawned(t) \/ ReadFlag(t) \/ ReadIsCancelled(t)
  <2>1. ph'[t] \in {"done", "flag"} /\ ph[t] # "holding" /\ stealing' = stealing
    BY <1>2 DEF Unspawned, UnspawnedReason, ReadFlag, ReadIsCancelled, Resolve, Goto, PollTypeOK, vars
  <2> QED
    BY <1>1, <2>1 DEF Wait
<1>3. CASE StartPoll(t) \/ PollAgain(t)
  <2>1. ph'[t] \in {"done", "result"} /\ ph[t] # "holding" /\ stealing' = stealing
    BY <1>3 DEF StartPoll, PollAgain, PollPanicRx, Resolve, Goto, PollTypeOK, vars
  <2> QED
    BY <1>1, <2>1 DEF Wait
<1>4. CASE PollResultRx(t)
  <2>1. /\ ph[t] = "result" /\ UNCHANGED <<stealing, panic_rx_ready>>
        /\ result_rx_ready' = [result_rx_ready EXCEPT ![t] = @ \/ ResultTx(t) # "open"]
    BY <1>4 DEF PollResultRx, vars
  <2>2. ph'[t] \in {"done", "none"} \/ (ph'[t] = "pending" /\
          ~(panic_rx_ready[t] /\ (result_rx_ready[t] \/ ResultTx(t) # "open")))
    BY <1>4 DEF PollResultRx, Resolve, Goto, PollTypeOK
  <2>3. result_rx_ready'[t] => result_rx_ready[t] \/ ResultTx(t) # "open"
    BY <2>1 DEF PollTypeOK
  <2> QED
    BY <1>1, <2>1, <2>2, <2>3 DEF Wait
<1>5. CASE ReadFlagPending(t)
  <2>1. /\ ph[t] = "pending" /\ ph'[t] \in {"steal", "idle"}
        /\ UNCHANGED <<stealing, panic_rx_ready, result_rx_ready>>
    BY <1>5 DEF ReadFlagPending, Goto, PollTypeOK, vars
  <2> QED
    BY <1>1, <2>1 DEF Wait
<1>6. CASE StealUpgrade(t)
  <2>1. ph[t] = "steal" /\ UNCHANGED <<panic_rx_ready, result_rx_ready>>
    BY <1>6 DEF StealUpgrade
  <2>2. \/ ph'[t] = "holding"
        \/ ph'[t] = "idle" /\ stealing' = stealing
    BY <1>6 DEF StealUpgrade, Goto, PollTypeOK
  <2> QED
    BY <1>1, <2>1, <2>2 DEF Wait
<1>7. CASE StealTake(t)
  <2>1. /\ ph[t] = "holding" /\ UNCHANGED <<panic_rx_ready, result_rx_ready>>
        /\ t \notin stealing'
    BY <1>7 DEF StealTake
  <2> QED
    BY <2>1 DEF Wait
<1> QED
  BY <1>2, <1>3, <1>4, <1>5, <1>6, <1>7 DEF PollRuns

\* A handle that does not move: the others leave its payload and its canceller alone.
LEMMA BystanderBlames ==
  ASSUME PollInv, [PollNext]_allVars, NEW t \in Watched, ~PollRuns(t), ~PollAgain(t),
         Blame(t), Wait(t)
  PROVE  Blame(t)' /\ Wait(t)'
<1>1. t \in Tasks /\ task \in [Tasks -> TaskStatus] /\ is_cancelled \in [Tasks -> BOOLEAN]
  BY WatchedAreTasks DEF PollInv, IInv, TypeOK
<1>2. CASE [Next]_vars /\ UNCHANGED pollVars
  <2>1. /\ ph' = ph /\ out' = out /\ panic_rx_ready' = panic_rx_ready
        /\ result_rx_ready' = result_rx_ready
    BY <1>2 DEF pollVars
  <2>2. /\ stealing' = stealing
        /\ ~up => ~up'
        /\ task'[t] = "cancelled" => task[t] = "cancelled" \/ cx'[t] \in {"won", "yes"}
        /\ is_cancelled'[t] => is_cancelled[t] \/ cx'[t] = "yes"
        /\ cx[t] = "yes" => cx'[t] = "yes"
        /\ cx[t] = "won" => cx'[t] \in {"won", "yes"}
    BY <1>1, <1>2, CancellersAlone
  <2>3. Blame(t)'
    BY <2>1, <2>2 DEF Blame
  <2>4. Wait(t)'
    BY <2>1, <2>2 DEF Wait
  <2> QED
    BY <2>3, <2>4
<1>3. ASSUME NEW u \in Watched, u # t, PollRuns(u) \/ PollAgain(u)
      PROVE  Blame(t)' /\ Wait(t)'
  <2>1. /\ ph'[t] = ph[t] /\ out'[t] = out[t] /\ panic_rx_ready'[t] = panic_rx_ready[t]
        /\ result_rx_ready'[t] = result_rx_ready[t]
    BY <1>3, PollKeeps DEF After
  <2>2. cx' = cx /\ up' = up
    BY <1>3, PollTouches
  <2>3. /\ task'[t] = task[t] /\ is_cancelled'[t] = is_cancelled[t]
        /\ t \in stealing' => t \in stealing
    BY <1>1, <1>3, PollTouches
  <2>4. Blame(t)'
    BY <2>1, <2>2, <2>3 DEF Blame
  <2>5. Wait(t)'
    BY <2>1, <2>3 DEF Wait
  <2> QED
    BY <2>4, <2>5
<1> QED
  BY <1>2, <1>3, WholeStep

\* No one is to blame and no one waits.
LEMMA InitWhole == PollInit => WholeInv
<1> SUFFICES ASSUME PollInit PROVE WholeInv
  OBVIOUS
<1>1. PollInv /\ WaitInv /\ TakenInv
  BY InitPollInv, InitWait, InitTaken DEF PollInit
<1>2. stealing = {} /\ \A t \in Watched : Blame(t) /\ Wait(t)
  BY WatchedAreTasks DEF PollInit, Init, Blame, Wait
<1> QED
  BY <1>1, <1>2 DEF WholeInv

\* Whatever moves.
LEMMA StepWhole == WholeInv /\ [PollNext]_allVars => WholeInv'
<1> SUFFICES ASSUME WholeInv, [PollNext]_allVars
             PROVE  WholeInv'
  OBVIOUS
<1>1. PollInv /\ PollInv'
  BY StepPollInv DEF WholeInv
<1>2. WaitInv' /\ TakenInv' /\ stealing' \subseteq Watched
  <2>1. CASE [Next]_vars
    BY <1>1, <2>1, StepWaits, StepTaken, CancellersAlone DEF WholeInv, PollInv
  <2>2. ASSUME NEW t \in Watched, PollRuns(t) \/ PollAgain(t)
        PROVE  WaitInv' /\ TakenInv' /\ stealing' \subseteq Watched
    <3>1. WaitInv'
      BY <1>1, <2>2, PollWaits DEF WholeInv
    <3>2. UNCHANGED cancelAside /\ stealing' \subseteq stealing \cup {t}
      BY <1>1, <2>2, PollTouches
    <3>3. TakenInv' /\ stealing' \subseteq Watched
      BY <3>2 DEF TakenInv, WholeInv
    <3> QED
      BY <3>1, <3>3
  <2> QED
    BY <2>1, <2>2, WholeStep
<1>3. ASSUME NEW t \in Watched
      PROVE  Blame(t)' /\ Wait(t)'
  <2>1. Blame(t) /\ Wait(t)
    BY DEF WholeInv
  <2> QED
    BY <1>1, <2>1, PollBlames, PollAwaits, BystanderBlames
<1> QED
  BY <1>1, <1>2, <1>3 DEF WholeInv

(***************************************************************************)
(* WholeInv, all layers of the system and of the polls together, holds in  *)
(* every execution, however polls, the worker, cancellers, the owner and   *)
(* the runtime interleave.                                                 *)
(***************************************************************************)
THEOREM WholeHolds == PollSpec => []WholeInv
<1> QED
  BY InitWhole, StepWhole, PTL DEF PollSpec

-----------------------------------------------------------------------------
(* What a handle says, and whom it waits for.                               *)

\* A handle that gives a reason gives the true one.
LEMMA OutcomeIsTrueFollows == WholeInv => OutcomeIsTrue
<1> SUFFICES ASSUME WholeInv, NEW t \in Watched
             PROVE  /\ out[t] = "Ok" => task[t] = "done"
                    /\ out[t] = "TaskPanic" => task[t] = "panicked"
                    /\ out[t] = "PreviousTaskPanic" =>
                         \E p \in Begun \ {t} : task[p] \in {"unwound", "panicked"} /\ msg[t] = Text(p)
                    /\ out[t] = "TaskCancelled" => cx[t] = "yes"
                    /\ out[t] = "WorkerAborted" => op \in Aborts
                    /\ out[t] = "WorkerCancelled" =>
                         op \in Cancels /\ (t \in Begun => task[t] \in {"broken", "unwound"} /\ ~up)
                    /\ out[t] = "RuntimeShutdown" => ~up \/ cx[t] \in {"won", "yes"}
                    /\ IsCancelled(out[t]) /\ task[t] = "unwound" => t \in Blocking /\ wpc = "Cancelled"
  BY DEF OutcomeIsTrue
<1>1. PollInv /\ Said(t) /\ Blame(t) /\ t \in Tasks
  BY WatchedAreTasks DEF WholeInv, PollInv, SaidInv
<1>2. \A p \in Tasks : task[p] \in {"unwound", "panicked"} => p \in Begun
  BY <1>1 DEF PollInv, ShownInv
<1>3. t \in Begun => task[t] \in {"running", "done", "unwound", "panicked", "broken"}
  BY <1>1 DEF PollInv, LineInv, BegunInv, Begun, Range
<1>4. out[t] = "WorkerCancelled" /\ t \in Begun => task[t] \in {"broken", "unwound"}
  BY <1>1, <1>3 DEF Said, IsCancelled, Refused, NoPanicToCome, NoResultToCome
<1>5. IsCancelled(out[t]) /\ task[t] = "unwound" => cur # t
  BY <1>1 DEF Said, Refused, NoPanicToCome
<1>6. IsCancelled(out[t]) /\ task[t] = "unwound" => t \in Blocking /\ wpc = "Cancelled"
  BY <1>1, <1>5 DEF PollInv, IInv, CleanInv
<1>7. out[t] = "PreviousTaskPanic" =>
        \E p \in Begun \ {t} : task[p] \in {"unwound", "panicked"} /\ msg[t] = Text(p)
  BY <1>1, <1>2 DEF Said
<1>8. /\ out[t] = "TaskCancelled" => cx[t] = "yes"
      /\ out[t] = "RuntimeShutdown" => ~up \/ cx[t] \in {"won", "yes"}
  BY <1>1 DEF Blame
<1> QED
  BY <1>1, <1>4, <1>6, <1>7, <1>8 DEF Said

(***************************************************************************)
(* What a TaskHandle resolves to is what happened, for any tasks watched.  *)
(***************************************************************************)
THEOREM OutcomeIsTrueHolds == PollSpec => []OutcomeIsTrue
<1> QED
  BY OutcomeIsTrueFollows, WholeHolds, PTL

\* One of its channels is open, and so has an owner.
LEMMA NoWakeupLostFollows == WholeInv => NoWakeupLost
<1> SUFFICES ASSUME WholeInv, NEW t \in Watched
             PROVE  /\ ph[t] = "idle" =>
                         \/ Woken(t)
                         \/ task[t] = "queued" /\ ~ReceiverGone
                         \/ task[t] = "kept" /\ Upgraded(t)
                         \/ task[t] \in {"taken", "running"}
                         \/ cur = t /\ wpc \in {"blocking", "set_msg", "set_flag", "send_panic"}
                    /\ t \in stealing => ph[t] = "holding"
  BY DEF NoWakeupLost
<1>1. IInv /\ WaitInv /\ Wait(t) /\ t \in Tasks
  BY WatchedAreTasks DEF WholeInv, PollInv
<1>2. task[t] = "queued" => ~ReceiverGone
  BY <1>1 DEF IInv, ChannelInv
<1>3. task[t] = "kept" => Upgraded(t)
  BY <1>1 DEF WaitInv
<1>4. ASSUME ph[t] = "idle", ~Woken(t)
      PROVE  \/ task[t] \in {"queued", "kept", "taken", "running"}
             \/ cur = t /\ wpc \in {"blocking", "set_msg", "set_flag", "send_panic"}
  <2>1. PanicTx(t) = "open" \/ ResultTx(t) = "open"
    BY <1>1, <1>4 DEF Wait, Woken
  <2>2. ResultTx(t) = "open" => task[t] \in {"queued", "kept", "taken", "running"}
    BY DEF ResultTx
  <2>3. PanicTx(t) = "open" => Takeable(t) \/
          (cur = t /\ wpc \in {"recv", "start", "async", "blocking", "set_msg", "set_flag", "send_panic"})
    BY DEF PanicTx
  <2>4. cur = t /\ wpc \in {"recv", "start", "async"} => task[t] \in {"taken", "running"}
    BY <1>1 DEF IInv, HandsInv
  <2> QED
    BY <2>1, <2>2, <2>3, <2>4 DEF Takeable
<1>5. t \in stealing => ph[t] = "holding"
  BY <1>1 DEF Wait
<1> QED
  BY <1>2, <1>3, <1>4, <1>5

(***************************************************************************)
(* No handle waits for a channel that no one will use or close.            *)
(***************************************************************************)
THEOREM NoWakeupLostHolds == PollSpec => []NoWakeupLost
<1> QED
  BY NoWakeupLostFollows, WholeHolds, PTL

-----------------------------------------------------------------------------
(* What the system promised without the polls.                              *)

\* The safety properties of AsyncSequential, in one.
SystemIsSafe ==
  /\ Exclusive /\ InOrder /\ CleanJoin /\ PanicReachesJoin /\ BlameIsTrue /\ NoPanicOfItsOwn
  /\ StateIsThere /\ CancelledNeverBegins /\ CancelledQueueNeverStarts /\ NoOneWaitsInVain

(***************************************************************************)
(* TaskHandles may be polled, and cancel their own tasks in their polls,   *)
(* as they like: mutual exclusion, order, what joins, sends and cancels    *)
(* say, and that no one waits in vain, are as without them.                *)
(***************************************************************************)
THEOREM SystemIsSafeUnderPolls == PollSpec => []SystemIsSafe
<1>1. WholeInv => SystemIsSafe
  <2> SUFFICES ASSUME WholeInv PROVE SystemIsSafe
    OBVIOUS
  <2>1. IInv /\ LineInv /\ WaitInv
    BY DEF WholeInv, PollInv
  <2>2. Exclusive /\ CleanJoin /\ PanicReachesJoin /\ BlameIsTrue /\ NoPanicOfItsOwn /\ StateIsThere
    BY <2>1, ExclusiveFollows, CleanJoinFollows, PanicReachesJoinFollows, BlameIsTrueFollows,
       NoPanicOfItsOwnFollows, StateIsThereFollows
  <2>3. InOrder /\ CancelledNeverBegins /\ CancelledQueueNeverStarts
    BY <2>1, InOrderFollows, CancelledNeverBeginsFollows, CancelledQueueNeverStartsFollows
  <2>4. NoOneWaitsInVain
    BY <2>1, NoOneWaitsInVainFollows
  <2> QED
    BY <2>2, <2>3, <2>4 DEF SystemIsSafe
<1> QED
  BY <1>1, WholeHolds, PTL

(***************************************************************************)
(* Nothing begins after a panic and the worker runs in no circles, with    *)
(* polls as without.                                                       *)
(***************************************************************************)
THEOREM StepsUnderPolls == PollSpec => NothingBeginsAfterPanic /\ WorkerAdvances
<1> DEFINE Quiet == (\E t \in Tasks : task[t] \in {"unwound", "panicked"}) => data' = data
           Advances == \/ UNCHANGED <<queue, wpc, cur, job, finished>>
                       \/ sent' # sent
                       \/ StepsLeft' < StepsLeft
<1>1. WholeInv /\ [PollNext]_allVars => [Quiet]_vars /\ [Advances]_vars
  <2> SUFFICES ASSUME WholeInv, [PollNext]_allVars PROVE Quiet /\ Advances
    OBVIOUS
  <2>1. PollInv /\ IInv
    BY DEF WholeInv, PollInv
  <2>2. CASE [Next]_vars
    BY <2>1, <2>2, StepBeginsNothingAfterPanic, StepAdvances
  <2>3. ASSUME NEW t \in Watched, PollRuns(t) \/ PollAgain(t)
        PROVE  Quiet /\ Advances
    BY <2>3, PollsSpare
  <2> QED
    BY <2>2, <2>3, WholeStep
<1> QED
  BY <1>1, WholeHolds, PTL DEF PollSpec, NothingBeginsAfterPanic, WorkerAdvances

\* For the promise, a payload that a poll takes has left the line.
LEMMA PollIsPromised ==
  ASSUME PollInv, PollInv', NEW t \in Watched, PollRuns(t) \/ PollAgain(t)
  PROVE  Promised
<1>1. UNCHANGED <<sent, data, hres>> /\ t \in Tasks /\ task \in [Tasks -> TaskStatus]
  BY PollsSpare, WatchedAreTasks DEF PollInv, IInv, TypeOK
<1>2. task' = task \/ (task' = [task EXCEPT ![t] = "cancelled"] /\ Takeable(t))
  BY PollTouches
<1>3. \A u \in Tasks : task'[u] = task[u] \/ (task'[u] = "cancelled" /\ task[u] \in {"queued", "kept"})
  BY <1>1, <1>2 DEF Takeable
<1>4. \A u \in Tasks :
        /\ task'[u] = "running" <=> task[u] = "running"
        /\ task'[u] \in {"unwound", "panicked", "broken"} <=>
             task[u] \in {"unwound", "panicked", "broken"}
        /\ task'[u] \in {"queued", "taken"} => task[u] \in {"queued", "taken"}
  BY <1>3
<1> QED
  BY <1>1, <1>4, ShrinksPromised DEF PollInv

(***************************************************************************)
(* Under the polls the program still implements SequentialTasks.           *)
(***************************************************************************)
THEOREM ImplementsSequentialTasksUnderPolls == PollSpec => ImplementsSequentialTasks
<1> DEFINE SInit == Promise!PromiseInit
           SNext == Promise!PromiseNext
           svars == Promise!promiseVars
<1>1. PollInit => SInit
  BY InitPromised DEF PollInit
<1>2. WholeInv /\ WholeInv' /\ [PollNext]_allVars => [SNext]_svars
  <2> SUFFICES ASSUME WholeInv, WholeInv', [PollNext]_allVars PROVE Promised
    BY DEF Promised
  <2>1. CASE [Next]_vars
    BY <2>1, StepIsPromised DEF WholeInv, PollInv
  <2>2. ASSUME NEW t \in Watched, PollRuns(t) \/ PollAgain(t)
        PROVE  Promised
    BY <2>2, PollIsPromised DEF WholeInv
  <2> QED
    BY <2>1, <2>2, WholeStep
<1> HIDE DEF SInit, SNext, svars
<1>3. PollSpec => SInit /\ [][SNext]_svars
  BY <1>1, <1>2, WholeHolds, PTL DEF PollSpec
<1> QED
  BY <1>3 DEF ImplementsSequentialTasks, Promise!PromiseSpec, SInit, SNext, svars
=============================================================================
