---------------------- MODULE AsyncSequentialProgress -----------------------
(***************************************************************************)
(* Proofs that the parts of AsyncSequential do not wait in vain or run in  *)
(* circles, for any sets of tasks and spawners: what of its termination is *)
(* a matter of safety.                                                     *)
(***************************************************************************)
EXTENDS AsyncSequentialPromise

USE DEF statusVars, channelVars, mutexVars, workerVars, tokioVars, handleVars, cancellerVars,
        aside, senderAside, cancelAside, handleAside, ReceiverGone, Stopping, Ends,
        Awaits, Steps, Flags, TaskStatus, StatusTypeOK, FLAG_OTHER, FLAG_ABORT_STARTED,
        FLAG_CANCEL_STARTED, FLAG_TASK_PANICKED, Aborts, Cancels, Joins, JoinErrors

USE NoTaskAssumption, ConstantsAssumption

-----------------------------------------------------------------------------
(* Who waits, and for whom.                                                 *)

\* No one waits yet.
LEMMA InitWait == Init => WaitInv
BY DEF Init, WaitInv

\* A step of the loop, the pool or Tokio that leaves the job's task and those kept alone.
LEMMA SameWaits ==
  ASSUME WaitInv, UNCHANGED aside,
         \A t \in Tasks : task'[t] = "kept" => task[t] = "kept",
         job' \in {"queued", "running"} =>
           job' = job /\ \A t \in Blocking : task[t] \in {"taken", "running"} => task'[t] = task[t]
  PROVE  WaitInv'
BY DEF WaitInv, Upgraded

\* The worker's future is gone, with all that no canceller refers to.
LEMMA DestroyWaits ==
  ASSUME IInv, WaitInv, UNCHANGED aside, NEW end, NEW gone, DestroyLocals(end, gone),
         gone # "kept" \/ cur = NoTask,
         \/ job' = "none"
         \/ job' = job /\ (cur = NoTask \/ gone = task[cur])
  PROVE  WaitInv'
<1>1. \A t \in Tasks : task'[t] = "kept" => task[t] = "kept" \/ Upgraded(t)
  BY DEF DestroyLocals, IInv, TypeOK
<1>2. \A t \in Tasks : task[t] \in {"taken", "running"} /\ job' = job /\ job # "none" => task'[t] = task[t]
  BY DEF DestroyLocals, IInv, TypeOK
<1> QED
  BY <1>1, <1>2 DEF WaitInv, Upgraded

\* The loop.
LEMMA LoopWaits == ASSUME IInv, WaitInv, Loop PROVE WaitInv'
<1>0. /\ task \in [Tasks -> TaskStatus] /\ cur \in Tasks \cup {NoTask}
      /\ wpc \in {"recv"} \cup Ends <=> cur = NoTask
  BY DEF IInv, TypeOK, HandsInv
<1>1. CASE Recv \/ PassFlag \/ SkipCancelled \/ SetMsg \/ SetFlag
  BY <1>1, SameWaits DEF Recv, PassFlag, SkipCancelled, SetMsg, SetFlag
<1>2. CASE TakeTask \/ SendPanic \/ StartBlockingShutdown \/ BlockingReturned \/ BlockingPanicked
  <2>1. job' \notin {"queued", "running"}
    BY <1>2 DEF TakeTask, SendPanic, StartBlockingShutdown, BlockingReturned, BlockingPanicked,
       IInv, JobInv
  <2>2. \A t \in Tasks : task'[t] = "kept" => task[t] = "kept"
    BY <1>0, <1>2 DEF TakeTask, SendPanic, StartBlockingShutdown, BlockingReturned, BlockingPanicked
  <2> QED
    BY <1>2, <2>1, <2>2, SameWaits DEF TakeTask, SendPanic, StartBlockingShutdown, BlockingReturned,
       BlockingPanicked
<1>3. CASE StartBlocking
  <2>1. task[cur] = "taken" /\ cur \in Blocking
    BY <1>3 DEF StartBlocking, IInv, HandsInv
  <2> QED
    BY <1>3, <2>1 DEF StartBlocking, WaitInv, Upgraded
<1>4. CASE StartAsync
  <2>1. lock = "free" /\ present /\ job = "none"
    BY <1>4 DEF StartAsync, IInv, TypeOK, LockInv, JobInv, JoinInv
  <2>2. task' = [task EXCEPT ![cur] = "running"] /\ job' = job
    BY <1>4, <2>1, Zenon DEF StartAsync
  <2> QED
    BY <1>0, <1>4, <2>1, <2>2, SameWaits DEF StartAsync
<1>5. CASE RecvClosed
  BY <1>0, <1>5, DestroyWaits DEF RecvClosed
<1>6. CASE ObserveCancel \/ ReturnErr
  <2>1. job' = "none" /\ task[cur] # "kept"
    BY <1>0, <1>6 DEF ObserveCancel, ReturnErr, IInv, JobInv, HandsInv, CleanInv
  <2> QED
    BY <1>6, <2>1, DestroyWaits DEF ObserveCancel, ReturnErr
<1>7. CASE BlockingLost
  BY <1>7, DestroyWaits DEF BlockingLost
<1> QED
  BY <1>1, <1>2, <1>3, <1>4, <1>5, <1>6, <1>7 DEF Loop

\* The task at hand ends, or the closure goes on.
LEMMA BodyWaits == ASSUME IInv, WaitInv, AsyncBody \/ Pool \/ PoolBody PROVE WaitInv'
<1>0. task \in [Tasks -> TaskStatus]
  BY DEF IInv, TypeOK
<1>1. CASE AsyncBody
  <2>1. job' = "none" /\ \A t \in Tasks : task'[t] = "kept" => task[t] = "kept"
    BY <1>0, <1>1 DEF AsyncBody, AsyncReturns, AsyncPanics, IInv, JobInv
  <2> QED
    BY <1>1, <2>1, SameWaits DEF AsyncBody, AsyncReturns, AsyncPanics
<1>2. CASE PoolStart
  <2>1. PICK t \in Blocking : task[t] = "taken" /\ task' = [task EXCEPT ![t] = "running"]
    BY <1>2 DEF PoolStart
  <2> QED
    BY <1>0, <1>2, <2>1 DEF PoolStart, WaitInv, Upgraded
<1>3. CASE PoolRefuse \/ PoolShutdown \/ PoolBody
  <2>1. job' \notin {"queued", "running"} /\ \A t \in Tasks : task'[t] = "kept" => task[t] = "kept"
    BY <1>0, <1>3 DEF PoolRefuse, PoolShutdown, PoolBody, PoolReturns, PoolPanics
  <2> QED
    BY <1>3, <2>1, SameWaits DEF PoolRefuse, PoolShutdown, PoolBody, PoolReturns, PoolPanics
<1> QED
  BY <1>1, <1>2, <1>3 DEF Pool

\* Tokio.
LEMMA TokioWaits == ASSUME IInv, WaitInv, Drops \/ CompleteJoinHandle \/ Shutdown PROVE WaitInv'
<1>1. CASE DropAtRecv
  BY <1>1, DestroyWaits DEF DropAtRecv, IInv, HandsInv
<1>2. CASE DropInAsync
  BY <1>2, DestroyWaits DEF DropInAsync, IInv, JobInv
<1>3. CASE DropInBlocking
  <2>1. task[cur] # "kept"
    BY <1>3 DEF DropInBlocking, IInv, JobInv, TypeOK, HandsInv, CleanInv
  <2> QED
    BY <1>3, <2>1, DestroyWaits DEF DropInBlocking
<1>4. CASE CompleteJoinHandle \/ Shutdown
  BY <1>4, SameWaits DEF CompleteJoinHandle, Shutdown
<1> QED
  BY <1>1, <1>2, <1>3, <1>4 DEF Drops

\* A new spawner needs a handle that is not given up.
LEMMA SenderWaits == ASSUME IInv, WaitInv, SenderNext PROVE WaitInv'
<1>0. task \in [Tasks -> TaskStatus] /\ (hpc = "idle" => op = "none")
  BY DEF IInv, TypeOK, JoinInv
<1>1. CASE \E t \in Tasks : Submit(t) \/ SubmitFails(t) \/ SubmitUnavailable(t) \/ ReportSendError(t)
  <2>1. /\ UNCHANGED <<job, cx, stealing, tx, hpc, op, spawner>>
        /\ \A t \in Tasks : task'[t] = "kept" => task[t] = "kept"
        /\ \A t \in Tasks : task[t] \in {"taken", "running"} => task'[t] = task[t]
    BY <1>0, <1>1 DEF Submit, SubmitFails, SubmitUnavailable, ReportSendError
  <2> QED
    BY <2>1 DEF WaitInv, Upgraded
<1>2. CASE \E s \in Spawners : NewSpawner(s) \/ DropSpawner(s)
  <2>1. /\ UNCHANGED <<task, job, cx, stealing, tx, hpc, op>>
        /\ op # "none" => \A s \in Spawners : spawner'[s] = "open" => spawner[s] = "open"
    BY <1>0, <1>2 DEF NewSpawner, DropSpawner, IInv, TypeOK
  <2> QED
    BY <2>1 DEF WaitInv, Upgraded
<1> QED
  BY <1>1, <1>2 DEF SenderNext

\* A canceller lets go of a payload only by taking it.
LEMMA CancellerWaits == ASSUME IInv, WaitInv, CancellerNext PROVE WaitInv'
<1> SUFFICES ASSUME NEW u \in Cancellable, CancelReadFlag(u) \/ CancelRuns(u)
             PROVE  WaitInv'
  BY DEF CancellerNext
<1>0. u \in Tasks /\ task \in [Tasks -> TaskStatus] /\ DOMAIN cx = Tasks
  BY DEF IInv, TypeOK
<1>1. CASE CancelReadFlag(u) \/ CancelUpgrade(u) \/ CancelStore(u)
  <2>1. /\ UNCHANGED <<task, job, stealing, tx, hpc, op, spawner>>
        /\ \A t \in Tasks : task[t] = "kept" /\ cx[t] = "held" => cx'[t] = "held"
    BY <1>0, <1>1 DEF CancelReadFlag, CancelUpgrade, CancelStore
  <2> QED
    BY <2>1 DEF WaitInv, Upgraded
<1>2. CASE CancelTake(u)
  <2>1. /\ UNCHANGED <<job, stealing, tx, hpc, op, spawner>>
        /\ \A t \in Tasks : task'[t] = "kept" => task[t] = "kept" /\ (cx[t] = "held" => cx'[t] = "held")
        /\ \A t \in Tasks : task[t] \in {"taken", "running"} => task'[t] = task[t]
    BY <1>0, <1>2 DEF CancelTake, Takeable
  <2> QED
    BY <2>1 DEF WaitInv, Upgraded
<1> QED
  BY <1>1, <1>2 DEF CancelRuns

\* The owner closes the spawners before it drops its own senders.
LEMMA HandleWaits == ASSUME IInv, WaitInv, HandleNext PROVE WaitInv'
<1> USE DEF CloseSenders, Consume, CheckFinished, TrySetAbort, TrySetCancel, AbortWorker, CloseAll,
        DropSenders, JoinAwait, JoinLock, JoinTake, JoinReport, DropJoin
<1>1. UNCHANGED <<task, job, cx, stealing>>
  BY DEF HandleNext, HandleRuns, JoinRuns
<1>2. tx' <=> hpc' \in {"idle", "check", "try", "abort", "close", "drop"}
  BY DEF HandleNext, HandleRuns, JoinRuns, WaitInv
<1>3. ASSUME op' \in Aborts \cup Cancels, hpc' \notin {"check", "try", "abort", "close"}
      PROVE  \A s \in Spawners : spawner'[s] # "open"
  <2>1. CASE CloseSenders \/ CloseAll
    BY <2>1 DEF TakeCtx
  <2>2. CASE \E o \in Aborts \cup Cancels \cup Joins \cup {"drop"} : Consume(o)
    BY <1>3, <2>2
  <2>3. CASE CheckFinished \/ TrySetAbort \/ TrySetCancel \/ AbortWorker
    BY <1>3, <2>3
  <2>4. CASE DropSenders \/ JoinRuns \/ DropJoin
    BY <1>3, <2>4 DEF JoinRuns, WaitInv
  <2> QED
    BY <2>1, <2>2, <2>3, <2>4 DEF HandleNext, HandleRuns
<1> QED
  BY <1>1, <1>2, <1>3 DEF WaitInv, Upgraded

\* One case for each of the groups that Next is made of.
LEMMA StepWaits == IInv /\ WaitInv /\ [Next]_vars => WaitInv'
<1> SUFFICES ASSUME IInv, WaitInv, [Next]_vars PROVE WaitInv'
  OBVIOUS
<1>1. CASE UNCHANGED vars
  BY <1>1 DEF vars, WaitInv, Upgraded
<1> QED
  BY <1>1, LoopWaits, BodyWaits, TokioWaits, SenderWaits, CancellerWaits, HandleWaits
     DEF Next, WorkerNext

(***************************************************************************)
(* What is waited for is there, in every execution; and an owner that gave *)
(* the handle up has no sender left.                                       *)
(***************************************************************************)
THEOREM WaitHolds == Spec => []WaitInv
<1> QED
  BY InitWait, StepWaits, InvHolds, PTL DEF Spec

\* A join that finds the lock taken finds it with a closure, since the worker is gone.
LEMMA NoOneWaitsInVainFollows == IInv /\ WaitInv => NoOneWaitsInVain
<1> SUFFICES ASSUME IInv, WaitInv PROVE NoOneWaitsInVain
  OBVIOUS
<1>1. \A t \in Tasks : task[t] = "queued" => ~ReceiverGone
  BY DEF IInv, ChannelInv
<1>2. wpc = "blocking" => job # "none"
  BY DEF IInv, JobInv
<1>3. hpc = "await" => ~tx /\ (ChannelOpen => op = "join")
  BY DEF IInv, JoinInv, WaitInv, ChannelOpen
<1>4. hpc = "lock" /\ lock # "free" => wpc = "Cancelled" /\ job = "running"
  BY DEF IInv, TypeOK, JoinInv, LockInv, JobInv
<1> QED
  BY <1>1, <1>2, <1>3, <1>4 DEF WaitInv, NoOneWaitsInVain

(***************************************************************************)
(* No payload, worker, closure or join waits for someone who is gone, or   *)
(* who waits for it.                                                       *)
(***************************************************************************)
THEOREM NoOneWaitsInVainHolds == Spec => []NoOneWaitsInVain
<1> QED
  BY NoOneWaitsInVainFollows, InvHolds, WaitHolds, PTL

-----------------------------------------------------------------------------
(* The worker does not run in circles.                                      *)

\* What a place costs.
LEMMA PlaceCosts ==
  /\ WorkerSteps \in 0 .. 13 /\ JobSteps \in 0 .. 3
  /\ wpc = "flag" => WorkerSteps = 13
  /\ wpc = "take" => WorkerSteps = 12
  /\ wpc = "start" => WorkerSteps = 11
  /\ wpc \in {"async", "blocking"} => WorkerSteps = 7
  /\ wpc = "set_msg" => WorkerSteps = 6
  /\ wpc = "set_flag" => WorkerSteps = 5
  /\ wpc = "send_panic" => WorkerSteps = 4
  /\ wpc = "return_err" => WorkerSteps = 3
  /\ wpc = "recv" => WorkerSteps = 2
  /\ wpc \in Ends => WorkerSteps = IF finished THEN 0 ELSE 1
  /\ job = "queued" => JobSteps = 3
  /\ job = "running" => JobSteps = 2
  /\ job = "none" => JobSteps = 0
  /\ job \notin {"queued", "running", "none"} => JobSteps = 1
BY DEF WorkerSteps, JobSteps

\* And what the next one costs.
LEMMA NextPlaceCosts ==
  /\ WorkerSteps' \in 0 .. 13 /\ JobSteps' \in 0 .. 3
  /\ wpc' = "flag" => WorkerSteps' = 13
  /\ wpc' = "take" => WorkerSteps' = 12
  /\ wpc' = "start" => WorkerSteps' = 11
  /\ wpc' \in {"async", "blocking"} => WorkerSteps' = 7
  /\ wpc' = "set_msg" => WorkerSteps' = 6
  /\ wpc' = "set_flag" => WorkerSteps' = 5
  /\ wpc' = "send_panic" => WorkerSteps' = 4
  /\ wpc' = "return_err" => WorkerSteps' = 3
  /\ wpc' = "recv" => WorkerSteps' = 2
  /\ wpc' \in Ends => WorkerSteps' = IF finished' THEN 0 ELSE 1
  /\ job' = "queued" => JobSteps' = 3
  /\ job' = "running" => JobSteps' = 2
  /\ job' = "none" => JobSteps' = 0
  /\ job' \notin {"queued", "running", "none"} => JobSteps' = 1
BY DEF WorkerSteps, JobSteps

\* All of them are counts.
LEMMA StepsAreCounts ==
  /\ WorkerSteps \in Nat /\ WorkerSteps' \in Nat
  /\ JobSteps \in Nat /\ JobSteps' \in Nat
<1>1. /\ WorkerSteps \in 0 .. 13 /\ WorkerSteps' \in 0 .. 13
      /\ JobSteps \in 0 .. 3 /\ JobSteps' \in 0 .. 3
  BY PlaceCosts, NextPlaceCosts
<1> QED
  BY <1>1

\* The arithmetic of it: with no more tasks in the channel, and a cheaper place.
LEMMA CheaperSum ==
  ASSUME NEW n \in Nat, NEW m \in Nat, NEW a \in Nat, NEW b \in Nat, NEW c \in Nat, NEW d \in Nat,
         m =< n, c + d < a + b
  PROVE  12 * m + c + d < 12 * n + a + b
<1>1. 12 * m =< 12 * n
  OBVIOUS
<1> QED
  BY <1>1

LEMMA CheaperPart ==
  ASSUME NEW a \in Nat, NEW b \in Nat, NEW c \in Nat, NEW d \in Nat,
         \/ c < a /\ (d = b \/ d = 0)
         \/ c = a /\ d < b
         \/ c = 7 /\ a = 11 /\ (d = 1 \/ d = 3)
  PROVE  c + d < a + b
OBVIOUS

\* A step that takes nothing from the channel, and goes to a cheaper place.
LEMMA CheaperAdvances ==
  ASSUME IInv, queue' \in {queue, <<>>}, WorkerSteps' + JobSteps' < WorkerSteps + JobSteps
  PROVE  StepsLeft' < StepsLeft
<1>1. Len(queue) \in Nat /\ Len(queue') \in Nat /\ Len(queue') =< Len(queue)
  BY DEF IInv, TypeOK
<1>2. /\ StepsLeft = 12 * Len(queue) + WorkerSteps + JobSteps
      /\ StepsLeft' = 12 * Len(queue') + WorkerSteps' + JobSteps'
  BY DEF StepsLeft
<1> HIDE DEF WorkerSteps, JobSteps
<1>3. 12 * Len(queue') + WorkerSteps' + JobSteps' < 12 * Len(queue) + WorkerSteps + JobSteps
  BY <1>1, StepsAreCounts, CheaperSum
<1> QED
  BY <1>2, <1>3

\* The loop: the place after is cheaper, but for Recv, which pays with the task it takes.
LEMMA LoopAdvances == ASSUME IInv, Loop PROVE StepsLeft' < StepsLeft
<1>1. CASE Recv
  <2>1. Len(queue) \in Nat /\ Len(queue') = Len(queue) - 1 /\ Len(queue') \in Nat
    BY <1>1 DEF Recv, IInv, TypeOK
  <2>2. WorkerSteps = 2 /\ WorkerSteps' = 13
    BY <1>1, PlaceCosts, NextPlaceCosts DEF Recv
  <2>3. JobSteps' = JobSteps /\ JobSteps \in Nat
    BY <1>1, PlaceCosts DEF Recv, JobSteps
  <2> QED
    BY <2>1, <2>2, <2>3 DEF StepsLeft
<1>2. CASE PassFlag \/ TakeTask \/ SkipCancelled \/ SetMsg \/ SetFlag \/ SendPanic
  <2>1. queue' = queue /\ JobSteps' = JobSteps /\ WorkerSteps' < WorkerSteps
    BY <1>2, PlaceCosts, NextPlaceCosts DEF PassFlag, TakeTask, SkipCancelled, SetMsg, SetFlag,
       SendPanic, NextTask, JobSteps
  <2>9. WorkerSteps' + JobSteps' < WorkerSteps + JobSteps
    BY <2>1, StepsAreCounts, CheaperPart, Zenon
  <2> QED
    BY <2>1, <2>9, CheaperAdvances
<1>3. CASE RecvClosed \/ ObserveCancel \/ ReturnErr
  <2>1. queue' = <<>> /\ JobSteps' = JobSteps /\ WorkerSteps' < WorkerSteps
    BY <1>3, PlaceCosts, NextPlaceCosts DEF RecvClosed, ObserveCancel, ReturnErr,
       DestroyLocals, JobSteps
  <2>9. WorkerSteps' + JobSteps' < WorkerSteps + JobSteps
    BY <2>1, StepsAreCounts, CheaperPart, Zenon
  <2> QED
    BY <2>1, <2>9, CheaperAdvances
<1>4. CASE StartAsync
  <2>1. /\ queue' \in {queue, <<>>} /\ wpc = "start" /\ wpc' \in {"async", "Err"} /\ job' = job
    BY <1>4 DEF StartAsync, DestroyLocals
  <2>2. WorkerSteps' < WorkerSteps /\ JobSteps' = JobSteps
    BY <2>1, PlaceCosts, NextPlaceCosts DEF JobSteps
  <2>9. WorkerSteps' + JobSteps' < WorkerSteps + JobSteps
    BY <2>1, <2>2, StepsAreCounts, CheaperPart, Zenon
  <2> QED
    BY <2>1, <2>9, CheaperAdvances
<1>5. CASE StartBlocking \/ StartBlockingShutdown
  <2>1. queue' = queue /\ wpc = "start" /\ wpc' = "blocking" /\ job' \in {"queued", "shut"}
    BY <1>5 DEF StartBlocking, StartBlockingShutdown
  <2>2. WorkerSteps' = 7 /\ WorkerSteps = 11 /\ (JobSteps' = 1 \/ JobSteps' = 3)
    BY <2>1, PlaceCosts, NextPlaceCosts
  <2>9. WorkerSteps' + JobSteps' < WorkerSteps + JobSteps
    BY <2>1, <2>2, StepsAreCounts, CheaperPart, Zenon
  <2> QED
    BY <2>1, <2>9, CheaperAdvances
<1>6. CASE BlockingReturned \/ BlockingPanicked \/ BlockingLost
  <2>1. /\ queue' \in {queue, <<>>} /\ wpc = "blocking" /\ wpc' \in {"recv", "set_msg", "Err"}
        /\ job' = "none"
    BY <1>6 DEF BlockingReturned, BlockingPanicked, BlockingLost, NextTask, DestroyLocals
  <2>2. WorkerSteps' < WorkerSteps /\ JobSteps' = 0
    BY <2>1, PlaceCosts, NextPlaceCosts
  <2>9. WorkerSteps' + JobSteps' < WorkerSteps + JobSteps
    BY <2>1, <2>2, StepsAreCounts, CheaperPart, Zenon
  <2> QED
    BY <2>1, <2>9, CheaperAdvances
<1> QED
  BY <1>1, <1>2, <1>3, <1>4, <1>5, <1>6 DEF Loop

\* The task at hand, the closure, and Tokio.
LEMMA OthersAdvance ==
  ASSUME IInv, AsyncBody \/ Pool \/ PoolBody \/ Drops \/ CompleteJoinHandle
  PROVE  StepsLeft' < StepsLeft
<1>1. CASE AsyncBody
  <2>1. queue' = queue /\ wpc = "async" /\ wpc' \in {"recv", "set_msg"} /\ job' = job
    BY <1>1 DEF AsyncBody, AsyncReturns, AsyncPanics, NextTask
  <2>2. WorkerSteps' < WorkerSteps /\ JobSteps' = JobSteps
    BY <2>1, PlaceCosts, NextPlaceCosts DEF JobSteps
  <2>9. WorkerSteps' + JobSteps' < WorkerSteps + JobSteps
    BY <2>1, <2>2, StepsAreCounts, CheaperPart, Zenon
  <2> QED
    BY <2>1, <2>9, CheaperAdvances
<1>2. CASE Pool \/ PoolBody
  <2>1. queue' = queue /\ wpc' = wpc /\ finished' = finished
    BY <1>2 DEF Pool, PoolBody, PoolStart, PoolRefuse, PoolShutdown, PoolReturns, PoolPanics
  <2>2. \/ job = "queued" /\ job' \in {"running", "lost", "shut"}
        \/ job = "running" /\ job' \in {"returned", "panicked"}
    BY <1>2 DEF Pool, PoolBody, PoolStart, PoolRefuse, PoolShutdown, PoolReturns, PoolPanics
  <2>3. JobSteps' < JobSteps
    BY <2>2, PlaceCosts, NextPlaceCosts
  <2>4. WorkerSteps' = WorkerSteps
    BY <2>1 DEF WorkerSteps
  <2>9. WorkerSteps' + JobSteps' < WorkerSteps + JobSteps
    BY <2>1, <2>3, <2>4, StepsAreCounts, CheaperPart, Zenon
  <2> QED
    BY <2>1, <2>9, CheaperAdvances
<1>3. CASE Drops
  <2>1. /\ queue' = <<>> /\ wpc \in {"recv", "async", "blocking"} /\ wpc' = "Cancelled"
        /\ job' = job
    BY <1>3 DEF Drops, DropAtRecv, DropInAsync, DropInBlocking, DestroyLocals
  <2>2. WorkerSteps' < WorkerSteps /\ JobSteps' = JobSteps
    BY <2>1, PlaceCosts, NextPlaceCosts DEF JobSteps
  <2>9. WorkerSteps' + JobSteps' < WorkerSteps + JobSteps
    BY <2>1, <2>2, StepsAreCounts, CheaperPart, Zenon
  <2> QED
    BY <2>1, <2>9, CheaperAdvances
<1>4. CASE CompleteJoinHandle
  <2>1. queue' = queue /\ wpc \in Ends /\ wpc' = wpc /\ ~finished /\ finished' /\ job' = job
    BY <1>4 DEF CompleteJoinHandle
  <2>2. WorkerSteps' < WorkerSteps /\ JobSteps' = JobSteps
    BY <2>1, PlaceCosts, NextPlaceCosts DEF JobSteps
  <2>9. WorkerSteps' + JobSteps' < WorkerSteps + JobSteps
    BY <2>1, <2>2, StepsAreCounts, CheaperPart, Zenon
  <2> QED
    BY <2>1, <2>9, CheaperAdvances
<1> QED
  BY <1>1, <1>2, <1>3, <1>4

\* The others do not touch what the bound is made of, but for a send.
LEMMA StepAdvances ==
  ASSUME IInv, [Next]_vars
  PROVE  \/ UNCHANGED <<queue, wpc, cur, job, finished>>
         \/ sent' # sent
         \/ StepsLeft' < StepsLeft
<1>1. CASE WorkerNext
  <2>1. CASE Shutdown
    BY <2>1 DEF Shutdown
  <2> QED
    BY <1>1, <2>1, LoopAdvances, OthersAdvance DEF WorkerNext
<1>2. CASE SenderNext
  <2>1. ASSUME NEW t \in Tasks, Submit(t)
        PROVE  sent' # sent
    <3>1. sent \in Seq(Tasks) /\ sent' = Append(sent, t)
      BY <2>1 DEF Submit, IInv, TypeOK
    <3>2. Len(sent') = Len(sent) + 1 /\ Len(sent) \in Nat
      BY <3>1
    <3> QED
      BY <3>2
  <2> QED
    BY <1>2, <2>1 DEF SenderNext, SubmitFails, SubmitUnavailable, ReportSendError, NewSpawner,
       DropSpawner
<1>3. CASE CancellerNext
  BY <1>3 DEF CancellerNext, CancelRuns, CancelReadFlag, CancelUpgrade, CancelTake, CancelStore
<1>4. CASE HandleNext
  BY <1>4 DEF HandleNext, HandleRuns, JoinRuns, CloseSenders, Consume, CheckFinished,
     TrySetAbort, TrySetCancel, AbortWorker, CloseAll, DropSenders, JoinAwait, JoinLock,
     JoinTake, JoinReport, DropJoin
<1>5. CASE UNCHANGED vars
  BY <1>5 DEF vars
<1> QED
  BY <1>1, <1>2, <1>3, <1>4, <1>5 DEF Next

(***************************************************************************)
(* Each step of the worker, the pool or Tokio brings the end nearer, for   *)
(* any sets of tasks and spawners: the worker takes no more than twelve    *)
(* steps for an accepted task, and two for its end.                        *)
(***************************************************************************)
THEOREM WorkerAdvancesHolds == Spec => WorkerAdvances
<1> DEFINE Advances == \/ UNCHANGED <<queue, wpc, cur, job, finished>>
                       \/ sent' # sent
                       \/ StepsLeft' < StepsLeft
<1>1. IInv /\ [Next]_vars => [Advances]_vars
  BY StepAdvances
<1> QED
  BY <1>1, InvHolds, PTL DEF Spec, WorkerAdvances
=============================================================================
