------------------------ MODULE AsyncSequentialProof ------------------------
(***************************************************************************)
(* Proofs about AsyncSequential, for any sets of tasks and spawners: the   *)
(* invariant of AsyncSequentialInv is inductive, and the safety properties *)
(* follow from it.  There is one lemma for each action; under it, a step   *)
(* for each part of the invariant that the action can disturb.             *)
(***************************************************************************)
EXTENDS AsyncSequentialInv, TLAPS

USE DEF statusVars, channelVars, mutexVars, workerVars, tokioVars, handleVars, cancellerVars,
        aside, senderAside, cancelAside, handleAside, ReceiverGone, Stopping, Ends,
        Awaits, Steps, Flags, TaskStatus, StatusTypeOK, FLAG_OTHER, FLAG_ABORT_STARTED,
        FLAG_CANCEL_STARTED, FLAG_TASK_PANICKED, Aborts, Cancels, Joins, JoinErrors

USE NoTaskAssumption, ConstantsAssumption

(***************************************************************************)
(* Initially no task is there, and the worker waits.                       *)
(***************************************************************************)
LEMMA InitInv == Init => IInv
<1> SUFFICES ASSUME Init PROVE IInv
  OBVIOUS
<1> USE DEF Init, InitStatus
<1>1. TypeOK
  <2>1. finished \in BOOLEAN /\ aborting \in BOOLEAN
    OBVIOUS
  <2> QED
    BY <2>1 DEF TypeOK
<1>2. HandsInv /\ JobInv /\ LockInv /\ PlaceInv /\ JoinInv /\ FlagInv
  BY DEF HandsInv, JobInv, LockInv, PlaceInv, JoinInv, FlagInv
<1>3. ChannelInv /\ CleanInv /\ PanicInv /\ BlameInv
  BY DEF ChannelInv, CleanInv, PanicInv, BlameInv, ChannelOpen
<1> QED
  BY <1>1, <1>2, <1>3 DEF IInv

-----------------------------------------------------------------------------
(* The worker, the pool and Tokio.                                         *)

\* The task at the head of the channel goes to the worker's hands.
LEMMA RecvKeeps == ASSUME IInv, Recv PROVE IInv'
<1> USE DEF IInv, Recv
<1>1. TypeOK'
  BY DEF TypeOK, HandsInv
<1>2. HandsInv' /\ JobInv' /\ LockInv' /\ PlaceInv'
  BY DEF TypeOK, HandsInv, JobInv, LockInv, PlaceInv, JoinInv
<1>3. JoinInv'
  BY DEF TypeOK, JoinInv, FlagInv
<1>4. FlagInv'
  BY DEF TypeOK, HandsInv, JoinInv, FlagInv, PanicInv
<1>5. ChannelInv'
  <2>1. queue \in Seq(Tasks) /\ queue # <<>>
    BY DEF TypeOK
  <2>2. ASSUME NEW i \in DOMAIN queue, queue[i] # cur'
        PROVE  \E j \in DOMAIN queue' : queue'[j] = queue[i]
    <3>1. i - 1 \in DOMAIN queue' /\ queue'[i - 1] = queue[i]
      BY <2>1, <2>2
    <3> QED
      BY <3>1
  <2> QED
    BY <2>1, <2>2 DEF TypeOK, HandsInv, ChannelInv
<1>6. CleanInv'
  BY DEF TypeOK, HandsInv, JobInv, PlaceInv, ChannelInv, JoinInv, FlagInv, CleanInv
<1>7. PanicInv'
  BY DEF TypeOK, HandsInv, JobInv, PlaceInv, JoinInv, CleanInv, PanicInv
<1>8. BlameInv'
  BY DEF TypeOK, HandsInv, JobInv, LockInv, PlaceInv, JoinInv, FlagInv, ChannelInv,
        CleanInv, PanicInv, BlameInv, ChannelOpen
<1> QED
  BY <1>1, <1>2, <1>3, <1>4, <1>5, <1>6, <1>7, <1>8

\* The channel is drained, so no task is dropped with it.
LEMMA RecvClosedKeeps == ASSUME IInv, RecvClosed PROVE IInv'
<1> USE DEF IInv, RecvClosed, DestroyLocals, ChannelOpen
<1>1. TypeOK'
  BY DEF TypeOK
<1>2. HandsInv' /\ JobInv' /\ LockInv' /\ PlaceInv'
  BY DEF TypeOK, HandsInv, JobInv, LockInv, PlaceInv, JoinInv
<1>3. JoinInv'
  BY DEF TypeOK, JoinInv, FlagInv
<1>4. FlagInv'
  BY DEF TypeOK, HandsInv, JoinInv, FlagInv, PanicInv
<1>5. ChannelInv'
  BY DEF TypeOK, HandsInv, JoinInv, ChannelInv
<1>6. CleanInv'
  BY DEF TypeOK, HandsInv, JobInv, PlaceInv, ChannelInv, JoinInv, FlagInv, CleanInv
<1>7. PanicInv'
  BY DEF TypeOK, HandsInv, JobInv, PlaceInv, JoinInv, CleanInv, PanicInv
<1>8. BlameInv'
  BY DEF TypeOK, HandsInv, JobInv, LockInv, PlaceInv, JoinInv, FlagInv, ChannelInv,
        CleanInv, PanicInv, BlameInv, ChannelOpen
<1> QED
  BY <1>1, <1>2, <1>3, <1>4, <1>5, <1>6, <1>7, <1>8

\* Tasks are dropped here, and the flag says who asked for it.
LEMMA ObserveCancelKeeps == ASSUME IInv, ObserveCancel PROVE IInv'
<1> USE DEF IInv, ObserveCancel, DestroyLocals
<1>1. TypeOK'
  BY DEF TypeOK, HandsInv
<1>2. HandsInv' /\ JobInv' /\ LockInv' /\ PlaceInv'
  BY DEF TypeOK, HandsInv, JobInv, LockInv, PlaceInv, JoinInv
<1>3. JoinInv'
  BY DEF TypeOK, JoinInv, FlagInv
<1>4. FlagInv'
  BY DEF TypeOK, HandsInv, JoinInv, FlagInv, PanicInv
<1>5. ChannelInv'
  BY DEF TypeOK, HandsInv, JoinInv, ChannelInv
<1>6. CleanInv'
  BY DEF TypeOK, HandsInv, JobInv, PlaceInv, ChannelInv, JoinInv, FlagInv, CleanInv
<1>7. PanicInv'
  BY DEF TypeOK, HandsInv, JobInv, PlaceInv, JoinInv, CleanInv, PanicInv
<1>8. BlameInv'
  BY DEF TypeOK, HandsInv, JobInv, LockInv, PlaceInv, JoinInv, FlagInv, ChannelInv,
        CleanInv, PanicInv, BlameInv, ChannelOpen
<1> QED
  BY <1>1, <1>2, <1>3, <1>4, <1>5, <1>6, <1>7, <1>8

\* Only the worker moves.
LEMMA PassFlagKeeps == ASSUME IInv, PassFlag PROVE IInv'
<1> USE DEF IInv, PassFlag
<1>1. TypeOK'
  BY DEF TypeOK, HandsInv
<1>2. HandsInv' /\ JobInv' /\ LockInv' /\ PlaceInv'
  BY DEF TypeOK, HandsInv, JobInv, LockInv, PlaceInv, JoinInv
<1>3. JoinInv'
  BY DEF TypeOK, JoinInv, FlagInv
<1>4. FlagInv'
  BY DEF TypeOK, HandsInv, JoinInv, FlagInv, PanicInv
<1>5. ChannelInv'
  BY DEF TypeOK, HandsInv, JoinInv, ChannelInv
<1>6. CleanInv'
  BY DEF TypeOK, HandsInv, JobInv, PlaceInv, ChannelInv, JoinInv, FlagInv, CleanInv
<1>7. PanicInv'
  BY DEF TypeOK, HandsInv, JobInv, PlaceInv, JoinInv, CleanInv, PanicInv
<1>8. BlameInv'
  BY DEF TypeOK, HandsInv, JobInv, LockInv, PlaceInv, JoinInv, FlagInv, ChannelInv,
        CleanInv, PanicInv, BlameInv, ChannelOpen
<1> QED
  BY <1>1, <1>2, <1>3, <1>4, <1>5, <1>6, <1>7, <1>8

\* No closure is on the pool, so the task taken is the only one.
LEMMA TakeTaskKeeps == ASSUME IInv, TakeTask PROVE IInv'
<1> USE DEF IInv, TakeTask
<1>1. TypeOK'
  BY DEF TypeOK, HandsInv
<1>2. HandsInv' /\ JobInv' /\ LockInv' /\ PlaceInv'
  BY DEF TypeOK, HandsInv, JobInv, LockInv, PlaceInv, JoinInv
<1>3. JoinInv'
  BY DEF TypeOK, JoinInv, FlagInv
<1>4. FlagInv'
  BY DEF TypeOK, HandsInv, JoinInv, FlagInv, PanicInv
<1>5. ChannelInv'
  BY DEF TypeOK, HandsInv, JoinInv, ChannelInv
<1>6. CleanInv'
  BY DEF TypeOK, HandsInv, JobInv, PlaceInv, ChannelInv, JoinInv, FlagInv, CleanInv
<1>7. PanicInv'
  BY DEF TypeOK, HandsInv, JobInv, PlaceInv, JoinInv, CleanInv, PanicInv
<1>8. BlameInv'
  BY DEF TypeOK, HandsInv, JobInv, LockInv, PlaceInv, JoinInv, FlagInv, ChannelInv,
        CleanInv, PanicInv, BlameInv, ChannelOpen
<1> QED
  BY <1>1, <1>2, <1>3, <1>4, <1>5, <1>6, <1>7, <1>8

\* The task was not queued any more, so nothing leaves the channel unseen.
LEMMA SkipCancelledKeeps == ASSUME IInv, SkipCancelled PROVE IInv'
<1> USE DEF IInv, SkipCancelled, NextTask
<1>1. TypeOK'
  BY DEF TypeOK, HandsInv
<1>2. HandsInv' /\ JobInv' /\ LockInv' /\ PlaceInv'
  BY DEF TypeOK, HandsInv, JobInv, LockInv, PlaceInv, JoinInv
<1>3. JoinInv'
  BY DEF TypeOK, JoinInv, FlagInv
<1>4. FlagInv'
  BY DEF TypeOK, HandsInv, JoinInv, FlagInv, PanicInv
<1>5. ChannelInv'
  BY DEF TypeOK, HandsInv, JoinInv, ChannelInv
<1>6. CleanInv'
  BY DEF TypeOK, HandsInv, JobInv, PlaceInv, ChannelInv, JoinInv, FlagInv, CleanInv
<1>7. PanicInv'
  BY DEF TypeOK, HandsInv, JobInv, PlaceInv, JoinInv, CleanInv, PanicInv
<1>8. BlameInv'
  BY DEF TypeOK, HandsInv, JobInv, LockInv, PlaceInv, JoinInv, FlagInv, ChannelInv,
        CleanInv, PanicInv, BlameInv, ChannelOpen
<1> QED
  BY <1>1, <1>2, <1>3, <1>4, <1>5, <1>6, <1>7, <1>8

\* The lock is free and the state there, since no join is past the end of the worker.
LEMMA StartAsyncKeeps == ASSUME IInv, StartAsync PROVE IInv'
<1> USE DEF IInv, StartAsync, DestroyLocals
<1>1. TypeOK'
  <2>1. cur \in Tasks
    BY DEF HandsInv
  <2>2. CASE lock = "free" /\ present
    <3>1. /\ data' = Append(data, cur) /\ queue' = queue /\ cur' = cur
          /\ task' = [task EXCEPT ![cur] = "running"]
      BY <2>2, Zenon
    <3>2. lock' = "worker" /\ wpc' = "async"
      BY <2>2, Zenon
    <3>3. /\ data' \in Seq(Tasks) /\ queue' \in Seq(Tasks) /\ cur' \in Tasks
          /\ task' \in [Tasks -> TaskStatus]
      BY <2>1, <3>1 DEF TypeOK
    <3> QED
      BY <3>2, <3>3 DEF TypeOK
  <2>3. CASE ~(lock = "free" /\ present)
    <3>1. data' = data /\ lock' = lock /\ queue' = <<>> /\ cur' = NoTask /\ wpc' = "Err"
      BY <2>3, Zenon
    <3>2. task' = [t \in Tasks |-> IF task[t] = "queued"
                                     THEN IF Upgraded(t) THEN "kept" ELSE "dropped"
                                   ELSE IF t = cur THEN "dropped" ELSE task[t]]
      BY <2>3, Zenon
    <3>3. task' \in [Tasks -> TaskStatus]
      BY <3>2 DEF TypeOK
    <3> QED
      BY <3>1, <3>3 DEF TypeOK
  <2> QED
    BY <2>2, <2>3
<1>2. HandsInv' /\ JobInv' /\ LockInv' /\ PlaceInv'
  BY DEF TypeOK, HandsInv, JobInv, LockInv, PlaceInv, JoinInv
<1>3. JoinInv'
  BY DEF TypeOK, JoinInv, FlagInv
<1>4. FlagInv'
  BY DEF TypeOK, HandsInv, JoinInv, FlagInv, PanicInv
<1>5. ChannelInv'
  BY DEF TypeOK, HandsInv, JoinInv, ChannelInv
<1>6. CleanInv'
  <2>1. cur \in Tasks /\ task[cur] = "taken" /\ hres # "Ok" /\ wpc \notin Ends
    BY DEF HandsInv, JoinInv, CleanInv
  <2>2. \A t \in Tasks : task[t] \notin {"unwound", "panicked", "broken", "dropped", "kept"}
    BY <2>1 DEF TypeOK, CleanInv
  <2>3. lock = "free" /\ present
    BY <2>1 DEF TypeOK, LockInv, JobInv, JoinInv
  <2>4. task' = [task EXCEPT ![cur] = "running"] /\ wpc' = "async" /\ job' = job /\ hres' = hres
    BY <2>3, Zenon
  <2>5. \A t \in Tasks : task'[t] \notin {"unwound", "panicked", "broken", "dropped", "kept"}
    BY <2>1, <2>2, <2>4 DEF TypeOK
  <2> QED
    BY <2>1, <2>4, <2>5 DEF CleanInv
<1>7. PanicInv'
  <2>1. wpc' \notin {"set_flag", "send_panic", "return_err"} /\ flags' # FLAG_TASK_PANICKED
    BY DEF TypeOK, HandsInv, PanicInv
  <2>2. task_panic_msg' = NoTask /\ hres' = hres /\ hres # "AnyTaskPanic"
    BY DEF TypeOK, HandsInv, JoinInv, PanicInv
  <2>3. \A t \in Tasks : task'[t] # "panicked"
    <3>1. cur \in Tasks /\ \A t \in Tasks : task[t] # "panicked"
      BY DEF HandsInv, PanicInv
    <3>2. CASE lock = "free" /\ present
      <4>1. task' = [task EXCEPT ![cur] = "running"]
        BY <3>2, Zenon
      <4> QED
        BY <3>1, <4>1 DEF TypeOK
    <3>3. CASE ~(lock = "free" /\ present)
      <4>1. task' = [t \in Tasks |-> IF task[t] = "queued"
                                       THEN IF Upgraded(t) THEN "kept" ELSE "dropped"
                                     ELSE IF t = cur THEN "dropped" ELSE task[t]]
        BY <3>3, Zenon
      <4> QED
        BY <3>1, <4>1
    <3> QED
      BY <3>2, <3>3
  <2> QED
    BY <2>1, <2>2, <2>3 DEF PanicInv
<1>8. BlameInv'
  BY DEF TypeOK, HandsInv, JobInv, LockInv, PlaceInv, JoinInv, FlagInv, ChannelInv,
        CleanInv, PanicInv, BlameInv, ChannelOpen
<1> QED
  BY <1>1, <1>2, <1>3, <1>4, <1>5, <1>6, <1>7, <1>8

\* The closure takes the task along.
LEMMA StartBlockingKeeps == ASSUME IInv, StartBlocking PROVE IInv'
<1> USE DEF IInv, StartBlocking
<1>1. TypeOK'
  BY DEF TypeOK, HandsInv
<1>2. HandsInv' /\ JobInv' /\ LockInv' /\ PlaceInv'
  BY DEF TypeOK, HandsInv, JobInv, LockInv, PlaceInv, JoinInv
<1>3. JoinInv'
  BY DEF TypeOK, JoinInv, FlagInv
<1>4. FlagInv'
  BY DEF TypeOK, HandsInv, JoinInv, FlagInv, PanicInv
<1>5. ChannelInv'
  BY DEF TypeOK, HandsInv, JoinInv, ChannelInv
<1>6. CleanInv'
  BY DEF TypeOK, HandsInv, JobInv, PlaceInv, ChannelInv, JoinInv, FlagInv, CleanInv
<1>7. PanicInv'
  BY DEF TypeOK, HandsInv, JobInv, PlaceInv, JoinInv, CleanInv, PanicInv
<1>8. BlameInv'
  BY DEF TypeOK, HandsInv, JobInv, LockInv, PlaceInv, JoinInv, FlagInv, ChannelInv,
        CleanInv, PanicInv, BlameInv, ChannelOpen
<1> QED
  BY <1>1, <1>2, <1>3, <1>4, <1>5, <1>6, <1>7, <1>8

\* The closure and the task are destroyed at once.
LEMMA StartBlockingShutdownKeeps == ASSUME IInv, StartBlockingShutdown PROVE IInv'
<1> USE DEF IInv, StartBlockingShutdown
<1>1. TypeOK'
  BY DEF TypeOK, HandsInv
<1>2. HandsInv' /\ JobInv' /\ LockInv' /\ PlaceInv'
  BY DEF TypeOK, HandsInv, JobInv, LockInv, PlaceInv, JoinInv
<1>3. JoinInv'
  BY DEF TypeOK, JoinInv, FlagInv
<1>4. FlagInv'
  BY DEF TypeOK, HandsInv, JoinInv, FlagInv, PanicInv
<1>5. ChannelInv'
  BY DEF TypeOK, HandsInv, JoinInv, ChannelInv
<1>6. CleanInv'
  BY DEF TypeOK, HandsInv, JobInv, PlaceInv, ChannelInv, JoinInv, FlagInv, CleanInv
<1>7. PanicInv'
  BY DEF TypeOK, HandsInv, JobInv, PlaceInv, JoinInv, CleanInv, PanicInv
<1>8. BlameInv'
  BY DEF TypeOK, HandsInv, JobInv, LockInv, PlaceInv, JoinInv, FlagInv, ChannelInv,
        CleanInv, PanicInv, BlameInv, ChannelOpen
<1> QED
  BY <1>1, <1>2, <1>3, <1>4, <1>5, <1>6, <1>7, <1>8

\* The guard is dropped before the worker goes on.
LEMMA AsyncReturnsKeeps == ASSUME IInv, AsyncReturns PROVE IInv'
<1> USE DEF IInv, AsyncReturns, NextTask
<1>1. TypeOK'
  BY DEF TypeOK, HandsInv
<1>2. HandsInv' /\ JobInv' /\ LockInv' /\ PlaceInv'
  BY DEF TypeOK, HandsInv, JobInv, LockInv, PlaceInv, JoinInv
<1>3. JoinInv'
  BY DEF TypeOK, JoinInv, FlagInv
<1>4. FlagInv'
  BY DEF TypeOK, HandsInv, JoinInv, FlagInv, PanicInv
<1>5. ChannelInv'
  BY DEF TypeOK, HandsInv, JoinInv, ChannelInv
<1>6. CleanInv'
  BY DEF TypeOK, HandsInv, JobInv, PlaceInv, ChannelInv, JoinInv, FlagInv, CleanInv
<1>7. PanicInv'
  BY DEF TypeOK, HandsInv, JobInv, PlaceInv, JoinInv, CleanInv, PanicInv
<1>8. BlameInv'
  BY DEF TypeOK, HandsInv, JobInv, LockInv, PlaceInv, JoinInv, FlagInv, ChannelInv,
        CleanInv, PanicInv, BlameInv, ChannelOpen
<1> QED
  BY <1>1, <1>2, <1>3, <1>4, <1>5, <1>6, <1>7, <1>8

\* The guard is dropped before the panic is looked at.
LEMMA AsyncPanicsKeeps == ASSUME IInv, AsyncPanics PROVE IInv'
<1> USE DEF IInv, AsyncPanics
<1>1. TypeOK'
  BY DEF TypeOK, HandsInv
<1>2. HandsInv' /\ JobInv' /\ LockInv' /\ PlaceInv'
  BY DEF TypeOK, HandsInv, JobInv, LockInv, PlaceInv, JoinInv
<1>3. JoinInv'
  BY DEF TypeOK, JoinInv, FlagInv
<1>4. FlagInv'
  BY DEF TypeOK, HandsInv, JoinInv, FlagInv, PanicInv
<1>5. ChannelInv'
  BY DEF TypeOK, HandsInv, JoinInv, ChannelInv
<1>6. CleanInv'
  BY DEF TypeOK, HandsInv, JobInv, PlaceInv, ChannelInv, JoinInv, FlagInv, CleanInv
<1>7. PanicInv'
  BY DEF TypeOK, HandsInv, JobInv, PlaceInv, JoinInv, CleanInv, PanicInv
<1>8. BlameInv'
  BY DEF TypeOK, HandsInv, JobInv, LockInv, PlaceInv, JoinInv, FlagInv, ChannelInv,
        CleanInv, PanicInv, BlameInv, ChannelOpen
<1> QED
  BY <1>1, <1>2, <1>3, <1>4, <1>5, <1>6, <1>7, <1>8

\* There is one task that is taken, the closure's.
LEMMA PoolStartKeeps == ASSUME IInv, PoolStart PROVE IInv'
<1> USE DEF IInv, PoolStart
<1>1. TypeOK'
  BY DEF TypeOK
<1>2. HandsInv' /\ JobInv' /\ LockInv' /\ PlaceInv'
  BY DEF TypeOK, HandsInv, JobInv, LockInv, PlaceInv, JoinInv
<1>3. ChannelInv'
  BY DEF TypeOK, HandsInv, JoinInv, ChannelInv
<1>4. CleanInv'
  BY DEF TypeOK, HandsInv, JobInv, PlaceInv, ChannelInv, JoinInv, FlagInv, CleanInv
<1>5. PanicInv'
  BY DEF TypeOK, HandsInv, JobInv, PlaceInv, JoinInv, CleanInv, PanicInv
<1>6. BlameInv'
  BY DEF TypeOK, HandsInv, JobInv, LockInv, PlaceInv, JoinInv, FlagInv, ChannelInv,
        CleanInv, PanicInv, BlameInv, ChannelOpen
<1>7. JoinInv' /\ FlagInv'
  BY DEF JoinInv, FlagInv
<1> QED
  BY <1>1, <1>2, <1>3, <1>4, <1>5, <1>6, <1>7

\* The lock is not free or the state gone, so the worker is, too.
LEMMA PoolRefuseKeeps == ASSUME IInv, PoolRefuse PROVE IInv'
<1> USE DEF IInv, PoolRefuse
<1>1. TypeOK'
  BY DEF TypeOK
<1>2. HandsInv' /\ JobInv' /\ LockInv' /\ PlaceInv'
  BY DEF TypeOK, HandsInv, JobInv, LockInv, PlaceInv, JoinInv
<1>3. ChannelInv'
  BY DEF TypeOK, HandsInv, JoinInv, ChannelInv
<1>4. CleanInv'
  BY DEF TypeOK, HandsInv, JobInv, PlaceInv, ChannelInv, JoinInv, FlagInv, CleanInv
<1>5. PanicInv'
  BY DEF TypeOK, HandsInv, JobInv, PlaceInv, JoinInv, CleanInv, PanicInv
<1>6. BlameInv'
  BY DEF TypeOK, HandsInv, JobInv, LockInv, PlaceInv, JoinInv, FlagInv, ChannelInv,
        CleanInv, PanicInv, BlameInv, ChannelOpen
<1>7. JoinInv' /\ FlagInv'
  BY DEF JoinInv, FlagInv
<1> QED
  BY <1>1, <1>2, <1>3, <1>4, <1>5, <1>6, <1>7

\* The closure's task is the only one that is taken.
LEMMA PoolShutdownKeeps == ASSUME IInv, PoolShutdown PROVE IInv'
<1> USE DEF IInv, PoolShutdown
<1>1. TypeOK'
  BY DEF TypeOK
<1>2. HandsInv' /\ JobInv' /\ LockInv' /\ PlaceInv'
  BY DEF TypeOK, HandsInv, JobInv, LockInv, PlaceInv, JoinInv
<1>3. ChannelInv'
  BY DEF TypeOK, HandsInv, JoinInv, ChannelInv
<1>4. CleanInv'
  BY DEF TypeOK, HandsInv, JobInv, PlaceInv, ChannelInv, JoinInv, FlagInv, CleanInv
<1>5. PanicInv'
  BY DEF TypeOK, HandsInv, JobInv, PlaceInv, JoinInv, CleanInv, PanicInv
<1>6. BlameInv'
  BY DEF TypeOK, HandsInv, JobInv, LockInv, PlaceInv, JoinInv, FlagInv, ChannelInv,
        CleanInv, PanicInv, BlameInv, ChannelOpen
<1>7. JoinInv' /\ FlagInv'
  BY DEF JoinInv, FlagInv
<1> QED
  BY <1>1, <1>2, <1>3, <1>4, <1>5, <1>6, <1>7

\* The closure's task is the only one that runs.
LEMMA PoolReturnsKeeps == ASSUME IInv, PoolReturns PROVE IInv'
<1> USE DEF IInv, PoolReturns
<1>1. TypeOK'
  BY DEF TypeOK
<1>2. HandsInv' /\ JobInv' /\ LockInv' /\ PlaceInv'
  BY DEF TypeOK, HandsInv, JobInv, LockInv, PlaceInv, JoinInv
<1>3. ChannelInv'
  BY DEF TypeOK, HandsInv, JoinInv, ChannelInv
<1>4. CleanInv'
  BY DEF TypeOK, HandsInv, JobInv, PlaceInv, ChannelInv, JoinInv, FlagInv, CleanInv
<1>5. PanicInv'
  BY DEF TypeOK, HandsInv, JobInv, PlaceInv, JoinInv, CleanInv, PanicInv
<1>6. BlameInv'
  BY DEF TypeOK, HandsInv, JobInv, LockInv, PlaceInv, JoinInv, FlagInv, ChannelInv,
        CleanInv, PanicInv, BlameInv, ChannelOpen
<1>7. JoinInv' /\ FlagInv'
  BY DEF JoinInv, FlagInv
<1> QED
  BY <1>1, <1>2, <1>3, <1>4, <1>5, <1>6, <1>7

\* The closure's task is the only one that runs.
LEMMA PoolPanicsKeeps == ASSUME IInv, PoolPanics PROVE IInv'
<1> USE DEF IInv, PoolPanics
<1>1. TypeOK'
  BY DEF TypeOK
<1>2. HandsInv' /\ JobInv' /\ LockInv' /\ PlaceInv'
  BY DEF TypeOK, HandsInv, JobInv, LockInv, PlaceInv, JoinInv
<1>3. ChannelInv'
  BY DEF TypeOK, HandsInv, JoinInv, ChannelInv
<1>4. CleanInv'
  BY DEF TypeOK, HandsInv, JobInv, PlaceInv, ChannelInv, JoinInv, FlagInv, CleanInv
<1>5. PanicInv'
  BY DEF TypeOK, HandsInv, JobInv, PlaceInv, JoinInv, CleanInv, PanicInv
<1>6. BlameInv'
  BY DEF TypeOK, HandsInv, JobInv, LockInv, PlaceInv, JoinInv, FlagInv, ChannelInv,
        CleanInv, PanicInv, BlameInv, ChannelOpen
<1>7. JoinInv' /\ FlagInv'
  BY DEF JoinInv, FlagInv
<1> QED
  BY <1>1, <1>2, <1>3, <1>4, <1>5, <1>6, <1>7

\* The task at hand has returned.
LEMMA BlockingReturnedKeeps == ASSUME IInv, BlockingReturned PROVE IInv'
<1> USE DEF IInv, BlockingReturned, NextTask
<1>1. TypeOK'
  BY DEF TypeOK
<1>2. HandsInv' /\ JobInv' /\ LockInv' /\ PlaceInv'
  BY DEF TypeOK, HandsInv, JobInv, LockInv, PlaceInv, JoinInv
<1>3. JoinInv'
  BY DEF TypeOK, JoinInv, FlagInv
<1>4. FlagInv'
  BY DEF TypeOK, HandsInv, JoinInv, FlagInv, PanicInv
<1>5. ChannelInv'
  BY DEF TypeOK, HandsInv, JoinInv, ChannelInv
<1>6. CleanInv'
  BY DEF TypeOK, HandsInv, JobInv, PlaceInv, ChannelInv, JoinInv, FlagInv, CleanInv
<1>7. PanicInv'
  BY DEF TypeOK, HandsInv, JobInv, PlaceInv, JoinInv, CleanInv, PanicInv
<1>8. BlameInv'
  BY DEF TypeOK, HandsInv, JobInv, LockInv, PlaceInv, JoinInv, FlagInv, ChannelInv,
        CleanInv, PanicInv, BlameInv, ChannelOpen
<1> QED
  BY <1>1, <1>2, <1>3, <1>4, <1>5, <1>6, <1>7, <1>8

\* The task at hand has unwound.
LEMMA BlockingPanickedKeeps == ASSUME IInv, BlockingPanicked PROVE IInv'
<1> USE DEF IInv, BlockingPanicked
<1>1. TypeOK'
  BY DEF TypeOK, HandsInv
<1>2. HandsInv' /\ JobInv' /\ LockInv' /\ PlaceInv'
  BY DEF TypeOK, HandsInv, JobInv, LockInv, PlaceInv, JoinInv
<1>3. JoinInv'
  BY DEF TypeOK, JoinInv, FlagInv
<1>4. FlagInv'
  BY DEF TypeOK, HandsInv, JoinInv, FlagInv, PanicInv
<1>5. ChannelInv'
  BY DEF TypeOK, HandsInv, JoinInv, ChannelInv
<1>6. CleanInv'
  BY DEF TypeOK, HandsInv, JobInv, PlaceInv, ChannelInv, JoinInv, FlagInv, CleanInv
<1>7. PanicInv'
  BY DEF TypeOK, HandsInv, JobInv, PlaceInv, JoinInv, CleanInv, PanicInv
<1>8. BlameInv'
  BY DEF TypeOK, HandsInv, JobInv, LockInv, PlaceInv, JoinInv, FlagInv, ChannelInv,
        CleanInv, PanicInv, BlameInv, ChannelOpen
<1> QED
  BY <1>1, <1>2, <1>3, <1>4, <1>5, <1>6, <1>7, <1>8

\* The worker waits, so the closure was lost to a shutdown.
LEMMA BlockingLostKeeps == ASSUME IInv, BlockingLost PROVE IInv'
<1> USE DEF IInv, BlockingLost, DestroyLocals
<1>1. TypeOK'
  BY DEF TypeOK
<1>2. HandsInv' /\ JobInv' /\ LockInv' /\ PlaceInv'
  BY DEF TypeOK, HandsInv, JobInv, LockInv, PlaceInv, JoinInv
<1>3. JoinInv'
  BY DEF TypeOK, JoinInv, FlagInv
<1>4. FlagInv'
  BY DEF TypeOK, HandsInv, JoinInv, FlagInv, PanicInv
<1>5. ChannelInv'
  BY DEF TypeOK, HandsInv, JoinInv, ChannelInv
<1>6. CleanInv'
  BY DEF TypeOK, HandsInv, JobInv, PlaceInv, ChannelInv, JoinInv, FlagInv, CleanInv
<1>7. PanicInv'
  BY DEF TypeOK, HandsInv, JobInv, PlaceInv, JoinInv, CleanInv, PanicInv
<1>8. BlameInv'
  BY DEF TypeOK, HandsInv, JobInv, LockInv, PlaceInv, JoinInv, FlagInv, ChannelInv,
        CleanInv, PanicInv, BlameInv, ChannelOpen
<1> QED
  BY <1>1, <1>2, <1>3, <1>4, <1>5, <1>6, <1>7, <1>8

\* The first message stays, and there was none.
LEMMA SetMsgKeeps == ASSUME IInv, SetMsg PROVE IInv'
<1> USE DEF IInv, SetMsg, SetPanicMsg
<1>1. TypeOK'
  BY DEF TypeOK, HandsInv
<1>2. HandsInv' /\ JobInv' /\ LockInv' /\ PlaceInv'
  BY DEF TypeOK, HandsInv, JobInv, LockInv, PlaceInv, JoinInv
<1>3. JoinInv'
  BY DEF TypeOK, JoinInv, FlagInv
<1>4. FlagInv'
  BY DEF TypeOK, HandsInv, JoinInv, FlagInv, PanicInv
<1>5. ChannelInv'
  BY DEF TypeOK, HandsInv, JoinInv, ChannelInv
<1>6. CleanInv'
  BY DEF TypeOK, HandsInv, JobInv, PlaceInv, ChannelInv, JoinInv, FlagInv, CleanInv
<1>7. PanicInv'
  BY DEF TypeOK, HandsInv, JobInv, PlaceInv, JoinInv, CleanInv, PanicInv
<1>8. BlameInv'
  BY DEF TypeOK, HandsInv, JobInv, LockInv, PlaceInv, JoinInv, FlagInv, ChannelInv,
        CleanInv, PanicInv, BlameInv, ChannelOpen
<1> QED
  BY <1>1, <1>2, <1>3, <1>4, <1>5, <1>6, <1>7, <1>8

\* The message is in place before the flag.
LEMMA SetFlagKeeps == ASSUME IInv, SetFlag PROVE IInv'
<1> USE DEF IInv, SetFlag, StoreTaskPanicked
<1>1. TypeOK'
  BY DEF TypeOK, HandsInv
<1>2. HandsInv' /\ JobInv' /\ LockInv' /\ PlaceInv'
  BY DEF TypeOK, HandsInv, JobInv, LockInv, PlaceInv, JoinInv
<1>3. JoinInv'
  BY DEF TypeOK, JoinInv, FlagInv
<1>4. FlagInv'
  BY DEF TypeOK, HandsInv, JoinInv, FlagInv, PanicInv
<1>5. ChannelInv'
  BY DEF TypeOK, HandsInv, JoinInv, ChannelInv
<1>6. CleanInv'
  BY DEF TypeOK, HandsInv, JobInv, PlaceInv, ChannelInv, JoinInv, FlagInv, CleanInv
<1>7. PanicInv'
  BY DEF TypeOK, HandsInv, JobInv, PlaceInv, JoinInv, CleanInv, PanicInv
<1>8. BlameInv'
  BY DEF TypeOK, HandsInv, JobInv, LockInv, PlaceInv, JoinInv, FlagInv, ChannelInv,
        CleanInv, PanicInv, BlameInv, ChannelOpen
<1> QED
  BY <1>1, <1>2, <1>3, <1>4, <1>5, <1>6, <1>7, <1>8

\* The flag is set before the panic is delivered.
LEMMA SendPanicKeeps == ASSUME IInv, SendPanic PROVE IInv'
<1> USE DEF IInv, SendPanic
<1>1. TypeOK'
  BY DEF TypeOK, HandsInv
<1>2. HandsInv' /\ JobInv' /\ LockInv' /\ PlaceInv'
  BY DEF TypeOK, HandsInv, JobInv, LockInv, PlaceInv, JoinInv
<1>3. JoinInv'
  BY DEF TypeOK, JoinInv, FlagInv
<1>4. FlagInv'
  BY DEF TypeOK, HandsInv, JoinInv, FlagInv, PanicInv
<1>5. ChannelInv'
  BY DEF TypeOK, HandsInv, JoinInv, ChannelInv
<1>6. CleanInv'
  BY DEF TypeOK, HandsInv, JobInv, PlaceInv, ChannelInv, JoinInv, FlagInv, CleanInv
<1>7. PanicInv'
  BY DEF TypeOK, HandsInv, JobInv, PlaceInv, JoinInv, CleanInv, PanicInv
<1>8. BlameInv'
  BY DEF TypeOK, HandsInv, JobInv, LockInv, PlaceInv, JoinInv, FlagInv, ChannelInv,
        CleanInv, PanicInv, BlameInv, ChannelOpen
<1> QED
  BY <1>1, <1>2, <1>3, <1>4, <1>5, <1>6, <1>7, <1>8

\* The task at hand keeps its status.
LEMMA ReturnErrKeeps == ASSUME IInv, ReturnErr PROVE IInv'
<1> USE DEF IInv, ReturnErr, DestroyLocals
<1>1. TypeOK'
  BY DEF TypeOK, HandsInv
<1>2. HandsInv' /\ JobInv' /\ LockInv' /\ PlaceInv'
  BY DEF TypeOK, HandsInv, JobInv, LockInv, PlaceInv, JoinInv
<1>3. JoinInv'
  BY DEF TypeOK, JoinInv, FlagInv
<1>4. FlagInv'
  BY DEF TypeOK, HandsInv, JoinInv, FlagInv, PanicInv
<1>5. ChannelInv'
  BY DEF TypeOK, HandsInv, JoinInv, ChannelInv
<1>6. CleanInv'
  BY DEF TypeOK, HandsInv, JobInv, PlaceInv, ChannelInv, JoinInv, FlagInv, CleanInv
<1>7. PanicInv'
  BY DEF TypeOK, HandsInv, JobInv, PlaceInv, JoinInv, CleanInv, PanicInv
<1>8. BlameInv'
  BY DEF TypeOK, HandsInv, JobInv, LockInv, PlaceInv, JoinInv, FlagInv, ChannelInv,
        CleanInv, PanicInv, BlameInv, ChannelOpen
<1> QED
  BY <1>1, <1>2, <1>3, <1>4, <1>5, <1>6, <1>7, <1>8

\* The channel goes with the worker.
LEMMA DropAtRecvKeeps == ASSUME IInv, DropAtRecv PROVE IInv'
<1> USE DEF IInv, DropAtRecv, DestroyLocals
<1>1. TypeOK'
  BY DEF TypeOK
<1>2. HandsInv' /\ JobInv' /\ LockInv' /\ PlaceInv'
  BY DEF TypeOK, HandsInv, JobInv, LockInv, PlaceInv, JoinInv
<1>3. JoinInv'
  BY DEF TypeOK, JoinInv, FlagInv
<1>4. FlagInv'
  BY DEF TypeOK, HandsInv, JoinInv, FlagInv, PanicInv
<1>5. ChannelInv'
  BY DEF TypeOK, HandsInv, JoinInv, ChannelInv
<1>6. CleanInv'
  BY DEF TypeOK, HandsInv, JobInv, PlaceInv, ChannelInv, JoinInv, FlagInv, CleanInv
<1>7. PanicInv'
  BY DEF TypeOK, HandsInv, JobInv, PlaceInv, JoinInv, CleanInv, PanicInv
<1>8. BlameInv'
  BY DEF TypeOK, HandsInv, JobInv, LockInv, PlaceInv, JoinInv, FlagInv, ChannelInv,
        CleanInv, PanicInv, BlameInv, ChannelOpen
<1> QED
  BY <1>1, <1>2, <1>3, <1>4, <1>5, <1>6, <1>7, <1>8

\* The guard goes with the worker.
LEMMA DropInAsyncKeeps == ASSUME IInv, DropInAsync PROVE IInv'
<1> USE DEF IInv, DropInAsync, DestroyLocals
<1>1. TypeOK'
  BY DEF TypeOK
<1>2. HandsInv' /\ JobInv' /\ LockInv' /\ PlaceInv'
  BY DEF TypeOK, HandsInv, JobInv, LockInv, PlaceInv, JoinInv
<1>3. JoinInv'
  BY DEF TypeOK, JoinInv, FlagInv
<1>4. FlagInv'
  BY DEF TypeOK, HandsInv, JoinInv, FlagInv, PanicInv
<1>5. ChannelInv'
  BY DEF TypeOK, HandsInv, JoinInv, ChannelInv
<1>6. CleanInv'
  BY DEF TypeOK, HandsInv, JobInv, PlaceInv, ChannelInv, JoinInv, FlagInv, CleanInv
<1>7. PanicInv'
  BY DEF TypeOK, HandsInv, JobInv, PlaceInv, JoinInv, CleanInv, PanicInv
<1>8. BlameInv'
  BY DEF TypeOK, HandsInv, JobInv, LockInv, PlaceInv, JoinInv, FlagInv, ChannelInv,
        CleanInv, PanicInv, BlameInv, ChannelOpen
<1> QED
  BY <1>1, <1>2, <1>3, <1>4, <1>5, <1>6, <1>7, <1>8

\* The closure stays, with its lock if it has begun.
LEMMA DropInBlockingKeeps == ASSUME IInv, DropInBlocking PROVE IInv'
<1> USE DEF IInv, DropInBlocking, DestroyLocals
<1>1. TypeOK'
  BY DEF TypeOK, HandsInv
<1>2. HandsInv' /\ JobInv' /\ LockInv' /\ PlaceInv'
  BY DEF TypeOK, HandsInv, JobInv, LockInv, PlaceInv, JoinInv
<1>3. JoinInv'
  BY DEF TypeOK, JoinInv, FlagInv
<1>4. FlagInv'
  BY DEF TypeOK, HandsInv, JoinInv, FlagInv, PanicInv
<1>5. ChannelInv'
  BY DEF TypeOK, HandsInv, JoinInv, ChannelInv
<1>6. CleanInv'
  BY DEF TypeOK, HandsInv, JobInv, PlaceInv, ChannelInv, JoinInv, FlagInv, CleanInv
<1>7. PanicInv'
  BY DEF TypeOK, HandsInv, JobInv, PlaceInv, JoinInv, CleanInv, PanicInv
<1>8. BlameInv'
  BY DEF TypeOK, HandsInv, JobInv, LockInv, PlaceInv, JoinInv, FlagInv, ChannelInv,
        CleanInv, PanicInv, BlameInv, ChannelOpen
<1> QED
  BY <1>1, <1>2, <1>3, <1>4, <1>5, <1>6, <1>7, <1>8

\* The worker's future is gone before its JoinHandle is complete.
LEMMA CompleteJoinHandleKeeps == ASSUME IInv, CompleteJoinHandle PROVE IInv'
<1> USE DEF IInv, CompleteJoinHandle
<1>1. TypeOK'
  BY DEF TypeOK
<1>2. JoinInv'
  BY DEF TypeOK, JoinInv, FlagInv
<1>3. /\ HandsInv' /\ JobInv' /\ LockInv' /\ PlaceInv' /\ FlagInv'
     /\ ChannelInv' /\ CleanInv' /\ PanicInv' /\ BlameInv'
  BY DEF HandsInv, JobInv, LockInv, PlaceInv, FlagInv, ChannelInv, CleanInv, PanicInv,
        BlameInv, ChannelOpen
<1> QED
  BY <1>1, <1>2, <1>3

\* Every part of the invariant about `up` is a claim that it is FALSE.
LEMMA ShutdownKeeps == ASSUME IInv, Shutdown PROVE IInv'
<1> USE DEF IInv, Shutdown
<1>1. TypeOK'
  <2>1. up' \in BOOLEAN
    OBVIOUS
  <2> QED
    BY <2>1 DEF TypeOK
<1>2. FlagInv'
  BY DEF TypeOK, HandsInv, JoinInv, FlagInv, PanicInv
<1>3. BlameInv'
  BY DEF TypeOK, HandsInv, JobInv, LockInv, PlaceInv, JoinInv, FlagInv, ChannelInv,
        CleanInv, PanicInv, BlameInv, ChannelOpen
<1>4. /\ HandsInv' /\ JobInv' /\ LockInv' /\ PlaceInv' /\ JoinInv'
     /\ ChannelInv' /\ CleanInv' /\ PanicInv'
  BY DEF HandsInv, JobInv, LockInv, PlaceInv, JoinInv, ChannelInv, CleanInv, PanicInv
<1> QED
  BY <1>1, <1>2, <1>3, <1>4

-----------------------------------------------------------------------------
(* The spawners.                                                            *)

\* The task goes to the end of the channel.
LEMMA SubmitKeeps ==
  ASSUME NEW t \in Tasks, IInv, Submit(t)
  PROVE  IInv'
<1> USE DEF IInv, Submit, CanCall, HasSender
<1>1. TypeOK'
  BY DEF TypeOK
<1>2. HandsInv' /\ JobInv' /\ PlaceInv'
  BY DEF TypeOK, HandsInv, JobInv, LockInv, PlaceInv, JoinInv
<1>3. ChannelInv'
  <2>1. /\ DOMAIN queue' = 1 .. Len(queue) + 1 /\ queue'[Len(queue) + 1] = t
        /\ DOMAIN sent' = 1 .. Len(sent) + 1 /\ sent'[Len(sent) + 1] = t
        /\ Len(queue) \in Nat /\ Len(sent) \in Nat
        /\ \A i \in DOMAIN queue : queue'[i] = queue[i] /\ i \in DOMAIN queue'
        /\ \A i \in DOMAIN sent' : i # Len(sent) + 1 => sent'[i] = sent[i] /\ i \in DOMAIN sent
    BY DEF TypeOK
  <2> QED
    BY <2>1 DEF TypeOK, ChannelInv
<1>4. CleanInv'
  BY DEF TypeOK, HandsInv, JobInv, PlaceInv, ChannelInv, JoinInv, FlagInv, CleanInv
<1>5. PanicInv'
  BY DEF TypeOK, HandsInv, JobInv, PlaceInv, JoinInv, CleanInv, PanicInv
<1>6. BlameInv'
  BY DEF TypeOK, HandsInv, JobInv, LockInv, PlaceInv, JoinInv, FlagInv, ChannelInv,
        CleanInv, PanicInv, BlameInv, ChannelOpen
<1>7. LockInv' /\ JoinInv' /\ FlagInv'
  BY DEF LockInv, JoinInv, FlagInv
<1> QED
  BY <1>1, <1>2, <1>3, <1>4, <1>5, <1>6, <1>7

\* The receiver is gone while a sender is left.
LEMMA SubmitFailsKeeps ==
  ASSUME NEW t \in Tasks, IInv, SubmitFails(t)
  PROVE  IInv'
<1> USE DEF IInv, SubmitFails, CanCall, HasSender
<1>1. TypeOK'
  BY DEF TypeOK
<1>2. HandsInv' /\ JobInv' /\ PlaceInv'
  BY DEF TypeOK, HandsInv, JobInv, LockInv, PlaceInv, JoinInv
<1>3. ChannelInv'
  BY DEF TypeOK, HandsInv, JoinInv, ChannelInv
<1>4. CleanInv'
  BY DEF TypeOK, HandsInv, JobInv, PlaceInv, ChannelInv, JoinInv, FlagInv, CleanInv
<1>5. PanicInv'
  BY DEF TypeOK, HandsInv, JobInv, PlaceInv, JoinInv, CleanInv, PanicInv
<1>6. BlameInv'
  BY DEF TypeOK, HandsInv, JobInv, LockInv, PlaceInv, JoinInv, FlagInv, ChannelInv,
        CleanInv, PanicInv, BlameInv, ChannelOpen
<1>7. LockInv' /\ JoinInv' /\ FlagInv'
  BY DEF LockInv, JoinInv, FlagInv
<1> QED
  BY <1>1, <1>2, <1>3, <1>4, <1>5, <1>6, <1>7

\* Only the task's status changes.
LEMMA SubmitUnavailableKeeps ==
  ASSUME NEW t \in Tasks, IInv, SubmitUnavailable(t)
  PROVE  IInv'
<1> USE DEF IInv, SubmitUnavailable, CanCall, HasSender
<1>1. TypeOK'
  BY DEF TypeOK
<1>2. HandsInv' /\ JobInv' /\ PlaceInv'
  BY DEF TypeOK, HandsInv, JobInv, LockInv, PlaceInv, JoinInv
<1>3. ChannelInv'
  BY DEF TypeOK, HandsInv, JoinInv, ChannelInv
<1>4. CleanInv'
  BY DEF TypeOK, HandsInv, JobInv, PlaceInv, ChannelInv, JoinInv, FlagInv, CleanInv
<1>5. PanicInv'
  BY DEF TypeOK, HandsInv, JobInv, PlaceInv, JoinInv, CleanInv, PanicInv
<1>6. BlameInv'
  BY DEF TypeOK, HandsInv, JobInv, LockInv, PlaceInv, JoinInv, FlagInv, ChannelInv,
        CleanInv, PanicInv, BlameInv, ChannelOpen
<1>7. LockInv' /\ JoinInv' /\ FlagInv'
  BY DEF LockInv, JoinInv, FlagInv
<1> QED
  BY <1>1, <1>2, <1>3, <1>4, <1>5, <1>6, <1>7

\* The reason is true because the worker ended for it.
LEMMA ReportSendErrorKeeps ==
  ASSUME NEW t \in Tasks, IInv, ReportSendError(t)
  PROVE  IInv'
<1> USE DEF IInv, ReportSendError
<1>1. TypeOK'
  BY DEF TypeOK
<1>2. HandsInv' /\ JobInv' /\ PlaceInv'
  BY DEF TypeOK, HandsInv, JobInv, LockInv, PlaceInv, JoinInv
<1>3. ChannelInv'
  BY DEF TypeOK, HandsInv, JoinInv, ChannelInv
<1>4. CleanInv'
  BY DEF TypeOK, HandsInv, JobInv, PlaceInv, ChannelInv, JoinInv, FlagInv, CleanInv
<1>5. PanicInv'
  BY DEF TypeOK, HandsInv, JobInv, PlaceInv, JoinInv, CleanInv, PanicInv
<1>6. BlameInv'
  <2>1. task[t] = "failed" /\ ReceiverGone /\ (Caller[t] = Handle => op = "none")
    BY DEF ChannelInv, JoinInv
  <2>2. flags = FLAG_OTHER => ~up
    BY <2>1 DEF BlameInv, FlagInv
  <2>3. flags \in {FLAG_ABORT_STARTED, FLAG_CANCEL_STARTED} => Caller[t] # Handle
    BY <2>1 DEF FlagInv
  <2>4. flags = FLAG_TASK_PANICKED => wpc = "Err"
    BY <2>1 DEF PanicInv
  <2> QED
    BY <2>1, <2>2, <2>3, <2>4 DEF TypeOK, BlameInv, ChannelOpen
<1>7. LockInv' /\ JoinInv' /\ FlagInv'
  BY DEF LockInv, JoinInv, FlagInv
<1> QED
  BY <1>1, <1>2, <1>3, <1>4, <1>5, <1>6, <1>7

\* The handle has a sender already.
LEMMA NewSpawnerKeeps ==
  ASSUME NEW s \in Spawners, IInv, NewSpawner(s)
  PROVE  IInv'
<1> USE DEF IInv, NewSpawner
<1>1. TypeOK'
  BY DEF TypeOK
<1>2. BlameInv'
  BY DEF TypeOK, HandsInv, JobInv, LockInv, PlaceInv, JoinInv, FlagInv, ChannelInv,
        CleanInv, PanicInv, BlameInv, ChannelOpen
<1>3. /\ HandsInv' /\ JobInv' /\ LockInv' /\ PlaceInv' /\ JoinInv'
     /\ FlagInv' /\ ChannelInv' /\ CleanInv' /\ PanicInv'
  BY DEF HandsInv, JobInv, LockInv, PlaceInv, JoinInv, FlagInv, ChannelInv, CleanInv,
        PanicInv
<1> QED
  BY <1>1, <1>2, <1>3

\* A sender less never opens the channel.
LEMMA DropSpawnerKeeps ==
  ASSUME NEW s \in Spawners, IInv, DropSpawner(s)
  PROVE  IInv'
<1> USE DEF IInv, DropSpawner
<1>1. TypeOK'
  BY DEF TypeOK
<1>2. BlameInv'
  BY DEF TypeOK, HandsInv, JobInv, LockInv, PlaceInv, JoinInv, FlagInv, ChannelInv,
        CleanInv, PanicInv, BlameInv, ChannelOpen
<1>3. /\ HandsInv' /\ JobInv' /\ LockInv' /\ PlaceInv' /\ JoinInv'
     /\ FlagInv' /\ ChannelInv' /\ CleanInv' /\ PanicInv'
  BY DEF HandsInv, JobInv, LockInv, PlaceInv, JoinInv, FlagInv, ChannelInv, CleanInv,
        PanicInv
<1> QED
  BY <1>1, <1>2, <1>3

-----------------------------------------------------------------------------
(* The cancellers.                                                          *)

\* Only the canceller moves.
LEMMA CancelReadFlagKeeps ==
  ASSUME NEW t \in Tasks, IInv, CancelReadFlag(t)
  PROVE  IInv'
<1> USE DEF IInv, CancelReadFlag
<1>1. TypeOK'
  BY DEF TypeOK
<1>2. /\ HandsInv' /\ JobInv' /\ LockInv' /\ PlaceInv' /\ JoinInv'
     /\ FlagInv' /\ ChannelInv' /\ CleanInv' /\ PanicInv' /\ BlameInv'
  BY DEF HandsInv, JobInv, LockInv, PlaceInv, JoinInv, FlagInv, ChannelInv, CleanInv,
        PanicInv, BlameInv, ChannelOpen
<1> QED
  BY <1>1, <1>2

\* Only the canceller moves.
LEMMA CancelUpgradeKeeps ==
  ASSUME NEW t \in Tasks, IInv, CancelUpgrade(t)
  PROVE  IInv'
<1> USE DEF IInv, CancelUpgrade
<1>1. TypeOK'
  BY DEF TypeOK
<1>2. /\ HandsInv' /\ JobInv' /\ LockInv' /\ PlaceInv' /\ JoinInv'
     /\ FlagInv' /\ ChannelInv' /\ CleanInv' /\ PanicInv' /\ BlameInv'
  BY DEF HandsInv, JobInv, LockInv, PlaceInv, JoinInv, FlagInv, ChannelInv, CleanInv,
        PanicInv, BlameInv, ChannelOpen
<1> QED
  BY <1>1, <1>2

\* A task that is queued or kept is destroyed.
LEMMA CancelTakeKeeps ==
  ASSUME NEW t \in Tasks, IInv, CancelTake(t)
  PROVE  IInv'
<1> USE DEF IInv, CancelTake, Takeable
<1>1. TypeOK'
  <2>1. CASE Takeable(t)
    <3>1. task' = [task EXCEPT ![t] = "cancelled"] /\ cx' = [cx EXCEPT ![t] = "won"]
      BY <2>1, Zenon
    <3> QED
      BY <3>1 DEF TypeOK
  <2>2. CASE ~Takeable(t)
    <3>1. task' = task /\ cx' = [cx EXCEPT ![t] = "idle"]
      BY <2>2, Zenon
    <3> QED
      BY <3>1 DEF TypeOK
  <2> QED
    BY <2>1, <2>2
<1>2. HandsInv' /\ JobInv' /\ PlaceInv'
  BY DEF TypeOK, HandsInv, JobInv, LockInv, PlaceInv, JoinInv
<1>3. ChannelInv'
  BY DEF TypeOK, HandsInv, JoinInv, ChannelInv
<1>4. CleanInv'
  BY DEF TypeOK, HandsInv, JobInv, PlaceInv, ChannelInv, JoinInv, FlagInv, CleanInv
<1>5. PanicInv'
  BY DEF TypeOK, HandsInv, JobInv, PlaceInv, JoinInv, CleanInv, PanicInv
<1>6. BlameInv'
  BY DEF TypeOK, HandsInv, JobInv, LockInv, PlaceInv, JoinInv, FlagInv, ChannelInv,
        CleanInv, PanicInv, BlameInv, ChannelOpen
<1>7. LockInv' /\ JoinInv' /\ FlagInv'
  BY DEF LockInv, JoinInv, FlagInv
<1> QED
  BY <1>1, <1>2, <1>3, <1>4, <1>5, <1>6, <1>7

\* Only the canceller moves.
LEMMA CancelStoreKeeps ==
  ASSUME NEW t \in Tasks, IInv, CancelStore(t)
  PROVE  IInv'
<1> USE DEF IInv, CancelStore
<1>1. TypeOK'
  BY DEF TypeOK
<1>2. /\ HandsInv' /\ JobInv' /\ LockInv' /\ PlaceInv' /\ JoinInv'
     /\ FlagInv' /\ ChannelInv' /\ CleanInv' /\ PanicInv' /\ BlameInv'
  BY DEF HandsInv, JobInv, LockInv, PlaceInv, JoinInv, FlagInv, ChannelInv, CleanInv,
        PanicInv, BlameInv, ChannelOpen
<1> QED
  BY <1>1, <1>2

-----------------------------------------------------------------------------
(* The owner of the WorkerHandle.                                           *)

\* Senders less never open the channel.
LEMMA CloseSendersKeeps == ASSUME IInv, CloseSenders PROVE IInv'
<1> USE DEF IInv, CloseSenders, NotBorrowed, TakeCtx
<1>1. TypeOK'
  BY DEF TypeOK
<1>2. BlameInv'
  BY DEF TypeOK, HandsInv, JobInv, LockInv, PlaceInv, JoinInv, FlagInv, ChannelInv,
        CleanInv, PanicInv, BlameInv, ChannelOpen
<1>3. /\ HandsInv' /\ JobInv' /\ LockInv' /\ PlaceInv' /\ JoinInv'
     /\ FlagInv' /\ ChannelInv' /\ CleanInv' /\ PanicInv'
  BY DEF HandsInv, JobInv, LockInv, PlaceInv, JoinInv, FlagInv, ChannelInv, CleanInv,
        PanicInv
<1> QED
  BY <1>1, <1>2, <1>3

\* No call through the handle is in progress.
LEMMA ConsumeKeeps ==
  ASSUME NEW o \in Aborts \cup Cancels \cup Joins \cup {"drop"}, IInv, Consume(o)
  PROVE  IInv'
<1> USE DEF IInv, Consume, NotBorrowed
<1>1. TypeOK'
  BY DEF TypeOK
<1>2. LockInv'
  BY DEF TypeOK, HandsInv, JobInv, LockInv, PlaceInv, JoinInv
<1>3. JoinInv'
  BY DEF TypeOK, JoinInv, FlagInv
<1>4. FlagInv'
  BY DEF TypeOK, HandsInv, JoinInv, FlagInv, PanicInv
<1>5. ChannelInv'
  BY DEF TypeOK, HandsInv, JoinInv, ChannelInv
<1>6. CleanInv'
  BY DEF TypeOK, HandsInv, JobInv, PlaceInv, ChannelInv, JoinInv, FlagInv, CleanInv
<1>7. BlameInv'
  BY DEF TypeOK, HandsInv, JobInv, LockInv, PlaceInv, JoinInv, FlagInv, ChannelInv,
        CleanInv, PanicInv, BlameInv, ChannelOpen
<1>8. HandsInv' /\ JobInv' /\ PlaceInv' /\ PanicInv'
  BY DEF HandsInv, JobInv, PlaceInv, PanicInv
<1> QED
  BY <1>1, <1>2, <1>3, <1>4, <1>5, <1>6, <1>7, <1>8

\* Only the owner moves.
LEMMA CheckFinishedKeeps == ASSUME IInv, CheckFinished PROVE IInv'
<1> USE DEF IInv, CheckFinished
<1>1. TypeOK'
  BY DEF TypeOK
<1>2. LockInv'
  BY DEF TypeOK, HandsInv, JobInv, LockInv, PlaceInv, JoinInv
<1>3. JoinInv'
  BY DEF TypeOK, JoinInv, FlagInv
<1>4. FlagInv'
  BY DEF TypeOK, HandsInv, JoinInv, FlagInv, PanicInv
<1>5. ChannelInv'
  BY DEF TypeOK, HandsInv, JoinInv, ChannelInv
<1>6. BlameInv'
  BY DEF TypeOK, HandsInv, JobInv, LockInv, PlaceInv, JoinInv, FlagInv, ChannelInv,
        CleanInv, PanicInv, BlameInv, ChannelOpen
<1>7. HandsInv' /\ JobInv' /\ PlaceInv' /\ CleanInv' /\ PanicInv'
  BY DEF HandsInv, JobInv, PlaceInv, CleanInv, PanicInv
<1> QED
  BY <1>1, <1>2, <1>3, <1>4, <1>5, <1>6, <1>7

\* The flags change only if nothing was set.
LEMMA TrySetAbortKeeps == ASSUME IInv, TrySetAbort PROVE IInv'
<1> USE DEF IInv, TrySetAbort, TrySetFlag, DidSetFlag
<1>1. TypeOK'
  BY DEF TypeOK
<1>2. LockInv'
  BY DEF TypeOK, HandsInv, JobInv, LockInv, PlaceInv, JoinInv
<1>3. JoinInv'
  BY DEF TypeOK, JoinInv, FlagInv
<1>4. FlagInv'
  BY DEF TypeOK, HandsInv, JoinInv, FlagInv, PanicInv
<1>5. ChannelInv'
  BY DEF TypeOK, HandsInv, JoinInv, ChannelInv
<1>6. PanicInv'
  BY DEF TypeOK, HandsInv, JobInv, PlaceInv, JoinInv, CleanInv, PanicInv
<1>7. BlameInv'
  BY DEF TypeOK, HandsInv, JobInv, LockInv, PlaceInv, JoinInv, FlagInv, ChannelInv,
        CleanInv, PanicInv, BlameInv, ChannelOpen
<1>8. HandsInv' /\ JobInv' /\ PlaceInv' /\ CleanInv'
  BY DEF HandsInv, JobInv, PlaceInv, CleanInv
<1> QED
  BY <1>1, <1>2, <1>3, <1>4, <1>5, <1>6, <1>7, <1>8

\* The flags change only if nothing was set.
LEMMA TrySetCancelKeeps == ASSUME IInv, TrySetCancel PROVE IInv'
<1> USE DEF IInv, TrySetCancel, TrySetFlag
<1>1. TypeOK'
  BY DEF TypeOK
<1>2. LockInv'
  BY DEF TypeOK, HandsInv, JobInv, LockInv, PlaceInv, JoinInv
<1>3. JoinInv'
  BY DEF TypeOK, JoinInv, FlagInv
<1>4. FlagInv'
  BY DEF TypeOK, HandsInv, JoinInv, FlagInv, PanicInv
<1>5. ChannelInv'
  BY DEF TypeOK, HandsInv, JoinInv, ChannelInv
<1>6. PanicInv'
  BY DEF TypeOK, HandsInv, JobInv, PlaceInv, JoinInv, CleanInv, PanicInv
<1>7. BlameInv'
  BY DEF TypeOK, HandsInv, JobInv, LockInv, PlaceInv, JoinInv, FlagInv, ChannelInv,
        CleanInv, PanicInv, BlameInv, ChannelOpen
<1>8. HandsInv' /\ JobInv' /\ PlaceInv' /\ CleanInv'
  BY DEF HandsInv, JobInv, PlaceInv, CleanInv
<1> QED
  BY <1>1, <1>2, <1>3, <1>4, <1>5, <1>6, <1>7, <1>8

\* The flag was set before.
LEMMA AbortWorkerKeeps == ASSUME IInv, AbortWorker PROVE IInv'
<1> USE DEF IInv, AbortWorker
<1>1. TypeOK'
  BY DEF TypeOK
<1>2. LockInv'
  BY DEF TypeOK, HandsInv, JobInv, LockInv, PlaceInv, JoinInv
<1>3. JoinInv'
  BY DEF TypeOK, JoinInv, FlagInv
<1>4. FlagInv'
  BY DEF TypeOK, HandsInv, JoinInv, FlagInv, PanicInv
<1>5. ChannelInv'
  BY DEF TypeOK, HandsInv, JoinInv, ChannelInv
<1>6. BlameInv'
  BY DEF TypeOK, HandsInv, JobInv, LockInv, PlaceInv, JoinInv, FlagInv, ChannelInv,
        CleanInv, PanicInv, BlameInv, ChannelOpen
<1>7. HandsInv' /\ JobInv' /\ PlaceInv' /\ CleanInv' /\ PanicInv'
  BY DEF HandsInv, JobInv, PlaceInv, CleanInv, PanicInv
<1> QED
  BY <1>1, <1>2, <1>3, <1>4, <1>5, <1>6, <1>7

\* Senders less never open the channel.
LEMMA CloseAllKeeps == ASSUME IInv, CloseAll PROVE IInv'
<1> USE DEF IInv, CloseAll, TakeCtx
<1>1. TypeOK'
  BY DEF TypeOK
<1>2. LockInv'
  BY DEF TypeOK, HandsInv, JobInv, LockInv, PlaceInv, JoinInv
<1>3. JoinInv'
  BY DEF TypeOK, JoinInv, FlagInv
<1>4. FlagInv'
  BY DEF TypeOK, HandsInv, JoinInv, FlagInv, PanicInv
<1>5. ChannelInv'
  BY DEF TypeOK, HandsInv, JoinInv, ChannelInv
<1>6. BlameInv'
  BY DEF TypeOK, HandsInv, JobInv, LockInv, PlaceInv, JoinInv, FlagInv, ChannelInv,
        CleanInv, PanicInv, BlameInv, ChannelOpen
<1>7. HandsInv' /\ JobInv' /\ PlaceInv' /\ CleanInv' /\ PanicInv'
  BY DEF HandsInv, JobInv, PlaceInv, CleanInv, PanicInv
<1> QED
  BY <1>1, <1>2, <1>3, <1>4, <1>5, <1>6, <1>7

\* A sender less never opens the channel.
LEMMA DropSendersKeeps == ASSUME IInv, DropSenders PROVE IInv'
<1> USE DEF IInv, DropSenders
<1>1. TypeOK'
  <2>1. tx' \in BOOLEAN
    OBVIOUS
  <2>2. leftover' \in SUBSET Tasks
    BY DEF TypeOK, Range
  <2> QED
    BY <2>1, <2>2 DEF TypeOK
<1>2. LockInv'
  BY DEF TypeOK, HandsInv, JobInv, LockInv, PlaceInv, JoinInv
<1>3. JoinInv'
  BY DEF TypeOK, JoinInv, FlagInv
<1>4. FlagInv'
  BY DEF TypeOK, HandsInv, JoinInv, FlagInv, PanicInv
<1>5. ChannelInv'
  BY DEF TypeOK, HandsInv, JoinInv, ChannelInv
<1>6. BlameInv'
  BY DEF TypeOK, HandsInv, JobInv, LockInv, PlaceInv, JoinInv, FlagInv, ChannelInv,
        CleanInv, PanicInv, BlameInv, ChannelOpen
<1>7. HandsInv' /\ JobInv' /\ PlaceInv' /\ CleanInv' /\ PanicInv'
  BY DEF HandsInv, JobInv, PlaceInv, CleanInv, PanicInv
<1> QED
  BY <1>1, <1>2, <1>3, <1>4, <1>5, <1>6, <1>7

\* The JoinHandle is complete.
LEMMA JoinAwaitKeeps == ASSUME IInv, JoinAwait PROVE IInv'
<1> USE DEF IInv, JoinAwait
<1>1. TypeOK'
  BY DEF TypeOK
<1>2. LockInv'
  BY DEF TypeOK, HandsInv, JobInv, LockInv, PlaceInv, JoinInv
<1>3. JoinInv'
  BY DEF TypeOK, JoinInv, FlagInv
<1>4. FlagInv'
  BY DEF TypeOK, HandsInv, JoinInv, FlagInv, PanicInv
<1>5. ChannelInv'
  BY DEF TypeOK, HandsInv, JoinInv, ChannelInv
<1>6. BlameInv'
  BY DEF TypeOK, HandsInv, JobInv, LockInv, PlaceInv, JoinInv, FlagInv, ChannelInv,
        CleanInv, PanicInv, BlameInv, ChannelOpen
<1>7. HandsInv' /\ JobInv' /\ PlaceInv' /\ CleanInv' /\ PanicInv'
  BY DEF HandsInv, JobInv, PlaceInv, CleanInv, PanicInv
<1> QED
  BY <1>1, <1>2, <1>3, <1>4, <1>5, <1>6, <1>7

\* The lock was free, so no task runs.
LEMMA JoinLockKeeps == ASSUME IInv, JoinLock PROVE IInv'
<1> USE DEF IInv, JoinLock
<1>1. TypeOK'
  BY DEF TypeOK
<1>2. LockInv'
  BY DEF TypeOK, HandsInv, JobInv, LockInv, PlaceInv, JoinInv
<1>3. JoinInv'
  BY DEF TypeOK, JoinInv, FlagInv
<1>4. FlagInv'
  BY DEF TypeOK, HandsInv, JoinInv, FlagInv, PanicInv
<1>5. ChannelInv'
  BY DEF TypeOK, HandsInv, JoinInv, ChannelInv
<1>6. BlameInv'
  BY DEF TypeOK, HandsInv, JobInv, LockInv, PlaceInv, JoinInv, FlagInv, ChannelInv,
        CleanInv, PanicInv, BlameInv, ChannelOpen
<1>7. HandsInv' /\ JobInv' /\ PlaceInv' /\ CleanInv' /\ PanicInv'
  BY DEF HandsInv, JobInv, PlaceInv, CleanInv, PanicInv
<1> QED
  BY <1>1, <1>2, <1>3, <1>4, <1>5, <1>6, <1>7

\* The state was there, because no one else takes it.
LEMMA JoinTakeKeeps == ASSUME IInv, JoinTake PROVE IInv'
<1> USE DEF IInv, JoinTake
<1>1. TypeOK'
  <2>1. present' \in BOOLEAN
    OBVIOUS
  <2> QED
    BY <2>1 DEF TypeOK
<1>2. LockInv'
  BY DEF TypeOK, HandsInv, JobInv, LockInv, PlaceInv, JoinInv
<1>3. JoinInv'
  BY DEF TypeOK, JoinInv, FlagInv
<1>4. FlagInv'
  BY DEF TypeOK, HandsInv, JoinInv, FlagInv, PanicInv
<1>5. ChannelInv'
  BY DEF TypeOK, HandsInv, JoinInv, ChannelInv
<1>6. CleanInv'
  BY DEF TypeOK, HandsInv, JobInv, PlaceInv, ChannelInv, JoinInv, FlagInv, CleanInv
<1>7. PanicInv'
  BY DEF TypeOK, HandsInv, JobInv, PlaceInv, JoinInv, CleanInv, PanicInv
<1>8. BlameInv'
  BY DEF TypeOK, HandsInv, JobInv, LockInv, PlaceInv, JoinInv, FlagInv, ChannelInv,
        CleanInv, PanicInv, BlameInv, ChannelOpen
<1>9. HandsInv' /\ JobInv' /\ PlaceInv'
  BY DEF HandsInv, JobInv, PlaceInv
<1> QED
  BY <1>1, <1>2, <1>3, <1>4, <1>5, <1>6, <1>7, <1>8, <1>9

\* What is reported is what the worker's end and the flags say.
LEMMA JoinReportKeeps == ASSUME IInv, JoinReport PROVE IInv'
<1> USE DEF IInv, JoinReport, JoinOutcome
<1>1. TypeOK'
  BY DEF TypeOK
<1>2. LockInv'
  BY DEF TypeOK, HandsInv, JobInv, LockInv, PlaceInv, JoinInv
<1>3. JoinInv'
  BY DEF TypeOK, JoinInv, FlagInv
<1>4. FlagInv'
  BY DEF TypeOK, HandsInv, JoinInv, FlagInv, PanicInv
<1>5. ChannelInv'
  BY DEF TypeOK, HandsInv, JoinInv, ChannelInv
<1>6. CleanInv'
  BY DEF TypeOK, HandsInv, JobInv, PlaceInv, ChannelInv, JoinInv, FlagInv, CleanInv
<1>7. PanicInv'
  BY DEF TypeOK, HandsInv, JobInv, PlaceInv, JoinInv, CleanInv, PanicInv
<1>8. BlameInv'
  BY DEF TypeOK, HandsInv, JobInv, LockInv, PlaceInv, JoinInv, FlagInv, ChannelInv,
        CleanInv, PanicInv, BlameInv, ChannelOpen
<1>9. HandsInv' /\ JobInv' /\ PlaceInv'
  BY DEF HandsInv, JobInv, PlaceInv
<1> QED
  BY <1>1, <1>2, <1>3, <1>4, <1>5, <1>6, <1>7, <1>8, <1>9

\* Only the owner moves.
LEMMA DropJoinKeeps == ASSUME IInv, DropJoin PROVE IInv'
<1> USE DEF IInv, DropJoin
<1>1. TypeOK'
  BY DEF TypeOK
<1>2. LockInv'
  BY DEF TypeOK, HandsInv, JobInv, LockInv, PlaceInv, JoinInv
<1>3. JoinInv'
  BY DEF TypeOK, JoinInv, FlagInv
<1>4. FlagInv'
  BY DEF TypeOK, HandsInv, JoinInv, FlagInv, PanicInv
<1>5. ChannelInv'
  BY DEF TypeOK, HandsInv, JoinInv, ChannelInv
<1>6. BlameInv'
  BY DEF TypeOK, HandsInv, JobInv, LockInv, PlaceInv, JoinInv, FlagInv, ChannelInv,
        CleanInv, PanicInv, BlameInv, ChannelOpen
<1>7. HandsInv' /\ JobInv' /\ PlaceInv' /\ CleanInv' /\ PanicInv'
  BY DEF HandsInv, JobInv, PlaceInv, CleanInv, PanicInv
<1> QED
  BY <1>1, <1>2, <1>3, <1>4, <1>5, <1>6, <1>7

-----------------------------------------------------------------------------
(* Every step, and what follows.                                            *)

\* One case for each of the groups that Next is made of.
LEMMA StepInv == IInv /\ [Next]_vars => IInv'
<1> SUFFICES ASSUME IInv, [Next]_vars
             PROVE  IInv'
  OBVIOUS
<1>1. CASE Loop
  BY <1>1, RecvKeeps, RecvClosedKeeps, ObserveCancelKeeps, PassFlagKeeps,
     TakeTaskKeeps, SkipCancelledKeeps, StartAsyncKeeps, StartBlockingKeeps,
     StartBlockingShutdownKeeps, BlockingReturnedKeeps, BlockingPanickedKeeps,
     BlockingLostKeeps, SetMsgKeeps, SetFlagKeeps, SendPanicKeeps,
     ReturnErrKeeps DEF Loop
<1>2. CASE AsyncBody \/ Pool \/ PoolBody
  BY <1>2, AsyncReturnsKeeps, AsyncPanicsKeeps, PoolStartKeeps, PoolRefuseKeeps,
     PoolShutdownKeeps, PoolReturnsKeeps, PoolPanicsKeeps DEF AsyncBody, Pool,
     PoolBody
<1>3. CASE Drops \/ CompleteJoinHandle \/ Shutdown
  BY <1>3, DropAtRecvKeeps, DropInAsyncKeeps, DropInBlockingKeeps,
     CompleteJoinHandleKeeps, ShutdownKeeps DEF Drops
<1>4. CASE SenderNext
  BY <1>4, SubmitKeeps, SubmitFailsKeeps, SubmitUnavailableKeeps,
     ReportSendErrorKeeps, NewSpawnerKeeps, DropSpawnerKeeps DEF SenderNext
<1>5. CASE CancellerNext
  BY <1>5, CancelReadFlagKeeps, CancelUpgradeKeeps, CancelTakeKeeps, CancelStoreKeeps
     DEF CancellerNext, CancelRuns
<1>6. CASE HandleNext
  BY <1>6, CheckFinishedKeeps, TrySetAbortKeeps, TrySetCancelKeeps,
     AbortWorkerKeeps, CloseAllKeeps, DropSendersKeeps, JoinAwaitKeeps,
     JoinLockKeeps, JoinTakeKeeps, JoinReportKeeps, CloseSendersKeeps,
     ConsumeKeeps, DropJoinKeeps DEF HandleNext, HandleRuns, JoinRuns
<1>7. CASE UNCHANGED vars
  BY <1>7 DEF vars, IInv, TypeOK, HandsInv, JobInv, LockInv, PlaceInv, JoinInv,
     FlagInv, ChannelInv, CleanInv, PanicInv, BlameInv, ChannelOpen
<1> QED
  BY <1>1, <1>2, <1>3, <1>4, <1>5, <1>6, <1>7 DEF Next, WorkerNext

(***************************************************************************)
(* The inductive invariant holds in every execution, whatever the tasks,   *)
(* the spawners and the places the tasks are spawned from.                 *)
(***************************************************************************)
THEOREM InvHolds == Spec => []IInv
<1> QED
  BY InitInv, StepInv, PTL DEF Spec

\* The types are part of the invariant.
LEMMA TypeFollows == IInv => TypeOK
BY DEF IInv

(***************************************************************************)
(* The variables keep their types; in particular the atomic byte never     *)
(* holds two flags at once, so WorkerStatus::flag() does not reach its     *)
(* unreachable!().                                                         *)
(***************************************************************************)
THEOREM TypeHolds == Spec => []TypeOK
<1> QED
  BY TypeFollows, InvHolds, PTL

\* A task that runs is in the worker's poll or on the pool, and the lock says where.
LEMMA ExclusiveFollows == IInv => Exclusive
<1> SUFFICES ASSUME IInv PROVE Exclusive
  OBVIOUS
<1>1. \A a, b \in Tasks : task[a] = "running" /\ task[b] = "running" => a = b
  BY DEF IInv, PlaceInv
<1>2. ASSUME NEW t \in Tasks, task[t] = "running"
      PROVE  present /\ lock # "join"
  BY <1>2 DEF IInv, PlaceInv, LockInv
<1> QED
  BY <1>1, <1>2 DEF Exclusive

(***************************************************************************)
(* Two tasks are never at the state together, and none is at it while a    *)
(* join takes it or has taken it.                                          *)
(***************************************************************************)
THEOREM ExclusiveHolds == Spec => []Exclusive
<1> QED
  BY ExclusiveFollows, InvHolds, PTL

\* The worker ended well, so no accepted task waits or was left half done.
LEMMA CleanJoinFollows == IInv => CleanJoin
<1> SUFFICES ASSUME IInv, hres = "Ok", NEW i \in DOMAIN sent
             PROVE  task[sent[i]] \in {"done", "cancelled"} \cup
                      (IF op = "cancel_and_join" THEN {"dropped", "kept"} ELSE {})
  BY DEF CleanJoin, Range
<1>1. sent[i] \in Tasks /\ task[sent[i]] \in TaskStatus
  BY DEF IInv, TypeOK
<1>2. wpc = "Ok" /\ op \in Joins /\ job = "none"
  BY DEF IInv, CleanInv, JoinInv, JobInv
<1>3. task[sent[i]] \notin {"queued", "taken", "running"}
  BY <1>1, <1>2 DEF IInv, ChannelInv, PlaceInv
<1>4. task[sent[i]] \notin {"unwound", "panicked", "broken"}
  BY <1>1, <1>2 DEF IInv, CleanInv
<1>5. task[sent[i]] \in {"dropped", "kept"} => op = "cancel_and_join"
  BY <1>1, <1>2 DEF IInv, CleanInv, FlagInv
<1>6. task[sent[i]] \in {"done", "cancelled", "dropped", "kept"}
  BY <1>1, <1>3, <1>4 DEF IInv, ChannelInv
<1> QED
  BY <1>5, <1>6

(***************************************************************************)
(* A state that a join returns as Ok was left by tasks that all returned:  *)
(* no accepted task was broken off or lost, but for those that             *)
(* cancel_and_join was told to drop.                                       *)
(***************************************************************************)
THEOREM CleanJoinHolds == Spec => []CleanJoin
<1> QED
  BY CleanJoinFollows, InvHolds, PTL

\* The flag, the message and the panic channel tell of one panic.
LEMMA PanicReachesJoinFollows == IInv => PanicReachesJoin
BY DEF IInv, PanicInv, JoinInv, PanicReachesJoin

(***************************************************************************)
(* A join that returns reports a panic if and only if a TaskHandle can see *)
(* one, and with the message of a task that panicked.                      *)
(***************************************************************************)
THEOREM PanicReachesJoinHolds == Spec => []PanicReachesJoin
<1> QED
  BY PanicReachesJoinFollows, InvHolds, PTL

\* Who is named did it, since only abort_and_join aborts and joins.
LEMMA BlameIsTrueFollows == IInv => BlameIsTrue
BY DEF IInv, JoinInv, FlagInv, PanicInv, BlameInv, BlameIsTrue

(***************************************************************************)
(* The reasons that send() and the joins give for a failure are true.      *)
(***************************************************************************)
THEOREM BlameIsTrueHolds == Spec => []BlameIsTrue
<1> QED
  BY BlameIsTrueFollows, InvHolds, PTL

\* Both are parts of the invariant.
LEMMA NoPanicOfItsOwnFollows == IInv => NoPanicOfItsOwn
BY DEF IInv, JoinInv, BlameInv, NoPanicOfItsOwn

(***************************************************************************)
(* The unreachable!() of WorkerHandle::send and the expect() of            *)
(* join_worker are not reached.                                            *)
(***************************************************************************)
THEOREM NoPanicOfItsOwnHolds == Spec => []NoPanicOfItsOwn
<1> QED
  BY NoPanicOfItsOwnFollows, InvHolds, PTL

\* A join asks for the lock after the end of the worker.
LEMMA StateIsThereFollows == IInv => StateIsThere
BY DEF IInv, JoinInv, LockInv, BlameInv, StateIsThere

(***************************************************************************)
(* While the worker lives, no join has the state or waits with its lock;   *)
(* and a closure misses the state only after an abort or a shutdown.       *)
(***************************************************************************)
THEOREM StateIsThereHolds == Spec => []StateIsThere
<1> QED
  BY StateIsThereFollows, InvHolds, PTL

\* Only StartAsync and PoolStart let a task begin, and a task that unwound is in
\* the worker's hands, behind the points from which they start, or the worker ended.
LEMMA StepBeginsNothingAfterPanic ==
  ASSUME IInv, [Next]_vars, NEW t \in Tasks, task[t] \in {"unwound", "panicked"}
  PROVE  data' = data
<1>1. wpc # "start" /\ job # "queued"
  BY DEF IInv, CleanInv
<1>2. ~StartAsync /\ ~PoolStart
  BY <1>1 DEF StartAsync, PoolStart
<1>3. CASE WorkerNext
  <2>1. CASE Loop
    BY <1>2, <2>1 DEF Loop, Recv, RecvClosed, ObserveCancel, PassFlag, TakeTask, SkipCancelled,
       StartBlocking, StartBlockingShutdown, BlockingReturned, BlockingPanicked, BlockingLost,
       SetMsg, SetFlag, SendPanic, ReturnErr
  <2>2. CASE AsyncBody \/ Pool \/ PoolBody
    BY <1>2, <2>2 DEF AsyncBody, Pool, PoolBody, AsyncReturns, AsyncPanics, PoolRefuse,
       PoolShutdown, PoolReturns, PoolPanics
  <2>3. CASE Drops \/ CompleteJoinHandle \/ Shutdown
    BY <2>3 DEF Drops, DropAtRecv, DropInAsync, DropInBlocking, CompleteJoinHandle, Shutdown
  <2> QED
    BY <1>3, <2>1, <2>2, <2>3 DEF WorkerNext
<1>4. CASE SenderNext \/ CancellerNext
  BY <1>4 DEF SenderNext, CancellerNext, Submit, SubmitFails, SubmitUnavailable, ReportSendError,
     NewSpawner, DropSpawner, CancelReadFlag, CancelRuns, CancelUpgrade, CancelTake, CancelStore
<1>5. CASE HandleNext
  BY <1>5 DEF HandleNext, HandleRuns, JoinRuns, CloseSenders, Consume, CheckFinished, TrySetAbort,
     TrySetCancel, AbortWorker, CloseAll, DropSenders, JoinAwait, JoinLock, JoinTake, JoinReport,
     DropJoin
<1>6. CASE UNCHANGED vars
  BY <1>6 DEF vars
<1> QED
  BY <1>3, <1>4, <1>5, <1>6 DEF Next

(***************************************************************************)
(* From the unwinding of a task on, no task begins on the state it left.   *)
(***************************************************************************)
THEOREM NothingBeginsAfterPanicHolds == Spec => NothingBeginsAfterPanic
<1> DEFINE Quiet == (\E t \in Tasks : task[t] \in {"unwound", "panicked"}) => data' = data
<1>1. IInv /\ [Next]_vars => [Quiet]_vars
  BY StepBeginsNothingAfterPanic
<1> QED
  BY <1>1, InvHolds, PTL DEF Spec, NothingBeginsAfterPanic
=============================================================================
