------------------------ MODULE SpawnerQueriesProof ------------------------
(***************************************************************************)
(* Proofs about SpawnerQueries: what has_panicked() and is_unavailable()   *)
(* answer stands, for any sets of tasks and spawners.                      *)
(***************************************************************************)
EXTENDS SpawnerQueries, TaskHandleSystem

USE DEF statusVars, channelVars, mutexVars, workerVars, tokioVars, handleVars, cancellerVars,
        aside, senderAside, cancelAside, handleAside, ReceiverGone, Stopping, Ends,
        Awaits, Steps, Flags, TaskStatus, StatusTypeOK, FLAG_OTHER, FLAG_ABORT_STARTED,
        FLAG_CANCEL_STARTED, FLAG_TASK_PANICKED, Aborts, Cancels, Joins, JoinErrors

USE NoTaskAssumption, ConstantsAssumption

\* From the moment the flags show a panic, no task begins.
LEMMA FlagBeginsNothing ==
  ASSUME PollInv, [PollNext]_allVars, flags = FLAG_TASK_PANICKED
  PROVE  data' = data
<1>1. \E p \in Tasks : task[p] \in {"unwound", "panicked"}
  <2>1. CASE wpc = "Err"
    BY <2>1 DEF PollInv, IInv, PanicInv
  <2>2. CASE wpc # "Err"
    BY <2>2 DEF PollInv, IInv, TypeOK, HandsInv, PanicInv
  <2> QED
    BY <2>1, <2>2
<1>2. CASE [Next]_vars
  BY <1>1, <1>2, StepBeginsNothingAfterPanic DEF PollInv
<1>3. ASSUME NEW t \in Watched, PollRuns(t) \/ PollAgain(t)
      PROVE  data' = data
  BY <1>3, PollsSpare
<1>4. CASE UNCHANGED allVars
  BY <1>2, <1>4 DEF allVars
<1> QED
  BY <1>2, <1>3, <1>4 DEF PollNext

\* Only spawn() touches a task that was not spawned.
LEMMA NewStays ==
  ASSUME IInv, LineInv, [Next]_vars, NEW t \in Tasks, task[t] = "new"
  PROVE  task'[t] = "new" \/ Submit(t) \/ SubmitFails(t) \/ SubmitUnavailable(t)
<1>1. /\ task \in [Tasks -> TaskStatus] /\ cur # t
  BY DEF IInv, TypeOK, LineInv, OrderInv, HandsInv, JobInv
<1>2. CASE Loop
  BY <1>1, <1>2 DEF Loop, Recv, RecvClosed, ObserveCancel, PassFlag, TakeTask, SkipCancelled,
     StartAsync, StartBlocking, StartBlockingShutdown, BlockingReturned, BlockingPanicked,
     BlockingLost, SetMsg, SetFlag, SendPanic, ReturnErr, NextTask, DestroyLocals
<1>3. CASE AsyncBody \/ Pool \/ PoolBody
  BY <1>1, <1>3 DEF AsyncBody, Pool, PoolBody, AsyncReturns, AsyncPanics, PoolStart, PoolRefuse,
     PoolShutdown, PoolReturns, PoolPanics, NextTask
<1>4. CASE Drops \/ CompleteJoinHandle \/ Shutdown
  BY <1>1, <1>4 DEF Drops, DropAtRecv, DropInAsync, DropInBlocking, CompleteJoinHandle, Shutdown,
     DestroyLocals
<1>5. CASE SenderNext
  BY <1>1, <1>5 DEF SenderNext, Submit, SubmitFails, SubmitUnavailable, ReportSendError, NewSpawner,
     DropSpawner
<1>6. CASE CancellerNext
  BY <1>1, <1>6 DEF CancellerNext, CancelRuns, CancelReadFlag, CancelUpgrade, CancelTake,
     CancelStore, Takeable
<1>7. CASE HandleNext
  BY <1>1, <1>7 DEF HandleNext, HandleRuns, JoinRuns, CloseSenders, Consume, CheckFinished,
     TrySetAbort, TrySetCancel, AbortWorker, CloseAll, DropSenders, JoinAwait, JoinLock,
     JoinTake, JoinReport, DropJoin
<1>8. CASE UNCHANGED vars
  BY <1>8 DEF vars
<1> QED
  BY <1>2, <1>3, <1>4, <1>5, <1>6, <1>7, <1>8 DEF Next, WorkerNext

\* A spawner without its ctx gets no other.
LEMMA ClosedStaysClosed ==
  ASSUME IInv, [Next]_vars, NEW s \in Spawners, spawner[s] \in {"closed", "dropped"}
  PROVE  spawner'[s] \in {"closed", "dropped"}
<1>1. spawner \in [Spawners -> {"none", "open", "closed", "dropped"}]
  BY DEF IInv, TypeOK
<1>2. CASE WorkerNext
  BY <1>1, <1>2 DEF WorkerNext, Loop, AsyncBody, Pool, PoolBody, Drops, Recv, RecvClosed,
     ObserveCancel, PassFlag, TakeTask, SkipCancelled, StartAsync, StartBlocking,
     StartBlockingShutdown, BlockingReturned, BlockingPanicked, BlockingLost, SetMsg, SetFlag,
     SendPanic, ReturnErr, AsyncReturns, AsyncPanics, PoolStart, PoolRefuse, PoolShutdown,
     PoolReturns, PoolPanics, DropAtRecv, DropInAsync, DropInBlocking, CompleteJoinHandle,
     Shutdown
<1>3. CASE SenderNext \/ CancellerNext
  BY <1>1, <1>3 DEF SenderNext, CancellerNext, CancelRuns, Submit, SubmitFails, SubmitUnavailable,
     ReportSendError, NewSpawner, DropSpawner, CancelReadFlag, CancelUpgrade, CancelTake,
     CancelStore
<1>4. CASE HandleNext
  BY <1>1, <1>4 DEF HandleNext, HandleRuns, JoinRuns, CloseSenders, Consume, CheckFinished,
     TrySetAbort, TrySetCancel, AbortWorker, CloseAll, DropSenders, JoinAwait, JoinLock,
     JoinTake, JoinReport, DropJoin, TakeCtx
<1>5. CASE UNCHANGED vars
  BY <1>5 DEF vars
<1> QED
  BY <1>2, <1>3, <1>4, <1>5 DEF Next

\* So every spawn of it is refused as unavailable.
LEMMA UnavailableStays ==
  ASSUME PollInv, [PollNext]_allVars, NEW t \in Tasks, Caller[t] # Handle,
         spawner[Caller[t]] \in {"closed", "dropped"}, task[t] \in {"new", "refused_unavailable"}
  PROVE  spawner'[Caller[t]] \in {"closed", "dropped"} /\ task'[t] \in {"new", "refused_unavailable"}
<1>1. Caller[t] \in Spawners
  OBVIOUS
<1>2. task[t] = "refused_unavailable" => task'[t] = "refused_unavailable"
  BY StepOfSystem DEF PollInv, Ages
<1>3. CASE [Next]_vars
  <2>1. spawner'[Caller[t]] \in {"closed", "dropped"}
    BY <1>1, <1>3, ClosedStaysClosed DEF PollInv
  <2>2. task[t] = "new" => task'[t] = "new" \/ SubmitUnavailable(t)
    BY <1>3, NewStays DEF PollInv, Submit, SubmitFails, HasSender
  <2>3. SubmitUnavailable(t) => task'[t] = "refused_unavailable"
    BY DEF SubmitUnavailable, PollInv, IInv, TypeOK
  <2> QED
    BY <1>2, <2>1, <2>2, <2>3
<1>4. ASSUME NEW u \in Watched, PollRuns(u) \/ PollAgain(u)
      PROVE  spawner' = spawner /\ (task[t] = "new" => task'[t] = "new")
  <2>1. spawner' = spawner
    BY <1>4, PollsSpare
  <2>2. task' = task \/ (Takeable(u) /\ task' = [task EXCEPT ![u] = "cancelled"])
    BY <1>4, Zenon DEF PollRuns, PollAgain, Unspawned, UnspawnedReason, StartPoll, PollPanicRx,
     PollResultRx,
       ReadIsCancelled, ReadFlag, ReadFlagPending, StealUpgrade, StealTake, vars
  <2> QED
    BY <2>1, <2>2, WatchedAreTasks DEF Takeable, PollInv, IInv, TypeOK
<1>5. CASE UNCHANGED allVars
  BY <1>3, <1>5 DEF allVars
<1> QED
  BY <1>2, <1>3, <1>4, <1>5 DEF PollNext

\* What a handle can come to say once the flags show a panic and its task did not begin.
Resigned(t) ==
  /\ ph[t] \notin {"steal", "holding"}
  /\ out[t] \in {"none", "PreviousTaskPanic", "TaskSpawnerUnavailable", "TaskCancelled"}

\* Its own poll can say no more than that.
LEMMA PollResigned ==
  ASSUME PollInv, NEW t \in Watched, PollRuns(t) \/ PollAgain(t), flags = FLAG_TASK_PANICKED,
         t \notin Begun, Resigned(t)
  PROVE  Resigned(t)'
<1> USE DEF PollInv
<1>1. t \in Tasks /\ task[t] \notin {"done", "panicked", "refused_shutdown"}
  BY WatchedAreTasks DEF ShownInv
<1>2. CASE Unspawned(t)
  BY <1>1, <1>2 DEF Unspawned, UnspawnedReason, Resolve, Resigned, PollTypeOK
<1>3. CASE PollPanicRx(t)
  BY <1>1, <1>3 DEF PollPanicRx, PanicTx, Goto, Resigned, PollTypeOK
<1>4. CASE PollResultRx(t)
  BY <1>1, <1>4 DEF PollResultRx, ResultTx, Goto, Resigned, PollTypeOK
<1>5. CASE ReadIsCancelled(t)
  BY <1>5 DEF ReadIsCancelled, Resolve, Goto, Resigned, PollTypeOK
<1>6. CASE ReadFlag(t)
  <2>1. Resolve(t, "PreviousTaskPanic")
    BY <1>6 DEF ReadFlag
  <2> QED
    BY <2>1 DEF Resolve, Resigned, PollTypeOK
<1>7. CASE ReadFlagPending(t)
  BY <1>7 DEF ReadFlagPending, Goto, Resigned, PollTypeOK
<1>8. ~StealUpgrade(t) /\ ~StealTake(t)
  BY DEF StealUpgrade, StealTake, Resigned
<1> QED
  BY <1>2, <1>3, <1>4, <1>5, <1>6, <1>7, <1>8 DEF PollRuns, PollAgain, StartPoll

\* Nor does any other step make it.
LEMMA StaysResigned ==
  ASSUME PollInv, [PollNext]_allVars, NEW t \in Watched, flags = FLAG_TASK_PANICKED,
         t \notin Begun, Resigned(t)
  PROVE  Resigned(t)'
<1>1. CASE UNCHANGED pollVars
  BY <1>1 DEF pollVars, Resigned
<1>2. ASSUME NEW u \in Watched, u # t, PollRuns(u) \/ PollAgain(u)
      PROVE  Resigned(t)'
  BY <1>2, PollKeeps DEF After, Resigned
<1>3. CASE PollRuns(t) \/ PollAgain(t)
  BY <1>3, PollResigned
<1> QED
  BY <1>1, <1>2, <1>3 DEF PollNext, allVars

\* A task that was not spawned has no poll under way, and its handle has said nothing.
LEMMA NewIsResigned ==
  ASSUME PollInv, NEW t \in Tasks, task[t] = "new"
  PROVE  t \notin Begun /\ (t \in Watched => Resigned(t))
<1>1. t \notin Begun
  BY DEF PollInv, LineInv, BegunInv, Begun, Range
<1>2. ~HasCanceller(t)
  BY AcceptedIsSomewhere DEF PollInv
<1>3. ASSUME t \in Watched PROVE Resigned(t)
  <2>1. Look(t) /\ Said(t) /\ out[t] \in Outcomes \cup {"none"}
    BY <1>3 DEF PollInv, PollTypeOK, LookInv, SaidInv
  <2>2. ph[t] \notin {"steal", "holding"}
    BY <1>2, <2>1 DEF Look
  <2>3. out[t] = "none"
    BY <2>1 DEF Said, IsCancelled, Refused, NoResultToCome, Outcomes, Kinds
  <2> QED
    BY <2>2, <2>3 DEF Resigned
<1> QED
  BY <1>1, <1>3

-----------------------------------------------------------------------------
(* The answer None.                                                         *)

\* Past the look at the flags no task gets that was not there when a cancel showed.
LEMMA BarredStaysOut ==
  ASSUME PollInv, [Next]_vars, NEW t \in Tasks, Barred(t), op \in Cancels
  PROVE  /\ task'[t] \in {"new", "failed", "refused_unavailable", "refused_panic", "queued", "kept",
                          "cancelled", "dropped"}
         /\ ~(wpc' = "take" /\ cur' = t)
<1> DEFINE Out == {"new", "failed", "refused_unavailable", "refused_panic", "queued", "kept",
                   "cancelled", "dropped"}
<1>1. /\ task \in [Tasks -> TaskStatus] /\ task[t] \in Out /\ ~(wpc = "take" /\ cur = t)
      /\ flags \in {FLAG_CANCEL_STARTED, FLAG_TASK_PANICKED}
  BY DEF PollInv, IInv, TypeOK, FlagInv, Barred
<1>2. wpc = "flag" => flags = FLAG_CANCEL_STARTED
  BY <1>1 DEF PollInv, IInv, PanicInv
<1>3. wpc \notin {"recv", "flag", "take"} \cup Ends => task[cur] \notin Out \/ wpc = "blocking"
  BY DEF PollInv, IInv, TypeOK, HandsInv, JobInv
<1>4. CASE Loop
  BY <1>1, <1>2, <1>3, <1>4 DEF Loop, Recv, RecvClosed, ObserveCancel, PassFlag, TakeTask,
     SkipCancelled, StartAsync, StartBlocking, StartBlockingShutdown, BlockingReturned,
     BlockingPanicked, BlockingLost, SetMsg, SetFlag, SendPanic, ReturnErr, NextTask, DestroyLocals
<1>5. CASE AsyncBody \/ Pool \/ PoolBody
  BY <1>1, <1>3, <1>5 DEF AsyncBody, Pool, PoolBody, AsyncReturns, AsyncPanics, PoolStart,
     PoolRefuse, PoolShutdown, PoolReturns, PoolPanics, NextTask
<1>6. CASE Drops \/ CompleteJoinHandle \/ Shutdown
  BY <1>1, <1>3, <1>6 DEF Drops, DropAtRecv, DropInAsync, DropInBlocking, CompleteJoinHandle,
     Shutdown, DestroyLocals
<1>7. CASE SenderNext
  <2>1. wpc' = wpc /\ cur' = cur /\ task'[t] # "unreachable"
    BY <1>7, StepInv DEF SenderNext, Submit, SubmitFails, SubmitUnavailable, ReportSendError,
       NewSpawner, DropSpawner, PollInv, IInv, BlameInv
  <2>2. ASSUME NEW u \in Tasks, ReportSendError(u)
        PROVE  task'[t] \in Out
    <3>1. PICK error \in {"refused_panic", "refused_unavailable", "unreachable"} :
            task' = [task EXCEPT ![u] = error]
      BY <1>1, <2>2 DEF ReportSendError
    <3> QED
      BY <1>1, <2>1, <3>1
  <2>3. ASSUME NEW u \in Tasks, Submit(u) \/ SubmitFails(u) \/ SubmitUnavailable(u)
        PROVE  task'[t] \in Out
    BY <1>1, <2>3 DEF Submit, SubmitFails, SubmitUnavailable
  <2>4. ASSUME NEW s \in Spawners, NewSpawner(s) \/ DropSpawner(s)
        PROVE  task'[t] \in Out
    BY <1>1, <2>4 DEF NewSpawner, DropSpawner
  <2> QED
    BY <1>1, <1>7, <2>1, <2>2, <2>3, <2>4 DEF SenderNext
<1>8. CASE CancellerNext
  BY <1>1, <1>8 DEF CancellerNext, CancelRuns, CancelReadFlag, CancelUpgrade, CancelTake,
     CancelStore
<1>9. CASE HandleNext
  BY <1>1, <1>9 DEF HandleNext, HandleRuns, JoinRuns, CloseSenders, Consume, CheckFinished,
     TrySetAbort, TrySetCancel, AbortWorker, CloseAll, DropSenders, JoinAwait, JoinLock,
     JoinTake, JoinReport, DropJoin
<1>10. CASE UNCHANGED vars
  BY <1>1, <1>10 DEF vars
<1> QED
  BY <1>4, <1>5, <1>6, <1>7, <1>8, <1>9, <1>10 DEF Next, WorkerNext

\* Nor does its handle find another reason than the flags give.
LEMMA BarredStays ==
  ASSUME PollInv, [PollNext]_allVars, NEW t \in Tasks, Barred(t)
  PROVE  Barred(t)'
<1>1. flags' # FLAG_OTHER /\ op' = op /\ op \in Aborts \cup Cancels
  BY StepOfSystem DEF PollInv, Barred
<1>2. ASSUME op \in Cancels
      PROVE  /\ task'[t] \in {"new", "failed", "refused_unavailable", "refused_panic", "queued",
                              "kept", "cancelled", "dropped"}
             /\ ~(wpc' = "take" /\ cur' = t)
  <2>1. CASE [Next]_vars
    BY <1>2, <2>1, BarredStaysOut
  <2>2. ASSUME NEW u \in Watched, PollRuns(u) \/ PollAgain(u)
        PROVE  /\ task'[t] \in {task[t], "cancelled"}
               /\ wpc' = wpc /\ cur' = cur
    BY <2>2, PollTouches, WatchedAreTasks DEF PollInv, IInv, TypeOK
  <2>3. /\ task[t] \in {"new", "failed", "refused_unavailable", "refused_panic", "queued",
                        "kept", "cancelled", "dropped"}
        /\ ~(wpc = "take" /\ cur = t)
    BY <1>2 DEF Barred
  <2> QED
    BY <2>1, <2>2, <2>3, WholeStep
<1>3. ASSUME op \in Cancels, t \in Watched
      PROVE  out'[t] # "RuntimeShutdown"
  <2>1. /\ out[t] # "RuntimeShutdown" /\ task[t] # "refused_shutdown" /\ flags # FLAG_OTHER
    BY <1>3 DEF Barred
  <2> QED
    BY <1>3, <2>1, AnswerStep
<1> QED
  BY <1>1, <1>2, <1>3 DEF Barred

\* A spawner without its ctx: the refusal is all its handle can tell of.
LEMMA ClosedStays ==
  ASSUME PollInv, [PollNext]_allVars, NEW t \in Tasks, Closed(t)
  PROVE  Closed(t)'
<1>1. /\ spawner'[Caller[t]] \in {"closed", "dropped"}
      /\ task'[t] \in {"new", "refused_unavailable"}
  BY UnavailableStays DEF Closed
<1>2. PollInv'
  BY StepPollInv
<1>3. ASSUME t \in Watched
      PROVE  out'[t] \in {"none", "TaskSpawnerUnavailable"}
  <2>1. CASE out'[t] = out[t]
    BY <1>3, <2>1 DEF Closed
  <2>2. CASE out'[t] # out[t]
    <3>1. PollRuns(t) \/ PollAgain(t)
      BY <1>3, <2>2, AnswerStep
    <3>2. ~HasCanceller(t)
      BY <1>3, AcceptedIsSomewhere DEF PollInv, Closed
    <3>3. ph[t] \in {"fresh", "done"}
      BY <1>3, <3>2 DEF PollInv, LookInv, Look
    <3>4. Unspawned(t)
      BY <3>1, <3>2, <3>3 DEF PollRuns, PollAgain, StartPoll, PollResultRx, ReadIsCancelled, ReadFlag,
         ReadFlagPending, StealUpgrade, StealTake
    <3>5. Resolve(t, "TaskSpawnerUnavailable")
      BY <3>4 DEF Unspawned, UnspawnedReason, Closed
    <3> QED
      BY <1>3, <3>5 DEF Resolve, PollInv, PollTypeOK
  <2> QED
    BY <2>1, <2>2
<1> QED
  BY <1>1, <1>3 DEF Closed

\* has_panicked() has no answer for one of the two reasons.
LEMMA NoneIsTrue ==
  ASSUME PollInv, NEW t \in Tasks, task[t] = "new", Caller[t] # Handle,
         spawner[Caller[t]] = "closed" \/ flags \in {FLAG_ABORT_STARTED, FLAG_CANCEL_STARTED}
  PROVE  Closed(t) \/ Barred(t)
<1>1. t \in Watched => out[t] = "none"
  <2>1. t \in Watched => Said(t) /\ out[t] \in Outcomes \cup {"none"}
    BY DEF PollInv, PollTypeOK, SaidInv
  <2> QED
    BY <2>1 DEF Said, IsCancelled, Refused, NoPanicToCome, NoResultToCome, Outcomes, Kinds
<1>2. ~(wpc = "take" /\ cur = t)
  BY DEF PollInv, LineInv, OrderInv
<1>3. flags \in {FLAG_ABORT_STARTED, FLAG_CANCEL_STARTED} => op \in Aborts \cup Cancels
  BY DEF PollInv, IInv, FlagInv
<1> QED
  BY <1>1, <1>2, <1>3 DEF Closed, Barred

-----------------------------------------------------------------------------
(* All answers.                                                             *)

\* Nobody has asked.
LEMMA InitQuery == QueryInit => PollInv /\ QueryInv
<1> SUFFICES ASSUME QueryInit PROVE PollInv /\ QueryInv
  OBVIOUS
<1>1. PollInv
  BY InitPollInv DEF QueryInit
<1>2. QueryInv
  BY DEF QueryInit, QueryInv
<1> QED
  BY <1>1, <1>2

\* The answer is true when it is given.
LEMMA AskKeeps ==
  ASSUME PollInv, QueryInv, NEW u \in Tasks, Ask(u)
  PROVE  PollInv' /\ QueryInv'
<1>1. UNCHANGED allVars
  BY DEF Ask
<1>2. PollInv'
  BY <1>1, StepPollInv
<1>3. PICK answer \in {"fine", "panicked", "none", "unavailable"} :
        /\ seen' = [seen EXCEPT ![u] = answer]
        /\ answer = "panicked" => flags = FLAG_TASK_PANICKED
        /\ answer = "unavailable" => Caller[u] # Handle /\ spawner[Caller[u]] = "closed"
        /\ answer = "none" =>
             /\ Caller[u] # Handle
             /\ spawner[Caller[u]] = "closed" \/ flags \in {FLAG_ABORT_STARTED, FLAG_CANCEL_STARTED}
  BY DEF Ask, IsUnavailable, HandleHasPanicked, SpawnerHasPanicked
<1>4. task[u] = "new"
  BY DEF Ask
<1>5. u \notin Begun /\ (u \in Watched => Resigned(u))
  BY <1>4, NewIsResigned
<1>6. answer = "none" => Closed(u) \/ Barred(u)
  BY <1>3, <1>4, NoneIsTrue
<1>7. \A t \in Tasks : Closed(t)' = Closed(t) /\ Barred(t)' = Barred(t)
  BY <1>1 DEF Closed, Barred, allVars, vars, pollVars
<1>8. QueryInv'
  BY <1>1, <1>3, <1>4, <1>5, <1>6, <1>7 DEF QueryInv, Resigned, allVars, vars, pollVars, Begun
<1> QED
  BY <1>2, <1>8

\* It stays true in every step of the system and of the polls.
LEMMA PollsKeepQuery ==
  ASSUME PollInv, QueryInv, [PollNext]_allVars, UNCHANGED seen
  PROVE  QueryInv'
<1>1. \A t \in Tasks : seen[t] = "unavailable" =>
        /\ Caller[t] # Handle /\ spawner'[Caller[t]] \in {"closed", "dropped"}
        /\ task'[t] \in {"new", "refused_unavailable"}
  BY UnavailableStays DEF QueryInv
<1>2. ASSUME NEW t \in Tasks, seen[t] = "panicked"
      PROVE  /\ flags' = FLAG_TASK_PANICKED
             /\ t \notin Begun'
             /\ t \in Watched => Resigned(t)'
  <2>1. flags = FLAG_TASK_PANICKED /\ t \notin Begun /\ (t \in Watched => Resigned(t))
    BY <1>2 DEF QueryInv, Resigned
  <2>2. flags' = FLAG_TASK_PANICKED
    BY <2>1, StepOfSystem DEF PollInv
  <2>3. Begun' = Begun
    BY <2>1, FlagBeginsNothing DEF Begun
  <2> QED
    BY <2>1, <2>2, <2>3, StaysResigned
<1>3. \A t \in Tasks : seen[t] = "none" => Closed(t)' \/ Barred(t)'
  BY ClosedStays, BarredStays DEF QueryInv
<1> QED
  BY <1>1, <1>2, <1>3 DEF QueryInv, Resigned

\* In each step someone asks, or the system goes on.
LEMMA StepQuery == PollInv /\ QueryInv /\ [QueryNext]_<<allVars, seen>> => PollInv' /\ QueryInv'
<1> SUFFICES ASSUME PollInv, QueryInv, [QueryNext]_<<allVars, seen>>
             PROVE  PollInv' /\ QueryInv'
  OBVIOUS
<1>1. CASE [PollNext]_allVars /\ UNCHANGED seen
  BY <1>1, StepPollInv, PollsKeepQuery
<1>2. CASE \E t \in Tasks : Ask(t)
  BY <1>2, AskKeeps
<1> QED
  BY <1>1, <1>2 DEF QueryNext

(***************************************************************************)
(* Asking changes nothing: PollInv and QueryInv hold however callers ask.  *)
(***************************************************************************)
THEOREM QueryInvHolds == QuerySpec => [](PollInv /\ QueryInv)
<1> QED
  BY InitQuery, StepQuery, PTL DEF QuerySpec

(***************************************************************************)
(* has_panicked() answers true for good: the task that its caller spawns   *)
(* does not begin, its handle does not say otherwise, nor does a join.     *)
(***************************************************************************)
THEOREM PanicAnswerStandsHolds == QuerySpec => []PanicAnswerStands
<1>1. PollInv /\ QueryInv => PanicAnswerStands
  <2> SUFFICES ASSUME PollInv, QueryInv, NEW t \in Tasks, seen[t] = "panicked"
               PROVE  /\ t \notin Begun
                      /\ t \in Watched => out[t] \in {"none", "PreviousTaskPanic",
                                                       "TaskSpawnerUnavailable", "TaskCancelled"}
                      /\ hres \in {"none", "AnyTaskPanic"}
    BY DEF PanicAnswerStands
  <2>1. flags = FLAG_TASK_PANICKED
    BY DEF QueryInv
  <2>2. hres \in {"none", "AnyTaskPanic"}
    BY <2>1 DEF PollInv, IInv, TypeOK, JoinInv, PanicInv
  <2> QED
    BY <2>2 DEF QueryInv
<1> QED
  BY <1>1, QueryInvHolds, PTL

(***************************************************************************)
(* is_unavailable() answers true for good: that spawner's spawns are       *)
(* refused as unavailable, and not for another reason.                     *)
(***************************************************************************)
THEOREM UnavailableAnswerStandsHolds == QuerySpec => []UnavailableAnswerStands
<1>1. QueryInv => UnavailableAnswerStands
  BY DEF QueryInv, UnavailableAnswerStands
<1> QED
  BY <1>1, QueryInvHolds, PTL

(***************************************************************************)
(* has_panicked() answers None for a cancel or a close of the spawners: the*)
(* task that its caller spawns does not begin, and its handle does not     *)
(* speak of a shutdown.                                                    *)
(***************************************************************************)
THEOREM NoneAnswerStandsHolds == QuerySpec => []NoneAnswerStands
<1>1. PollInv /\ QueryInv => NoneAnswerStands
  <2> SUFFICES ASSUME PollInv, QueryInv, NEW t \in Tasks, seen[t] = "none", op \notin Aborts
               PROVE  /\ t \notin Begun
                      /\ t \in Watched => out[t] \in {"none", "WorkerCancelled", "PreviousTaskPanic",
                                                       "TaskSpawnerUnavailable", "TaskCancelled"}
    BY DEF NoneAnswerStands
  <2>1. Closed(t) \/ (Barred(t) /\ op \in Cancels)
    BY DEF QueryInv, Barred
  <2>2. task[t] \in {"new", "failed", "refused_unavailable", "refused_panic", "queued", "kept",
                    "cancelled", "dropped"}
    BY <2>1 DEF Closed, Barred
  <2>3. t \notin Begun
    BY <2>2 DEF PollInv, LineInv, BegunInv, Begun, Range
  <2>4. ASSUME t \in Watched
        PROVE  out[t] \in {"none", "WorkerCancelled", "PreviousTaskPanic",
                           "TaskSpawnerUnavailable", "TaskCancelled"}
    <3>1. out[t] # "RuntimeShutdown"
      BY <2>1, <2>4 DEF Closed, Barred
    <3>2. Said(t) /\ out[t] \in Outcomes \cup {"none"}
      BY <2>4 DEF PollInv, PollTypeOK, SaidInv
    <3> QED
      BY <2>2, <3>1, <3>2 DEF Said, Outcomes, Kinds
  <2> QED
    BY <2>3, <2>4
<1> QED
  BY <1>1, QueryInvHolds, PTL
=============================================================================
