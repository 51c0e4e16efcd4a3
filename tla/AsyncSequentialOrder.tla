------------------------ MODULE AsyncSequentialOrder ------------------------
(***************************************************************************)
(* More proofs about AsyncSequential: the order of the tasks and the       *)
(* promises of cancels, from LineInv, which is inductive together with the *)
(* invariant of AsyncSequentialProof.                                      *)
(***************************************************************************)
EXTENDS AsyncSequentialProof

USE DEF statusVars, channelVars, mutexVars, workerVars, tokioVars, handleVars, cancellerVars,
        aside, senderAside, cancelAside, handleAside, ReceiverGone, Stopping, Ends,
        Awaits, Steps, Flags, TaskStatus, StatusTypeOK, FLAG_OTHER, FLAG_ABORT_STARTED,
        FLAG_CANCEL_STARTED, FLAG_TASK_PANICKED, Aborts, Cancels, Joins, JoinErrors

USE NoTaskAssumption, ConstantsAssumption

\* The task at the head of the channel goes to the worker's hands.
LEMMA RecvOrderly ==
  ASSUME IInv, LineInv, Recv
  PROVE  LineInv'
<1> USE DEF IInv, LineInv, Recv
<1>1. OrderInv'
  <2>1. /\ queue \in Seq(Tasks) /\ Len(queue) \in Nat \ {0} /\ Len(queue') = Len(queue) - 1
        /\ DOMAIN queue = 1 .. Len(queue) /\ cur' = queue[1] /\ 1 \in DOMAIN queue
        /\ \A i \in DOMAIN queue' : i + 1 \in DOMAIN queue /\ queue'[i] = queue[i + 1]
    BY DEF TypeOK
  <2>2. Received \in Nat /\ Received' = Received + 1
    BY <2>1 DEF TypeOK, OrderInv, Received
  <2>3. cur' = sent[Received'] /\ task[cur'] \in {"queued", "cancelled"}
    BY <2>1, <2>2 DEF OrderInv
  <2>4. \A i \in DOMAIN queue' :
          queue'[i] = sent[Received' + i] /\ task[queue'[i]] \in {"queued", "cancelled"}
    <3> SUFFICES ASSUME NEW i \in DOMAIN queue'
                 PROVE  /\ queue'[i] = sent[Received' + i]
                        /\ task[queue'[i]] \in {"queued", "cancelled"}
      OBVIOUS
    <3>1. i \in Nat /\ queue'[i] = queue[i + 1] /\ i + 1 \in DOMAIN queue
      BY <2>1
    <3>2. Received' + i = Received + (i + 1)
      BY <2>2, <3>1
    <3>3. /\ queue[i + 1] = sent[Received + (i + 1)]
          /\ task[queue[i + 1]] \in {"queued", "cancelled"}
      BY <3>1 DEF OrderInv
    <3> QED
      BY <3>1, <3>2, <3>3
  <2>5. \A i \in 1 .. Received' :
          task[sent[i]] \in {"done", "cancelled"} \/ (i = Received' /\ cur' # NoTask)
    <3>1. cur' # NoTask
      BY <2>1
    <3>2. \A i \in 1 .. Received' : i \in 1 .. Received \/ i = Received'
      BY <2>2
    <3>3. \A i \in 1 .. Received : task[sent[i]] \in {"done", "cancelled"}
      BY DEF HandsInv, OrderInv
    <3> QED
      BY <3>1, <3>2, <3>3
  <2> QED
    BY <2>2, <2>3, <2>4, <2>5 DEF TypeOK, OrderInv
<1>2. CancelInv'
  <2>1. queue \in Seq(Tasks) /\ queue # <<>>
    BY DEF TypeOK
  <2>2. ASSUME NEW i \in DOMAIN queue, queue[i] # cur'
        PROVE  \E j \in DOMAIN queue' : queue'[j] = queue[i]
    <3>1. i - 1 \in DOMAIN queue' /\ queue'[i - 1] = queue[i]
      BY <2>1, <2>2
    <3> QED
      BY <3>1
  <2> QED
    BY <2>1, <2>2 DEF TypeOK, HandsInv, CancelInv
<1>3. BegunInv'
  BY DEF BegunInv
<1> QED
  BY <1>1, <1>2, <1>3

\* The channel is drained, so no task is dropped with it.
LEMMA RecvClosedOrderly ==
  ASSUME IInv, LineInv, RecvClosed
  PROVE  LineInv'
<1> USE DEF IInv, LineInv, RecvClosed, DestroyLocals, ChannelOpen
<1>1. OrderInv'
  BY DEF TypeOK, HandsInv, JobInv, PlaceInv, ChannelInv, OrderInv, Received
<1>2. BegunInv'
  BY DEF TypeOK, HandsInv, JobInv, PlaceInv, OrderInv, BegunInv
<1>3. CancelInv'
  BY DEF TypeOK, HandsInv, JobInv, PlaceInv, JoinInv, FlagInv, PanicInv, OrderInv,
         Received, CancelInv
<1> QED
  BY <1>1, <1>2, <1>3

\* Tasks are dropped here, and the flag says who asked for it.
LEMMA ObserveCancelOrderly ==
  ASSUME IInv, LineInv, ObserveCancel
  PROVE  LineInv'
<1> USE DEF IInv, LineInv, ObserveCancel, DestroyLocals
<1>1. OrderInv'
  BY DEF TypeOK, HandsInv, JobInv, PlaceInv, ChannelInv, OrderInv, Received
<1>2. BegunInv'
  BY DEF TypeOK, HandsInv, JobInv, PlaceInv, OrderInv, BegunInv
<1>3. CancelInv'
  BY DEF TypeOK, HandsInv, JobInv, PlaceInv, JoinInv, FlagInv, PanicInv, OrderInv,
         Received, CancelInv
<1> QED
  BY <1>1, <1>2, <1>3

\* Only the worker moves.
LEMMA PassFlagOrderly ==
  ASSUME IInv, LineInv, PassFlag
  PROVE  LineInv'
<1> USE DEF IInv, LineInv, PassFlag
<1>1. OrderInv'
  BY DEF TypeOK, HandsInv, JobInv, PlaceInv, ChannelInv, OrderInv, Received
<1>2. CancelInv'
  BY DEF TypeOK, HandsInv, JobInv, PlaceInv, JoinInv, FlagInv, PanicInv, OrderInv,
         Received, CancelInv
<1>3. BegunInv'
  BY DEF BegunInv
<1> QED
  BY <1>1, <1>2, <1>3

\* No closure is on the pool, so the task taken is the only one.
LEMMA TakeTaskOrderly ==
  ASSUME IInv, LineInv, TakeTask
  PROVE  LineInv'
<1> USE DEF IInv, LineInv, TakeTask
<1>1. OrderInv'
  <2>1. cur \in Tasks /\ Received >= 1 /\ sent[Received] = cur /\ Received \in DOMAIN sent
    BY DEF TypeOK, HandsInv, OrderInv, Received
  <2>2. \A i \in DOMAIN queue : queue[i] # cur
    <3>1. /\ DOMAIN queue = 1 .. Len(queue) /\ DOMAIN sent = 1 .. Len(sent)
          /\ Len(queue) \in Nat /\ Len(sent) \in Nat /\ Received + Len(queue) = Len(sent)
      BY DEF TypeOK, Received
    <3>2. \A i \in DOMAIN queue : Received + i \in DOMAIN sent /\ Received + i # Received
      BY <3>1, <2>1
    <3> QED
      BY <2>1, <3>2 DEF OrderInv

  <2>3. \A i \in DOMAIN sent : sent[i] = cur => i = Received
    BY <2>1 DEF OrderInv
  <2>4. \A i \in 1 .. Received - 1 : task[sent[i]] \in {"done", "cancelled"} /\ sent[i] # cur
    <3>1. Received \in Nat /\ DOMAIN sent = 1 .. Len(sent) /\ Len(sent) \in Nat
      BY <2>1 DEF TypeOK
    <3>2. \A i \in 1 .. Received - 1 : i \in DOMAIN sent /\ i \in 1 .. Received /\ i # Received
      BY <3>1, <2>1
    <3> QED
      BY <2>3, <3>2 DEF OrderInv
  <2>5. \A t \in Tasks : t # cur => task'[t] = task[t]
    BY DEF TypeOK
  <2>6. \A i \in DOMAIN sent : sent[i] \in Tasks
    BY DEF TypeOK
  <2>7. Received' = Received
    BY DEF Received
  <2>8. \A j \in DOMAIN sent :
          task'[sent[j]] \in {"taken", "running", "done", "unwound", "panicked", "broken"} =>
            \A i \in 1 .. j - 1 : task'[sent[i]] \in {"done", "cancelled"}
    BY <2>1, <2>3, <2>4, <2>5, <2>6 DEF TypeOK, OrderInv
  <2> QED
    BY <2>1, <2>2, <2>4, <2>5, <2>6, <2>7, <2>8 DEF TypeOK, HandsInv, OrderInv, Received
<1>2. BegunInv'
  BY DEF TypeOK, HandsInv, JobInv, PlaceInv, OrderInv, BegunInv
<1>3. CancelInv'
  <2>1. cur \in Tasks /\ Received >= 1 /\ sent[Received] = cur /\ Received \in DOMAIN sent
    BY DEF TypeOK, HandsInv, OrderInv, Received
  <2>2. \A i \in DOMAIN queue : queue[i] # cur
    <3>1. /\ DOMAIN queue = 1 .. Len(queue) /\ DOMAIN sent = 1 .. Len(sent)
          /\ Len(queue) \in Nat /\ Len(sent) \in Nat /\ Received + Len(queue) = Len(sent)
      BY DEF TypeOK, Received
    <3>2. \A i \in DOMAIN queue : Received + i \in DOMAIN sent /\ Received + i # Received
      BY <3>1, <2>1
    <3> QED
      BY <2>1, <3>2 DEF OrderInv

  <2>3. cur \notin leftover \/ op \notin Cancels
    BY <2>2 DEF HandsInv, CancelInv
  <2> QED
    BY <2>1, <2>2, <2>3 DEF TypeOK, HandsInv, CancelInv
<1> QED
  BY <1>1, <1>2, <1>3

\* The task was not queued any more, so nothing leaves the channel unseen.
LEMMA SkipCancelledOrderly ==
  ASSUME IInv, LineInv, SkipCancelled
  PROVE  LineInv'
<1> USE DEF IInv, LineInv, SkipCancelled, NextTask
<1>1. OrderInv'
  <2>1. cur \in Tasks /\ task[cur] = "cancelled"
    BY DEF HandsInv, OrderInv
  <2>2. Received >= 1 /\ sent[Received] = cur
    BY <2>1 DEF OrderInv
  <2> QED
    BY <2>1, <2>2 DEF TypeOK, HandsInv, OrderInv, Received
<1>2. CancelInv'
  BY DEF TypeOK, HandsInv, JobInv, PlaceInv, JoinInv, FlagInv, PanicInv, OrderInv,
         Received, CancelInv
<1>3. BegunInv'
  BY DEF BegunInv
<1> QED
  BY <1>1, <1>2, <1>3

\* The lock is free and the state there, since no join is past the end of the worker.
LEMMA StartAsyncOrderly ==
  ASSUME IInv, LineInv, StartAsync
  PROVE  LineInv'
<1> USE DEF IInv, LineInv, StartAsync, DestroyLocals
<1>1. OrderInv'
  <2>1. cur \in Tasks /\ Received >= 1 /\ sent[Received] = cur /\ Received \in DOMAIN sent
    BY DEF TypeOK, HandsInv, OrderInv, Received
  <2>2. \A i \in DOMAIN queue : queue[i] # cur
    <3>1. /\ DOMAIN queue = 1 .. Len(queue) /\ DOMAIN sent = 1 .. Len(sent)
          /\ Len(queue) \in Nat /\ Len(sent) \in Nat /\ Received + Len(queue) = Len(sent)
      BY DEF TypeOK, Received
    <3>2. \A i \in DOMAIN queue : Received + i \in DOMAIN sent /\ Received + i # Received
      BY <3>1, <2>1
    <3> QED
      BY <2>1, <3>2 DEF OrderInv

  <2>3. Received' = Received \/ queue' = <<>>
    BY <2>1 DEF Received
  <2>4. CASE lock = "free" /\ present
    <3>1. queue' = queue /\ cur' = cur /\ task' = [task EXCEPT ![cur] = "running"]
      BY <2>4, Zenon
    <3>2. wpc' = "async"
      BY <2>4, Zenon
    <3> QED
      BY <2>1, <2>2, <3>1, <3>2 DEF TypeOK, HandsInv, OrderInv, Received
  <2>5. CASE ~(lock = "free" /\ present)
    <3>1. queue' = <<>> /\ cur' = NoTask /\ wpc' = "Err"
      BY <2>5, Zenon
    <3>2. task' = [t \in Tasks |-> IF task[t] = "queued"
                                     THEN IF Upgraded(t) THEN "kept" ELSE "dropped"
                                   ELSE IF t = cur THEN "dropped" ELSE task[t]]
      BY <2>5, Zenon
    <3> QED
      BY <2>1, <2>2, <3>1, <3>2 DEF TypeOK, HandsInv, OrderInv, Received
  <2> QED
    BY <2>4, <2>5
<1>2. BegunInv'
  <2>1. CASE lock = "free" /\ present
    <3>1. /\ DOMAIN data' = 1 .. Len(data) + 1 /\ data'[Len(data) + 1] = cur
          /\ DOMAIN data = 1 .. Len(data) /\ Len(data) \in Nat
          /\ \A i \in DOMAIN data : data'[i] = data[i] /\ data[i] \in Tasks
      <4>1. data \in Seq(Tasks) /\ data' = Append(data, cur)
        BY <2>1 DEF TypeOK
      <4> QED
        BY <4>1
    <3>2. cur \in Tasks /\ task[cur] = "taken" /\ \A i \in DOMAIN data : data[i] # cur
      BY DEF HandsInv, BegunInv
    <3>3. task' = [task EXCEPT ![cur] = "running"]
      BY <2>1, Zenon
    <3>4. \A i \in DOMAIN data' :
            task'[data'[i]] \in {"running", "done", "unwound", "panicked", "broken"}
      BY <3>1, <3>2, <3>3 DEF TypeOK, BegunInv
    <3>5. \A i, j \in DOMAIN data' : data'[i] = data'[j] => i = j
      BY <3>1, <3>2 DEF BegunInv
    <3>6. \A t \in Tasks : cx[t] \in {"won", "yes"} => task'[t] = "cancelled"
      BY <3>2, <3>3 DEF TypeOK, BegunInv
    <3> QED
      BY <3>4, <3>5, <3>6 DEF BegunInv

  <2>2. CASE ~(lock = "free" /\ present)
    <3>1. data' = data
      BY <2>2, Zenon
    <3>2. task' = [t \in Tasks |-> IF task[t] = "queued"
                                     THEN IF Upgraded(t) THEN "kept" ELSE "dropped"
                                   ELSE IF t = cur THEN "dropped" ELSE task[t]]
      BY <2>2, Zenon
    <3>3. /\ cur \in Tasks /\ task[cur] = "taken"
          /\ \A i \in DOMAIN data : data[i] # cur /\ data[i] \in Tasks
      BY DEF TypeOK, HandsInv, BegunInv
    <3>4. \A t \in Tasks : t # cur /\ task[t] # "queued" => task'[t] = task[t]
      BY <3>2
    <3> QED
      BY <3>1, <3>3, <3>4 DEF BegunInv
  <2> QED
    BY <2>1, <2>2
<1>3. CancelInv'
  <2>1. cur \in Tasks /\ task[cur] = "taken" /\ wpc = "start" /\ leftover \in SUBSET Tasks
    BY DEF TypeOK, HandsInv
  <2>2. op \in Cancels => cur \notin leftover
    BY <2>1 DEF CancelInv
  <2>3. CASE lock = "free" /\ present
    <3>1. queue' = queue /\ task' = [task EXCEPT ![cur] = "running"] /\ wpc' = "async"
      BY <2>3, Zenon
    <3> QED
      BY <2>1, <2>2, <3>1 DEF TypeOK, CancelInv
  <2>4. CASE ~(lock = "free" /\ present)
    <3>1. wpc' = "Err"
      BY <2>4, Zenon
    <3>2. task' = [t \in Tasks |-> IF task[t] = "queued"
                                     THEN IF Upgraded(t) THEN "kept" ELSE "dropped"
                                   ELSE IF t = cur THEN "dropped" ELSE task[t]]
      BY <2>4, Zenon
    <3> QED
      BY <2>1, <2>2, <3>1, <3>2 DEF CancelInv
  <2> QED
    BY <2>3, <2>4
<1> QED
  BY <1>1, <1>2, <1>3

\* The closure takes the task along.
LEMMA StartBlockingOrderly ==
  ASSUME IInv, LineInv, StartBlocking
  PROVE  LineInv'
<1> USE DEF IInv, LineInv, StartBlocking
<1>1. OrderInv'
  BY DEF TypeOK, HandsInv, JobInv, PlaceInv, ChannelInv, OrderInv, Received
<1>2. CancelInv'
  BY DEF TypeOK, HandsInv, JobInv, PlaceInv, JoinInv, FlagInv, PanicInv, OrderInv,
         Received, CancelInv
<1>3. BegunInv'
  BY DEF BegunInv
<1> QED
  BY <1>1, <1>2, <1>3

\* The closure and the task are destroyed at once.
LEMMA StartBlockingShutdownOrderly ==
  ASSUME IInv, LineInv, StartBlockingShutdown
  PROVE  LineInv'
<1> USE DEF IInv, LineInv, StartBlockingShutdown
<1>1. OrderInv'
  BY DEF TypeOK, HandsInv, JobInv, PlaceInv, ChannelInv, OrderInv, Received
<1>2. BegunInv'
  BY DEF TypeOK, HandsInv, JobInv, PlaceInv, OrderInv, BegunInv
<1>3. CancelInv'
  BY DEF TypeOK, HandsInv, JobInv, PlaceInv, JoinInv, FlagInv, PanicInv, OrderInv,
         Received, CancelInv
<1> QED
  BY <1>1, <1>2, <1>3

\* The guard is dropped before the worker goes on.
LEMMA AsyncReturnsOrderly ==
  ASSUME IInv, LineInv, AsyncReturns
  PROVE  LineInv'
<1> USE DEF IInv, LineInv, AsyncReturns, NextTask
<1>1. OrderInv'
  BY DEF TypeOK, HandsInv, JobInv, PlaceInv, ChannelInv, OrderInv, Received
<1>2. BegunInv'
  BY DEF TypeOK, HandsInv, JobInv, PlaceInv, OrderInv, BegunInv
<1>3. CancelInv'
  BY DEF TypeOK, HandsInv, JobInv, PlaceInv, JoinInv, FlagInv, PanicInv, OrderInv,
         Received, CancelInv
<1> QED
  BY <1>1, <1>2, <1>3

\* The guard is dropped before the panic is looked at.
LEMMA AsyncPanicsOrderly ==
  ASSUME IInv, LineInv, AsyncPanics
  PROVE  LineInv'
<1> USE DEF IInv, LineInv, AsyncPanics
<1>1. OrderInv'
  BY DEF TypeOK, HandsInv, JobInv, PlaceInv, ChannelInv, OrderInv, Received
<1>2. BegunInv'
  BY DEF TypeOK, HandsInv, JobInv, PlaceInv, OrderInv, BegunInv
<1>3. CancelInv'
  BY DEF TypeOK, HandsInv, JobInv, PlaceInv, JoinInv, FlagInv, PanicInv, OrderInv,
         Received, CancelInv
<1> QED
  BY <1>1, <1>2, <1>3

\* There is one task that is taken, the closure's.
LEMMA PoolStartOrderly ==
  ASSUME IInv, LineInv, PoolStart
  PROVE  LineInv'
<1> USE DEF IInv, LineInv, PoolStart
<1>1. OrderInv'
  BY DEF TypeOK, HandsInv, JobInv, PlaceInv, ChannelInv, OrderInv, Received
<1>2. BegunInv'
  <2>1. PICK u \in Blocking : /\ task[u] = "taken"
                             /\ task' = [task EXCEPT ![u] = "running"]
                             /\ data' = Append(data, u)
    OBVIOUS
  <2>2. /\ DOMAIN data' = 1 .. Len(data) + 1 /\ data'[Len(data) + 1] = u
        /\ DOMAIN data = 1 .. Len(data) /\ Len(data) \in Nat
        /\ \A i \in DOMAIN data : data'[i] = data[i] /\ data[i] \in Tasks
    <3>1. data \in Seq(Tasks) /\ u \in Tasks
      BY DEF TypeOK
    <3> QED
      BY <2>1, <3>1
  <2>3. \A i \in DOMAIN data : data[i] # u
    BY <2>1 DEF BegunInv
  <2>4. \A i \in DOMAIN data' :
          task'[data'[i]] \in {"running", "done", "unwound", "panicked", "broken"}
    BY <2>1, <2>2 DEF TypeOK, BegunInv
  <2>5. \A i, j \in DOMAIN data' : data'[i] = data'[j] => i = j
    BY <2>2, <2>3 DEF BegunInv
  <2>6. \A t \in Tasks : cx[t] \in {"won", "yes"} => task'[t] = "cancelled"
    BY <2>1 DEF TypeOK, BegunInv
  <2> QED
    BY <2>4, <2>5, <2>6 DEF BegunInv
<1>3. CancelInv'
  BY DEF TypeOK, HandsInv, JobInv, PlaceInv, JoinInv, FlagInv, PanicInv, OrderInv,
         Received, CancelInv
<1> QED
  BY <1>1, <1>2, <1>3

\* The lock is not free or the state gone, so the worker is, too.
LEMMA PoolRefuseOrderly ==
  ASSUME IInv, LineInv, PoolRefuse
  PROVE  LineInv'
<1> USE DEF IInv, LineInv, PoolRefuse
<1>1. OrderInv'
  BY DEF TypeOK, HandsInv, JobInv, PlaceInv, ChannelInv, OrderInv, Received
<1>2. BegunInv'
  BY DEF TypeOK, HandsInv, JobInv, PlaceInv, OrderInv, BegunInv
<1>3. CancelInv'
  BY DEF TypeOK, HandsInv, JobInv, PlaceInv, JoinInv, FlagInv, PanicInv, OrderInv,
         Received, CancelInv
<1> QED
  BY <1>1, <1>2, <1>3

\* The closure's task is the only one that is taken.
LEMMA PoolShutdownOrderly ==
  ASSUME IInv, LineInv, PoolShutdown
  PROVE  LineInv'
<1> USE DEF IInv, LineInv, PoolShutdown
<1>1. OrderInv'
  BY DEF TypeOK, HandsInv, JobInv, PlaceInv, ChannelInv, OrderInv, Received
<1>2. BegunInv'
  BY DEF TypeOK, HandsInv, JobInv, PlaceInv, OrderInv, BegunInv
<1>3. CancelInv'
  BY DEF TypeOK, HandsInv, JobInv, PlaceInv, JoinInv, FlagInv, PanicInv, OrderInv,
         Received, CancelInv
<1> QED
  BY <1>1, <1>2, <1>3

\* The closure's task is the only one that runs.
LEMMA PoolReturnsOrderly ==
  ASSUME IInv, LineInv, PoolReturns
  PROVE  LineInv'
<1> USE DEF IInv, LineInv, PoolReturns
<1>1. OrderInv'
  BY DEF TypeOK, HandsInv, JobInv, PlaceInv, ChannelInv, OrderInv, Received
<1>2. BegunInv'
  BY DEF TypeOK, HandsInv, JobInv, PlaceInv, OrderInv, BegunInv
<1>3. CancelInv'
  BY DEF TypeOK, HandsInv, JobInv, PlaceInv, JoinInv, FlagInv, PanicInv, OrderInv,
         Received, CancelInv
<1> QED
  BY <1>1, <1>2, <1>3

\* The closure's task is the only one that runs.
LEMMA PoolPanicsOrderly ==
  ASSUME IInv, LineInv, PoolPanics
  PROVE  LineInv'
<1> USE DEF IInv, LineInv, PoolPanics
<1>1. OrderInv'
  BY DEF TypeOK, HandsInv, JobInv, PlaceInv, ChannelInv, OrderInv, Received
<1>2. BegunInv'
  BY DEF TypeOK, HandsInv, JobInv, PlaceInv, OrderInv, BegunInv
<1>3. CancelInv'
  BY DEF TypeOK, HandsInv, JobInv, PlaceInv, JoinInv, FlagInv, PanicInv, OrderInv,
         Received, CancelInv
<1> QED
  BY <1>1, <1>2, <1>3

\* The task at hand has returned.
LEMMA BlockingReturnedOrderly ==
  ASSUME IInv, LineInv, BlockingReturned
  PROVE  LineInv'
<1> USE DEF IInv, LineInv, BlockingReturned, NextTask
<1>1. OrderInv'
  BY DEF TypeOK, HandsInv, JobInv, PlaceInv, ChannelInv, OrderInv, Received
<1>2. CancelInv'
  BY DEF TypeOK, HandsInv, JobInv, PlaceInv, JoinInv, FlagInv, PanicInv, OrderInv,
         Received, CancelInv
<1>3. BegunInv'
  BY DEF BegunInv
<1> QED
  BY <1>1, <1>2, <1>3

\* The task at hand has unwound.
LEMMA BlockingPanickedOrderly ==
  ASSUME IInv, LineInv, BlockingPanicked
  PROVE  LineInv'
<1> USE DEF IInv, LineInv, BlockingPanicked
<1>1. OrderInv'
  BY DEF TypeOK, HandsInv, JobInv, PlaceInv, ChannelInv, OrderInv, Received
<1>2. CancelInv'
  BY DEF TypeOK, HandsInv, JobInv, PlaceInv, JoinInv, FlagInv, PanicInv, OrderInv,
         Received, CancelInv
<1>3. BegunInv'
  BY DEF BegunInv
<1> QED
  BY <1>1, <1>2, <1>3

\* The worker waits, so the closure was lost to a shutdown.
LEMMA BlockingLostOrderly ==
  ASSUME IInv, LineInv, BlockingLost
  PROVE  LineInv'
<1> USE DEF IInv, LineInv, BlockingLost, DestroyLocals
<1>1. OrderInv'
  BY DEF TypeOK, HandsInv, JobInv, PlaceInv, ChannelInv, OrderInv, Received
<1>2. BegunInv'
  BY DEF TypeOK, HandsInv, JobInv, PlaceInv, OrderInv, BegunInv
<1>3. CancelInv'
  BY DEF TypeOK, HandsInv, JobInv, PlaceInv, JoinInv, FlagInv, PanicInv, OrderInv,
         Received, CancelInv
<1> QED
  BY <1>1, <1>2, <1>3

\* The first message stays, and there was none.
LEMMA SetMsgOrderly ==
  ASSUME IInv, LineInv, SetMsg
  PROVE  LineInv'
<1> USE DEF IInv, LineInv, SetMsg, SetPanicMsg
<1>1. OrderInv'
  BY DEF TypeOK, HandsInv, JobInv, PlaceInv, ChannelInv, OrderInv, Received
<1>2. CancelInv'
  BY DEF TypeOK, HandsInv, JobInv, PlaceInv, JoinInv, FlagInv, PanicInv, OrderInv,
         Received, CancelInv
<1>3. BegunInv'
  BY DEF BegunInv
<1> QED
  BY <1>1, <1>2, <1>3

\* The message is in place before the flag.
LEMMA SetFlagOrderly ==
  ASSUME IInv, LineInv, SetFlag
  PROVE  LineInv'
<1> USE DEF IInv, LineInv, SetFlag, StoreTaskPanicked
<1>1. OrderInv'
  BY DEF TypeOK, HandsInv, JobInv, PlaceInv, ChannelInv, OrderInv, Received
<1>2. CancelInv'
  BY DEF TypeOK, HandsInv, JobInv, PlaceInv, JoinInv, FlagInv, PanicInv, OrderInv,
         Received, CancelInv
<1>3. BegunInv'
  BY DEF BegunInv
<1> QED
  BY <1>1, <1>2, <1>3

\* The flag is set before the panic is delivered.
LEMMA SendPanicOrderly ==
  ASSUME IInv, LineInv, SendPanic
  PROVE  LineInv'
<1> USE DEF IInv, LineInv, SendPanic
<1>1. OrderInv'
  BY DEF TypeOK, HandsInv, JobInv, PlaceInv, ChannelInv, OrderInv, Received
<1>2. BegunInv'
  BY DEF TypeOK, HandsInv, JobInv, PlaceInv, OrderInv, BegunInv
<1>3. CancelInv'
  BY DEF TypeOK, HandsInv, JobInv, PlaceInv, JoinInv, FlagInv, PanicInv, OrderInv,
         Received, CancelInv
<1> QED
  BY <1>1, <1>2, <1>3

\* The task at hand keeps its status.
LEMMA ReturnErrOrderly ==
  ASSUME IInv, LineInv, ReturnErr
  PROVE  LineInv'
<1> USE DEF IInv, LineInv, ReturnErr, DestroyLocals
<1>1. OrderInv'
  BY DEF TypeOK, HandsInv, JobInv, PlaceInv, ChannelInv, OrderInv, Received
<1>2. BegunInv'
  BY DEF TypeOK, HandsInv, JobInv, PlaceInv, OrderInv, BegunInv
<1>3. CancelInv'
  BY DEF TypeOK, HandsInv, JobInv, PlaceInv, JoinInv, FlagInv, PanicInv, OrderInv,
         Received, CancelInv
<1> QED
  BY <1>1, <1>2, <1>3

\* The channel goes with the worker.
LEMMA DropAtRecvOrderly ==
  ASSUME IInv, LineInv, DropAtRecv
  PROVE  LineInv'
<1> USE DEF IInv, LineInv, DropAtRecv, DestroyLocals
<1>1. OrderInv'
  BY DEF TypeOK, HandsInv, JobInv, PlaceInv, ChannelInv, OrderInv, Received
<1>2. BegunInv'
  BY DEF TypeOK, HandsInv, JobInv, PlaceInv, OrderInv, BegunInv
<1>3. CancelInv'
  BY DEF TypeOK, HandsInv, JobInv, PlaceInv, JoinInv, FlagInv, PanicInv, OrderInv,
         Received, CancelInv
<1> QED
  BY <1>1, <1>2, <1>3

\* The guard goes with the worker.
LEMMA DropInAsyncOrderly ==
  ASSUME IInv, LineInv, DropInAsync
  PROVE  LineInv'
<1> USE DEF IInv, LineInv, DropInAsync, DestroyLocals
<1>1. OrderInv'
  BY DEF TypeOK, HandsInv, JobInv, PlaceInv, ChannelInv, OrderInv, Received
<1>2. BegunInv'
  BY DEF TypeOK, HandsInv, JobInv, PlaceInv, OrderInv, BegunInv
<1>3. CancelInv'
  BY DEF TypeOK, HandsInv, JobInv, PlaceInv, JoinInv, FlagInv, PanicInv, OrderInv,
         Received, CancelInv
<1> QED
  BY <1>1, <1>2, <1>3

\* The closure stays, with its lock if it has begun.
LEMMA DropInBlockingOrderly ==
  ASSUME IInv, LineInv, DropInBlocking
  PROVE  LineInv'
<1> USE DEF IInv, LineInv, DropInBlocking, DestroyLocals
<1>1. OrderInv'
  BY DEF TypeOK, HandsInv, JobInv, PlaceInv, ChannelInv, OrderInv, Received
<1>2. BegunInv'
  BY DEF TypeOK, HandsInv, JobInv, PlaceInv, OrderInv, BegunInv
<1>3. CancelInv'
  BY DEF TypeOK, HandsInv, JobInv, PlaceInv, JoinInv, FlagInv, PanicInv, OrderInv,
         Received, CancelInv
<1> QED
  BY <1>1, <1>2, <1>3

\* The task goes to the end of the channel.
LEMMA SubmitOrderly ==
  ASSUME NEW t \in Tasks, IInv, LineInv, Submit(t)
  PROVE  LineInv'
<1> USE DEF IInv, LineInv, Submit, CanCall, HasSender
<1>1. OrderInv'
  <2>1. /\ DOMAIN queue' = 1 .. Len(queue) + 1 /\ queue'[Len(queue) + 1] = t
        /\ DOMAIN sent' = 1 .. Len(sent) + 1 /\ sent'[Len(sent) + 1] = t
        /\ Len(queue) \in Nat /\ Len(sent) \in Nat
        /\ Len(queue') = Len(queue) + 1 /\ Len(sent') = Len(sent) + 1
        /\ \A i \in DOMAIN queue : queue'[i] = queue[i]
        /\ \A i \in DOMAIN sent : sent'[i] = sent[i]
    BY DEF TypeOK

  <2>2. DOMAIN sent = 1 .. Len(sent) /\ DOMAIN queue = 1 .. Len(queue)
    BY DEF TypeOK
  <2>3. Received' = Received /\ Received \in Nat /\ Received + Len(queue) = Len(sent)
    BY <2>1 DEF Received, OrderInv
  <2>4. \A i \in DOMAIN sent : sent[i] # t /\ sent[i] \in Tasks
    BY DEF ChannelInv, TypeOK
  <2>5. \A u \in Tasks : u # t => task'[u] = task[u]
    BY DEF TypeOK
  <2>6. task'[t] = "queued"
    BY DEF TypeOK
  <2>7. \A i, j \in DOMAIN sent' : sent'[i] = sent'[j] => i = j
    BY <2>1, <2>2, <2>4 DEF OrderInv
  <2>8. \A i \in DOMAIN queue' :
          queue'[i] = sent'[Received' + i] /\ task'[queue'[i]] \in {"queued", "cancelled"}
    <3>1. ASSUME NEW i \in DOMAIN queue
          PROVE  /\ queue'[i] = sent'[Received + i]
                 /\ task'[queue'[i]] \in {"queued", "cancelled"}
      <4>1. Received + i \in DOMAIN sent
        BY <2>2, <2>3
      <4> QED
        BY <4>1, <2>1, <2>4, <2>5 DEF OrderInv
    <3>2. queue'[Len(queue) + 1] = sent'[Received + (Len(queue) + 1)]
      BY <2>1, <2>3
    <3>3. \A i \in DOMAIN queue' : i \in DOMAIN queue \/ i = Len(queue) + 1
      BY <2>1, <2>2
    <3> QED
      BY <3>1, <3>2, <3>3, <2>1, <2>3, <2>6
  <2>9. wpc \in {"flag", "take"} => task'[cur] \in {"queued", "cancelled"}
    BY <2>5 DEF HandsInv, OrderInv
  <2>12. cur # NoTask => Received' >= 1 /\ sent'[Received'] = cur
    BY <2>1, <2>2, <2>3 DEF OrderInv
  <2>10. ~ReceiverGone => \A i \in 1 .. Received' :
           task'[sent'[i]] \in {"done", "cancelled"} \/ (i = Received' /\ cur # NoTask)
    BY <2>1, <2>2, <2>3, <2>4, <2>5 DEF OrderInv
  <2>11. \A j \in DOMAIN sent' :
           task'[sent'[j]] \in {"taken", "running", "done", "unwound", "panicked", "broken"} =>
             \A i \in 1 .. j - 1 : task'[sent'[i]] \in {"done", "cancelled"}
    <3>1. ASSUME NEW j \in DOMAIN sent,
                 task'[sent'[j]] \in {"taken", "running", "done", "unwound", "panicked", "broken"},
                 NEW i \in 1 .. j - 1
          PROVE  task'[sent'[i]] \in {"done", "cancelled"}
      <4>1. i \in DOMAIN sent /\ sent'[i] = sent[i] /\ sent'[j] = sent[j]
        BY <2>1, <2>2, <3>1
      <4> QED
        BY <4>1, <3>1, <2>4, <2>5 DEF OrderInv
    <3> QED
      BY <3>1, <2>1, <2>2, <2>6
  <2> QED
    BY <2>3, <2>7, <2>8, <2>9, <2>12, <2>10, <2>11 DEF OrderInv
<1>2. BegunInv'
  BY DEF TypeOK, HandsInv, JobInv, PlaceInv, OrderInv, BegunInv
<1>3. CancelInv'
  <2>1. /\ DOMAIN queue' = 1 .. Len(queue) + 1 /\ queue'[Len(queue) + 1] = t
        /\ DOMAIN sent' = 1 .. Len(sent) + 1 /\ sent'[Len(sent) + 1] = t
        /\ Len(queue) \in Nat /\ Len(sent) \in Nat
        /\ Len(queue') = Len(queue) + 1 /\ Len(sent') = Len(sent) + 1
        /\ \A i \in DOMAIN queue : queue'[i] = queue[i]
        /\ \A i \in DOMAIN sent : sent'[i] = sent[i]
    BY DEF TypeOK

  <2>2. \A u \in leftover : op \in Cancels => u # t
    BY DEF CancelInv
  <2>3. \A u \in Tasks : u # t => task'[u] = task[u]
    BY DEF TypeOK
  <2>4. leftover \subseteq Tasks /\ DOMAIN queue = 1 .. Len(queue)
    BY DEF TypeOK
  <2>5. \A u \in Tasks : (\E i \in DOMAIN queue : queue[i] = u) =>
                         (\E i \in DOMAIN queue' : queue'[i] = u)
    BY <2>1, <2>4
  <2> QED
    BY <2>2, <2>3, <2>4, <2>5 DEF CancelInv
<1> QED
  BY <1>1, <1>2, <1>3

\* The receiver is gone while a sender is left.
LEMMA SubmitFailsOrderly ==
  ASSUME NEW t \in Tasks, IInv, LineInv, SubmitFails(t)
  PROVE  LineInv'
<1> USE DEF IInv, LineInv, SubmitFails, CanCall, HasSender
<1>1. OrderInv'
  BY DEF TypeOK, HandsInv, JobInv, PlaceInv, ChannelInv, OrderInv, Received
<1>2. BegunInv'
  BY DEF TypeOK, HandsInv, JobInv, PlaceInv, OrderInv, BegunInv
<1>3. CancelInv'
  BY DEF TypeOK, HandsInv, JobInv, PlaceInv, JoinInv, FlagInv, PanicInv, OrderInv,
         Received, CancelInv
<1> QED
  BY <1>1, <1>2, <1>3

\* Only the task's status changes.
LEMMA SubmitUnavailableOrderly ==
  ASSUME NEW t \in Tasks, IInv, LineInv, SubmitUnavailable(t)
  PROVE  LineInv'
<1> USE DEF IInv, LineInv, SubmitUnavailable, CanCall, HasSender
<1>1. OrderInv'
  BY DEF TypeOK, HandsInv, JobInv, PlaceInv, ChannelInv, OrderInv, Received
<1>2. BegunInv'
  BY DEF TypeOK, HandsInv, JobInv, PlaceInv, OrderInv, BegunInv
<1>3. CancelInv'
  BY DEF TypeOK, HandsInv, JobInv, PlaceInv, JoinInv, FlagInv, PanicInv, OrderInv,
         Received, CancelInv
<1> QED
  BY <1>1, <1>2, <1>3

\* The reason is true because the worker ended for it.
LEMMA ReportSendErrorOrderly ==
  ASSUME NEW t \in Tasks, IInv, LineInv, ReportSendError(t)
  PROVE  LineInv'
<1> USE DEF IInv, LineInv, ReportSendError
<1>1. OrderInv'
  BY DEF TypeOK, HandsInv, JobInv, PlaceInv, ChannelInv, OrderInv, Received
<1>2. BegunInv'
  BY DEF TypeOK, HandsInv, JobInv, PlaceInv, OrderInv, BegunInv
<1>3. CancelInv'
  BY DEF TypeOK, HandsInv, JobInv, PlaceInv, JoinInv, FlagInv, PanicInv, OrderInv,
         Received, CancelInv
<1> QED
  BY <1>1, <1>2, <1>3

\* Only the canceller moves.
LEMMA CancelReadFlagOrderly ==
  ASSUME NEW t \in Tasks, IInv, LineInv, CancelReadFlag(t)
  PROVE  LineInv'
<1> USE DEF IInv, LineInv, CancelReadFlag
<1>1. BegunInv'
  BY DEF TypeOK, HandsInv, JobInv, PlaceInv, OrderInv, BegunInv
<1>2. OrderInv' /\ CancelInv'
  BY DEF OrderInv, CancelInv, Received
<1> QED
  BY <1>1, <1>2

\* Only the canceller moves.
LEMMA CancelUpgradeOrderly ==
  ASSUME NEW t \in Tasks, IInv, LineInv, CancelUpgrade(t)
  PROVE  LineInv'
<1> USE DEF IInv, LineInv, CancelUpgrade
<1>1. BegunInv'
  BY DEF TypeOK, HandsInv, JobInv, PlaceInv, OrderInv, BegunInv
<1>2. OrderInv' /\ CancelInv'
  BY DEF OrderInv, CancelInv, Received
<1> QED
  BY <1>1, <1>2

\* A task that is queued or kept is destroyed.
LEMMA CancelTakeOrderly ==
  ASSUME NEW t \in Tasks, IInv, LineInv, CancelTake(t)
  PROVE  LineInv'
<1> USE DEF IInv, LineInv, CancelTake
<1>1. OrderInv'
  <2>1. CASE Takeable(t)
    <3>1. task' = [task EXCEPT ![t] = "cancelled"] /\ cx' = [cx EXCEPT ![t] = "won"]
      BY <2>1, Zenon
    <3> QED
      BY <2>1, <3>1 DEF Takeable, TypeOK, HandsInv, PlaceInv, OrderInv, Received
  <2>2. CASE ~Takeable(t)
    <3>1. task' = task /\ cx' = [cx EXCEPT ![t] = "idle"]
      BY <2>2, Zenon
    <3> QED
      BY <3>1 DEF TypeOK, HandsInv, PlaceInv, OrderInv, Received
  <2> QED
    BY <2>1, <2>2
<1>2. BegunInv'
  <2>1. CASE Takeable(t)
    <3>1. task' = [task EXCEPT ![t] = "cancelled"] /\ cx' = [cx EXCEPT ![t] = "won"]
      BY <2>1, Zenon
    <3> QED
      BY <2>1, <3>1 DEF Takeable, TypeOK, BegunInv
  <2>2. CASE ~Takeable(t)
    <3>1. task' = task /\ cx' = [cx EXCEPT ![t] = "idle"]
      BY <2>2, Zenon
    <3> QED
      BY <3>1 DEF TypeOK, BegunInv
  <2> QED
    BY <2>1, <2>2
<1>3. CancelInv'
  BY DEF Takeable, TypeOK, HandsInv, JobInv, PlaceInv, JoinInv, FlagInv, PanicInv,
         OrderInv, Received, CancelInv
<1> QED
  BY <1>1, <1>2, <1>3

\* Only the canceller moves.
LEMMA CancelStoreOrderly ==
  ASSUME NEW t \in Tasks, IInv, LineInv, CancelStore(t)
  PROVE  LineInv'
<1> USE DEF IInv, LineInv, CancelStore
<1>1. BegunInv'
  BY DEF TypeOK, HandsInv, JobInv, PlaceInv, OrderInv, BegunInv
<1>2. OrderInv' /\ CancelInv'
  BY DEF OrderInv, CancelInv, Received
<1> QED
  BY <1>1, <1>2

\* No call through the handle is in progress.
LEMMA ConsumeOrderly ==
  ASSUME NEW o \in Aborts \cup Cancels \cup Joins \cup {"drop"}, IInv, LineInv, Consume(o)
  PROVE  LineInv'
<1> USE DEF IInv, LineInv, Consume, NotBorrowed
<1>1. CancelInv'
  BY DEF TypeOK, HandsInv, JobInv, PlaceInv, JoinInv, FlagInv, PanicInv, OrderInv,
         Received, CancelInv
<1>2. OrderInv' /\ BegunInv'
  BY DEF OrderInv, BegunInv, Received
<1> QED
  BY <1>1, <1>2

\* Only the owner moves.
LEMMA CheckFinishedOrderly ==
  ASSUME IInv, LineInv, CheckFinished
  PROVE  LineInv'
<1> USE DEF IInv, LineInv, CheckFinished
<1>1. CancelInv'
  BY DEF TypeOK, HandsInv, JobInv, PlaceInv, JoinInv, FlagInv, PanicInv, OrderInv,
         Received, CancelInv
<1>2. OrderInv' /\ BegunInv'
  BY DEF OrderInv, BegunInv, Received
<1> QED
  BY <1>1, <1>2

\* The flags change only if nothing was set.
LEMMA TrySetAbortOrderly ==
  ASSUME IInv, LineInv, TrySetAbort
  PROVE  LineInv'
<1> USE DEF IInv, LineInv, TrySetAbort, TrySetFlag, DidSetFlag
<1>1. CancelInv'
  BY DEF TypeOK, HandsInv, JobInv, PlaceInv, JoinInv, FlagInv, PanicInv, OrderInv,
         Received, CancelInv
<1>2. OrderInv' /\ BegunInv'
  BY DEF OrderInv, BegunInv, Received
<1> QED
  BY <1>1, <1>2

\* The flags change only if nothing was set.
LEMMA TrySetCancelOrderly ==
  ASSUME IInv, LineInv, TrySetCancel
  PROVE  LineInv'
<1> USE DEF IInv, LineInv, TrySetCancel, TrySetFlag
<1>1. CancelInv'
  BY DEF TypeOK, HandsInv, JobInv, PlaceInv, JoinInv, FlagInv, PanicInv, OrderInv,
         Received, CancelInv
<1>2. OrderInv' /\ BegunInv'
  BY DEF OrderInv, BegunInv, Received
<1> QED
  BY <1>1, <1>2

\* The flag was set before.
LEMMA AbortWorkerOrderly ==
  ASSUME IInv, LineInv, AbortWorker
  PROVE  LineInv'
<1> USE DEF IInv, LineInv, AbortWorker
<1>1. CancelInv'
  BY DEF TypeOK, HandsInv, JobInv, PlaceInv, JoinInv, FlagInv, PanicInv, OrderInv,
         Received, CancelInv
<1>2. OrderInv' /\ BegunInv'
  BY DEF OrderInv, BegunInv, Received
<1> QED
  BY <1>1, <1>2

\* Senders less never open the channel.
LEMMA CloseAllOrderly ==
  ASSUME IInv, LineInv, CloseAll
  PROVE  LineInv'
<1> USE DEF IInv, LineInv, CloseAll, TakeCtx
<1>1. CancelInv'
  BY DEF TypeOK, HandsInv, JobInv, PlaceInv, JoinInv, FlagInv, PanicInv, OrderInv,
         Received, CancelInv
<1>2. OrderInv' /\ BegunInv'
  BY DEF OrderInv, BegunInv, Received
<1> QED
  BY <1>1, <1>2

\* A sender less never opens the channel.
LEMMA DropSendersOrderly ==
  ASSUME IInv, LineInv, DropSenders
  PROVE  LineInv'
<1> USE DEF IInv, LineInv, DropSenders
<1>1. CancelInv'
  <2>1. op \in Cancels => leftover' = Range(queue)
    OBVIOUS
  <2>2. op \in Cancels => \A t \in leftover' : \E i \in DOMAIN queue : queue[i] = t
    BY <2>1 DEF Range
  <2>3. op \in Cancels => \A t \in leftover' : task[t] \in {"queued", "cancelled"}
    BY <2>2 DEF OrderInv
  <2> QED
    BY <2>2, <2>3 DEF TypeOK, JoinInv, FlagInv, PanicInv, CancelInv
<1>2. OrderInv' /\ BegunInv'
  BY DEF OrderInv, BegunInv, Received
<1> QED
  BY <1>1, <1>2

\* The JoinHandle is complete.
LEMMA JoinAwaitOrderly ==
  ASSUME IInv, LineInv, JoinAwait
  PROVE  LineInv'
<1> USE DEF IInv, LineInv, JoinAwait
<1>1. CancelInv'
  BY DEF TypeOK, HandsInv, JobInv, PlaceInv, JoinInv, FlagInv, PanicInv, OrderInv,
         Received, CancelInv
<1>2. OrderInv' /\ BegunInv'
  BY DEF OrderInv, BegunInv, Received
<1> QED
  BY <1>1, <1>2

\* The lock was free, so no task runs.
LEMMA JoinLockOrderly ==
  ASSUME IInv, LineInv, JoinLock
  PROVE  LineInv'
<1> USE DEF IInv, LineInv, JoinLock
<1>1. CancelInv'
  BY DEF TypeOK, HandsInv, JobInv, PlaceInv, JoinInv, FlagInv, PanicInv, OrderInv,
         Received, CancelInv
<1>2. OrderInv' /\ BegunInv'
  BY DEF OrderInv, BegunInv, Received
<1> QED
  BY <1>1, <1>2

\* The state was there, because no one else takes it.
LEMMA JoinTakeOrderly ==
  ASSUME IInv, LineInv, JoinTake
  PROVE  LineInv'
<1> USE DEF IInv, LineInv, JoinTake
<1>1. CancelInv'
  BY DEF TypeOK, HandsInv, JobInv, PlaceInv, JoinInv, FlagInv, PanicInv, OrderInv,
         Received, CancelInv
<1>2. OrderInv' /\ BegunInv'
  BY DEF OrderInv, BegunInv, Received
<1> QED
  BY <1>1, <1>2

\* What is reported is what the worker's end and the flags say.
LEMMA JoinReportOrderly ==
  ASSUME IInv, LineInv, JoinReport
  PROVE  LineInv'
<1> USE DEF IInv, LineInv, JoinReport, JoinOutcome
<1>1. CancelInv'
  BY DEF TypeOK, HandsInv, JobInv, PlaceInv, JoinInv, FlagInv, PanicInv, OrderInv,
         Received, CancelInv
<1>2. OrderInv' /\ BegunInv'
  BY DEF OrderInv, BegunInv, Received
<1> QED
  BY <1>1, <1>2

\* Only the owner moves.
LEMMA DropJoinOrderly ==
  ASSUME IInv, LineInv, DropJoin
  PROVE  LineInv'
<1> USE DEF IInv, LineInv, DropJoin
<1>1. CancelInv'
  BY DEF TypeOK, HandsInv, JobInv, PlaceInv, JoinInv, FlagInv, PanicInv, OrderInv,
         Received, CancelInv
<1>2. OrderInv' /\ BegunInv'
  BY DEF OrderInv, BegunInv, Received
<1> QED
  BY <1>1, <1>2

\* The steps that change nothing LineInv speaks of.
LEMMA OthersOrderly ==
  ASSUME LineInv, CompleteJoinHandle \/ Shutdown \/ (\E s \in Spawners : NewSpawner(s))
                  \/ (\E s \in Spawners : DropSpawner(s)) \/ CloseSenders \/ UNCHANGED vars
  PROVE  LineInv'
<1> USE DEF LineInv, OrderInv, Received, BegunInv, CancelInv
<1>1. CASE CompleteJoinHandle
  BY <1>1 DEF CompleteJoinHandle
<1>2. CASE Shutdown
  BY <1>2 DEF Shutdown
<1>3. CASE \E s \in Spawners : NewSpawner(s)
  BY <1>3 DEF NewSpawner
<1>4. CASE \E s \in Spawners : DropSpawner(s)
  BY <1>4 DEF DropSpawner
<1>5. CASE CloseSenders
  BY <1>5 DEF CloseSenders, NotBorrowed, TakeCtx
<1>6. CASE UNCHANGED vars
  BY <1>6 DEF vars
<1> QED
  BY <1>1, <1>2, <1>3, <1>4, <1>5, <1>6

-----------------------------------------------------------------------------
(* Every step, and what follows.                                            *)

\* Initially no task was accepted.
LEMMA InitLine == Init => LineInv
<1> SUFFICES ASSUME Init PROVE LineInv
  OBVIOUS
<1> USE DEF Init, InitStatus
<1>1. OrderInv
  BY DEF OrderInv, Received
<1>2. BegunInv /\ CancelInv
  BY DEF BegunInv, CancelInv
<1> QED
  BY <1>1, <1>2 DEF LineInv

\* One case for each of the groups that Next is made of.
LEMMA StepLine == IInv /\ LineInv /\ [Next]_vars => LineInv'
<1> SUFFICES ASSUME IInv, LineInv, [Next]_vars
             PROVE  LineInv'
  OBVIOUS
<1>1. CASE Loop
  BY <1>1, RecvOrderly, RecvClosedOrderly, ObserveCancelOrderly, PassFlagOrderly,
     TakeTaskOrderly, SkipCancelledOrderly, StartAsyncOrderly, StartBlockingOrderly,
     StartBlockingShutdownOrderly, BlockingReturnedOrderly, BlockingPanickedOrderly,
     BlockingLostOrderly, SetMsgOrderly, SetFlagOrderly, SendPanicOrderly, ReturnErrOrderly
     DEF Loop
<1>2. CASE AsyncBody \/ Pool \/ PoolBody
  BY <1>2, AsyncReturnsOrderly, AsyncPanicsOrderly, PoolStartOrderly, PoolRefuseOrderly,
     PoolShutdownOrderly, PoolReturnsOrderly, PoolPanicsOrderly DEF AsyncBody, Pool,
     PoolBody
<1>3. CASE Drops \/ CompleteJoinHandle \/ Shutdown
  BY <1>3, DropAtRecvOrderly, DropInAsyncOrderly, DropInBlockingOrderly, OthersOrderly DEF
     Drops
<1>4. CASE SenderNext
  BY <1>4, SubmitOrderly, SubmitFailsOrderly, SubmitUnavailableOrderly,
     ReportSendErrorOrderly, OthersOrderly DEF SenderNext
<1>5. CASE CancellerNext
  BY <1>5, CancelReadFlagOrderly, CancelUpgradeOrderly, CancelTakeOrderly,
     CancelStoreOrderly DEF CancellerNext, CancelRuns
<1>6. CASE HandleNext
  BY <1>6, CheckFinishedOrderly, TrySetAbortOrderly, TrySetCancelOrderly,
     AbortWorkerOrderly, CloseAllOrderly, DropSendersOrderly, JoinAwaitOrderly,
     JoinLockOrderly, JoinTakeOrderly, JoinReportOrderly, OthersOrderly, ConsumeOrderly,
     DropJoinOrderly DEF HandleNext, HandleRuns, JoinRuns
<1>7. CASE UNCHANGED vars
  BY <1>7, OthersOrderly
<1> QED
  BY <1>1, <1>2, <1>3, <1>4, <1>5, <1>6, <1>7 DEF Next, WorkerNext

(***************************************************************************)
(* The order of the tasks is kept in every execution: what is in the       *)
(* channel is the end of what was accepted, and what is before the task in *)
(* hand is settled.                                                        *)
(***************************************************************************)
THEOREM LineHolds == Spec => []LineInv
<1> QED
  BY InitLine, StepLine, InvHolds, PTL DEF Spec

\* A task that began shows it, and one that does has nothing open before it.
LEMMA InOrderFollows == LineInv => InOrder
<1> SUFFICES ASSUME LineInv PROVE InOrder
  OBVIOUS
<1>1. \A t \in Begun : task[t] \in {"running", "done", "unwound", "panicked", "broken"}
  BY DEF LineInv, BegunInv, Begun, Range
<1>2. ASSUME NEW j \in DOMAIN sent, NEW i \in 1 .. j - 1, sent[j] \in Begun
      PROVE  task[sent[i]] \in {"done", "cancelled"}
  BY <1>1, <1>2 DEF LineInv, OrderInv
<1>3. \A i, j \in DOMAIN data : data[i] = data[j] => i = j
  BY DEF LineInv, BegunInv
<1> QED
  BY <1>2, <1>3 DEF InOrder

(***************************************************************************)
(* When a task begins, every task queued before it returned or was         *)
(* cancelled one by one; and no task begins twice.                         *)
(***************************************************************************)
THEOREM InOrderHolds == Spec => []InOrder
<1> QED
  BY InOrderFollows, LineHolds, PTL

\* A task that began shows it, and so does one that was cancelled.
LEMMA CancelledNeverBeginsFollows == LineInv => CancelledNeverBegins
BY DEF LineInv, BegunInv, CancelledNeverBegins, Begun, Range

(***************************************************************************)
(* A task whose canceller answered true, or is about to, never begins.     *)
(***************************************************************************)
THEOREM CancelledNeverBeginsHolds == Spec => []CancelledNeverBegins
<1> QED
  BY CancelledNeverBeginsFollows, LineHolds, PTL

\* What is left over is nowhere near the state.
LEMMA CancelledQueueNeverStartsFollows == LineInv => CancelledQueueNeverStarts
BY DEF LineInv, BegunInv, CancelInv, CancelledQueueNeverStarts, Begun, Range

(***************************************************************************)
(* What cancel or cancel_and_join finds in the channel never begins.       *)
(***************************************************************************)
THEOREM CancelledQueueNeverStartsHolds == Spec => []CancelledQueueNeverStarts
<1> QED
  BY CancelledQueueNeverStartsFollows, LineHolds, PTL
=============================================================================
