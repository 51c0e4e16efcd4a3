-------------------------- MODULE TaskHandleProof ---------------------------
(***************************************************************************)
(* Proofs about TaskHandle, for any sets of tasks and spawners and any     *)
(* tasks watched: PollInv is inductive, the safety properties of the polls *)
(* follow from it, and the handles implement TaskPromise.  TaskHandleSystem*)
(* goes on from there.                                                     *)
(***************************************************************************)
EXTENDS TaskHandleInv, AsyncSequentialPromise

USE DEF statusVars, channelVars, mutexVars, workerVars, tokioVars, handleVars, cancellerVars,
        aside, senderAside, cancelAside, handleAside, ReceiverGone, Stopping, Ends,
        Awaits, Steps, Flags, TaskStatus, StatusTypeOK, FLAG_OTHER, FLAG_ABORT_STARTED,
        FLAG_CANCEL_STARTED, FLAG_TASK_PANICKED, Aborts, Cancels, Joins, JoinErrors

USE NoTaskAssumption, ConstantsAssumption

-----------------------------------------------------------------------------
(* The polls.                                                               *)

\* A handle that is polled is the handle of a task.
LEMMA WatchedAreTasks == ASSUME NEW t \in Watched PROVE t \in Tasks
BY WatchedAssumption

\* Nothing of the system moves but, with the upgrade, who refers to the OnceTake.
LEMMA PollLeaves ==
  ASSUME IInv, LineInv, ShownInv, stealing' \in SUBSET Tasks,
         UNCHANGED <<task, cx, is_cancelled, cancelAside>>
  PROVE  IInv' /\ LineInv' /\ ShownInv' /\ \A u \in Tasks : Ages(u)
<1> USE DEF IInv
<1>1. TypeOK'
  BY DEF TypeOK
<1>2. /\ HandsInv' /\ JobInv' /\ LockInv' /\ PlaceInv' /\ JoinInv'
      /\ FlagInv' /\ ChannelInv' /\ CleanInv' /\ PanicInv' /\ BlameInv'
  BY DEF HandsInv, JobInv, LockInv, PlaceInv, JoinInv, FlagInv, ChannelInv, CleanInv,
         PanicInv, BlameInv, ChannelOpen
<1>3. LineInv'
  BY DEF LineInv, OrderInv, BegunInv, CancelInv, Received
<1>4. ShownInv' /\ \A u \in Tasks : Ages(u)
  BY QuietShows
<1> QED
  BY <1>1, <1>2, <1>3, <1>4

\* A task is destroyed that had not begun, or nothing is.
LEMMA StealTakeKeeps ==
  ASSUME NEW t \in Watched, IInv, LineInv, ShownInv, StealTake(t)
  PROVE  IInv' /\ LineInv' /\ ShownInv' /\ \A u \in Tasks : Ages(u)
<1>1. t \in Tasks /\ stealing' \in SUBSET Tasks
  BY WatchedAreTasks DEF StealTake, IInv, TypeOK
<1>2. CASE ~Takeable(t)
  <2>1. UNCHANGED <<task, cx, is_cancelled, cancelAside>>
    BY <1>2, Zenon DEF StealTake
  <2> QED
    BY <1>1, <2>1, PollLeaves
<1>3. CASE Takeable(t)
  <2>1. /\ task' = [task EXCEPT ![t] = "cancelled"]
        /\ is_cancelled' = [is_cancelled EXCEPT ![t] = TRUE]
        /\ UNCHANGED <<cx, cancelAside>>
    BY <1>3, Zenon DEF StealTake
  <2>2. task[t] \in {"queued", "kept"}
    BY <1>3 DEF Takeable
  <2> USE <1>1, <2>1, <2>2 DEF IInv
  <2>3. TypeOK'
    BY DEF TypeOK
  <2>4. HandsInv' /\ JobInv' /\ PlaceInv'
    BY DEF TypeOK, HandsInv, JobInv, LockInv, PlaceInv, JoinInv
  <2>5. ChannelInv'
    BY DEF TypeOK, HandsInv, JoinInv, ChannelInv
  <2>6. CleanInv'
    BY DEF TypeOK, HandsInv, JobInv, PlaceInv, ChannelInv, JoinInv, FlagInv, CleanInv
  <2>7. PanicInv'
    BY DEF TypeOK, HandsInv, JobInv, PlaceInv, JoinInv, CleanInv, PanicInv
  <2>8. BlameInv'
    BY DEF TypeOK, HandsInv, JobInv, LockInv, PlaceInv, JoinInv, FlagInv, ChannelInv,
           CleanInv, PanicInv, BlameInv, ChannelOpen
  <2>9. LockInv' /\ JoinInv' /\ FlagInv'
    BY DEF LockInv, JoinInv, FlagInv
  <2>10. OrderInv'
    BY DEF LineInv, TypeOK, HandsInv, PlaceInv, OrderInv, Received
  <2>11. BegunInv'
    BY DEF LineInv, TypeOK, BegunInv
  <2>12. CancelInv'
    BY DEF LineInv, TypeOK, HandsInv, JobInv, PlaceInv, JoinInv, FlagInv, PanicInv, OrderInv,
           Received, CancelInv
  <2>13. ShownInv'
    BY DEF TypeOK, ShownInv, HasCanceller, Begun, Range
  <2>14. \A u \in Tasks : Ages(u)
    BY DEF TypeOK, HandsInv, Ages, NoPanicToCome, HasCanceller, Range
  <2> QED
    BY <2>3, <2>4, <2>5, <2>6, <2>7, <2>8, <2>9, <2>10, <2>11, <2>12, <2>13, <2>14 DEF LineInv
<1> QED
  BY <1>2, <1>3

\* What every step of the polls and of the system does to the system.
LEMMA StepOfSystem ==
  ASSUME IInv, LineInv, ShownInv, [PollNext]_allVars
  PROVE  /\ IInv' /\ LineInv' /\ ShownInv' /\ \A u \in Tasks : Ages(u)
         /\ ~up => ~up'
         /\ op # "none" => op' = op
         /\ flags = FLAG_TASK_PANICKED => flags' = FLAG_TASK_PANICKED
         /\ flags # FLAG_OTHER => flags' # FLAG_OTHER
         /\ ReceiverGone => ReceiverGone'
<1>1. CASE [Next]_vars
  BY <1>1, StepInv, StepLine, StepShows, StepGoesOn
<1>2. ASSUME NEW t \in Watched, StealTake(t)
      PROVE  IInv' /\ LineInv' /\ ShownInv' /\ (\A u \in Tasks : Ages(u)) /\ UNCHANGED cancelAside
  BY <1>2, StealTakeKeeps DEF StealTake
<1>3. ASSUME NEW t \in Watched, StealUpgrade(t)
      PROVE  IInv' /\ LineInv' /\ ShownInv' /\ (\A u \in Tasks : Ages(u)) /\ UNCHANGED cancelAside
  <2>1. stealing' \in SUBSET Tasks /\ UNCHANGED <<task, cx, is_cancelled, cancelAside>>
    BY <1>3, WatchedAreTasks DEF StealUpgrade, IInv, TypeOK
  <2> QED
    BY <2>1, PollLeaves
<1>4. ASSUME NEW t \in Watched,
             \/ Unspawned(t) \/ StartPoll(t) \/ PollResultRx(t) \/ ReadIsCancelled(t)
             \/ ReadFlag(t) \/ ReadFlagPending(t) \/ PollAgain(t)
      PROVE  UNCHANGED vars
  BY <1>4 DEF Unspawned, UnspawnedReason, StartPoll, PollResultRx,
     ReadIsCancelled, ReadFlag, ReadFlagPending,
     PollAgain, PollPanicRx
<1>5. CASE UNCHANGED allVars
  BY <1>1, <1>5 DEF allVars
<1>6. CASE \E t \in Watched : StealTake(t) \/ StealUpgrade(t)
  BY <1>2, <1>3, <1>6
<1> QED
  BY <1>1, <1>4, <1>5, <1>6 DEF PollNext, PollRuns

\* A handle that does not move keeps what it knows and what it said.
LEMMA BystanderKeeps ==
  ASSUME IInv, LineInv, ShownInv, [PollNext]_allVars, NEW t \in Watched, Look(t), Said(t),
         ph'[t] = ph[t], panic_rx_ready'[t] = panic_rx_ready[t],
         result_rx_ready'[t] = result_rx_ready[t], out'[t] = out[t], msg'[t] = msg[t]
  PROVE  Look(t)' /\ Said(t)'
<1>1. /\ \A u \in Tasks : Ages(u)
      /\ ~up => ~up'
      /\ op # "none" => op' = op
      /\ flags = FLAG_TASK_PANICKED => flags' = FLAG_TASK_PANICKED
  BY StepOfSystem
<1>2. t \in Tasks
  BY WatchedAreTasks
<1>3. NoPanicToCome(t) => NoPanicToCome(t)'
  BY <1>1, <1>2 DEF Ages
<1>4. HasCanceller(t) => HasCanceller(t)'
  BY <1>1, <1>2 DEF Ages
<1>5. NoResultToCome(t) => NoResultToCome(t)'
  BY <1>1, <1>2 DEF Ages, NoResultToCome
<1>6. Look(t)'
  BY <1>1, <1>3, <1>4, <1>5 DEF Look
<1>7. Refused(t) => Refused(t)'
  BY <1>1, <1>2 DEF Ages, Refused
<1>8. Said(t)'
  <2>1. out[t] = "Ok" => task'[t] = "done"
    BY <1>1, <1>2 DEF Said, Ages
  <2>2. out[t] = "TaskPanic" => task'[t] = "panicked"
    BY <1>1, <1>2 DEF Said, Ages
  <2>3. IsCancelled(out[t]) => Refused(t)' \/ (NoPanicToCome(t)' /\ NoResultToCome(t)')
    BY <1>3, <1>5, <1>7 DEF Said
  <2>4. IsCancelled(out[t]) => task'[t] = task[t]
    <3>1. ASSUME NoPanicToCome(t), NoResultToCome(t)
          PROVE  task'[t] = task[t]
      BY <1>1, <1>2, <1>3, <3>1 DEF Ages, NoPanicToCome, NoResultToCome
    <3>2. Refused(t) => task'[t] = task[t]
      BY <1>1, <1>2 DEF Ages, Refused
    <3> QED
      BY <3>1, <3>2 DEF Said
  <2>5. out[t] = "PreviousTaskPanic" =>
          /\ flags' = FLAG_TASK_PANICKED
          /\ \E p \in Tasks \ {t} : task'[p] \in {"unwound", "panicked"} /\ msg[t] = Text(p)
    BY <1>1 DEF Said, Ages
  <2>6. out[t] \in {"PreviousTaskPanic", "TaskCancelled", "TaskSpawnerUnavailable"} =>
          task'[t] \notin {"unwound", "broken"}
    BY <2>4 DEF Said, IsCancelled
  <2>7. /\ out[t] = "WorkerAborted" => op' \in Aborts
        /\ out[t] = "WorkerCancelled" =>
             op' \in Cancels /\ (task'[t] \in {"unwound", "broken"} => ~up')
    BY <1>1, <2>4 DEF Said, IsCancelled
  <2> QED
    BY <2>1, <2>2, <2>3, <2>5, <2>6, <2>7 DEF Said
<1> QED
  BY <1>6, <1>8

\* The text of a kind is a text, or none.
LEMMA MsgType ==
  ASSUME IInv, NEW t \in Tasks, NEW kind
  PROVE  MsgOf(kind, t) \in Tasks \cup {NoTask}
BY DEF MsgOf, Text, PanicMsg, IInv, TypeOK

\* What Resolve and Goto do to the handle that polls, and to the others.
LEMMA ResolveDoes ==
  ASSUME IInv, PollTypeOK, NEW t \in Watched, NEW outcome \in Outcomes, Resolve(t, outcome)
  PROVE  /\ ph'[t] = "done" /\ out'[t] = outcome /\ msg'[t] = MsgOf(outcome, t)
         /\ \A u \in Watched \ {t} : ph'[u] = ph[u] /\ out'[u] = out[u] /\ msg'[u] = msg[u]
         /\ panic_rx_ready' \in [Watched -> BOOLEAN] /\ result_rx_ready' \in [Watched -> BOOLEAN]
              => PollTypeOK'
<1>1. MsgOf(outcome, t) \in Tasks \cup {NoTask}
  BY MsgType, WatchedAreTasks
<1>2. outcome # "none"
  BY DEF Outcomes, Kinds
<1> QED
  BY <1>1, <1>2 DEF Resolve, PollTypeOK

\* The poll is elsewhere, and has said nothing.
LEMMA GotoDoes ==
  ASSUME PollTypeOK, NEW t \in Watched, ph[t] # "done", Goto(t, ph'[t]),
         ph'[t] \in {"idle", "result", "none", "flag", "pending", "steal", "holding"}
  PROVE  /\ out'[t] = out[t] /\ out[t] = "none"
         /\ \A u \in Watched \ {t} : ph'[u] = ph[u] /\ out'[u] = out[u] /\ msg'[u] = msg[u]
         /\ panic_rx_ready' \in [Watched -> BOOLEAN] /\ result_rx_ready' \in [Watched -> BOOLEAN]
              => PollTypeOK'
BY DEF Goto, PollTypeOK

\* What a poll by t leaves as it should be.
After(t) ==
  /\ PollTypeOK'
  /\ Look(t)' /\ Said(t)'
  /\ \A u \in Watched \ {t} :
       /\ ph'[u] = ph[u] /\ out'[u] = out[u] /\ msg'[u] = msg[u]
       /\ panic_rx_ready'[u] = panic_rx_ready[u] /\ result_rx_ready'[u] = result_rx_ready[u]

\* A handle that has not answered yet has said nothing.
LEMMA SilentSaid ==
  ASSUME NEW t \in Watched, out'[t] = "none"
  PROVE  Said(t)'
BY DEF Said, IsCancelled

\* The handle tells of the refusal.
LEMMA UnspawnedKeeps ==
  ASSUME PollInv, NEW t \in Watched, Unspawned(t)
  PROVE  After(t)
<1> USE DEF PollInv
<1>1. t \in Tasks /\ UNCHANGED <<panic_rx_ready, result_rx_ready, vars>>
  BY WatchedAreTasks DEF Unspawned, UnspawnedReason
<1>2. PICK outcome \in {"PreviousTaskPanic", "RuntimeShutdown", "TaskSpawnerUnavailable"} :
        /\ Resolve(t, outcome)
        /\ outcome = "PreviousTaskPanic" <=> task[t] = "refused_panic"
        /\ task[t] \in {"refused_panic", "refused_shutdown", "refused_unavailable"}
  BY DEF Unspawned, UnspawnedReason
<1>3. outcome \in Outcomes
  BY DEF Outcomes, Kinds
<1>4. PollTypeOK /\ panic_rx_ready' \in [Watched -> BOOLEAN] /\ result_rx_ready' \in [Watched -> BOOLEAN]
  BY <1>1 DEF PollTypeOK
<1>5. Look(t)'
  BY <1>2, <1>3, ResolveDoes DEF Look
<1>6. outcome = "PreviousTaskPanic" =>
        /\ flags = FLAG_TASK_PANICKED
        /\ task_panic_msg \in Tasks \ {t} /\ task[task_panic_msg] = "panicked"
        /\ MsgOf(outcome, t) = Text(task_panic_msg)
  BY <1>1, <1>2 DEF IInv, BlameInv, PanicInv, MsgOf, PanicMsg
<1>7. Said(t)'
  BY <1>1, <1>2, <1>3, <1>6, ResolveDoes DEF Said, Refused, vars
<1> QED
  BY <1>1, <1>2, <1>3, <1>4, <1>5, <1>7, ResolveDoes DEF After

\* An accepted task was not refused, and is somewhere.
LEMMA AcceptedIsSomewhere ==
  ASSUME IInv, NEW t \in Tasks, HasCanceller(t)
  PROVE  task[t] \in {"queued", "kept", "cancelled", "taken", "running", "done", "unwound",
                      "panicked", "dropped", "broken"}
<1>1. PICK i \in DOMAIN sent : sent[i] = t
  BY DEF HasCanceller, Range
<1> QED
  BY <1>1 DEF IInv, TypeOK, ChannelInv

\* What the panic channel yields is what its sender did.
LEMMA PollPanicRxKeeps ==
  ASSUME PollInv, NEW t \in Watched, PollPanicRx(t), HasCanceller(t), ph[t] # "done"
  PROVE  After(t)
<1> USE DEF PollInv
<1>1. /\ t \in Tasks /\ UNCHANGED <<result_rx_ready, vars>>
      /\ panic_rx_ready' = [panic_rx_ready EXCEPT ![t] = @ \/ PanicTx(t) # "open"]
  BY WatchedAreTasks DEF PollPanicRx
<1>2. PollTypeOK /\ panic_rx_ready' \in [Watched -> BOOLEAN] /\ result_rx_ready' \in [Watched -> BOOLEAN]
  BY <1>1 DEF PollTypeOK
<1>3. CASE ~panic_rx_ready[t] /\ PanicTx(t) = "sent"
  <2>1. Resolve(t, "TaskPanic") /\ task[t] = "panicked"
    BY <1>3 DEF PollPanicRx, PanicTx
  <2>2. "TaskPanic" \in Outcomes
    BY DEF Outcomes, Kinds
  <2>3. Look(t)' /\ Said(t)'
    BY <1>1, <2>1, <2>2, ResolveDoes DEF Look, Said, IsCancelled, vars
  <2> QED
    BY <1>1, <1>2, <2>1, <2>2, <2>3, ResolveDoes DEF After, PollTypeOK
<1>4. CASE ~(~panic_rx_ready[t] /\ PanicTx(t) = "sent")
  <2>1. Goto(t, "result") /\ ph'[t] = "result"
    BY <1>2, <1>4 DEF PollPanicRx, Goto, PollTypeOK
  <2>2. out'[t] = "none" /\ PollTypeOK'
    BY <1>2, <2>1, GotoDoes
  <2>3. panic_rx_ready'[t] => NoPanicToCome(t)
    <3>1. ASSUME ~panic_rx_ready[t], PanicTx(t) = "closed"
          PROVE  NoPanicToCome(t)
      <4>1. task[t] \notin {"panicked", "queued", "kept"}
            /\ ~(cur = t /\ wpc \in (Awaits \cup Steps) \ {"flag", "take", "return_err"})
        BY <3>1 DEF PanicTx, Takeable
      <4>2. cur = t => task[t] \in {"cancelled"}
        BY <1>1, <4>1 DEF IInv, TypeOK, HandsInv, LineInv, OrderInv
      <4> QED
        BY <1>1, <4>1, <4>2, AcceptedIsSomewhere DEF NoPanicToCome
    <3>2. PanicTx(t) \in {"sent", "open", "closed"}
      BY DEF PanicTx
    <3>3. panic_rx_ready'[t] => panic_rx_ready[t] \/ PanicTx(t) # "open"
      BY <1>1, <1>2 DEF PollTypeOK
    <3> QED
      BY <1>4, <3>1, <3>2, <3>3 DEF LookInv, Look
  <2>4. Look(t)'
    BY <1>1, <2>1, <2>3 DEF Look, LookInv, vars, NoPanicToCome, NoResultToCome, HasCanceller
  <2> QED
    BY <1>1, <1>2, <2>1, <2>2, <2>4, GotoDoes, SilentSaid DEF After, PollTypeOK
<1> QED
  BY <1>3, <1>4

\* What the result channel yields is what its sender did.
LEMMA PollResultRxKeeps ==
  ASSUME PollInv, NEW t \in Watched, PollResultRx(t)
  PROVE  After(t)
<1> USE DEF PollInv
<1>1. /\ t \in Tasks /\ UNCHANGED <<panic_rx_ready, vars>>
      /\ ph[t] = "result"
      /\ result_rx_ready' = [result_rx_ready EXCEPT ![t] = @ \/ ResultTx(t) # "open"]
  BY WatchedAreTasks DEF PollResultRx
<1>2. PollTypeOK /\ panic_rx_ready' \in [Watched -> BOOLEAN] /\ result_rx_ready' \in [Watched -> BOOLEAN]
  BY <1>1 DEF PollTypeOK
<1>3. CASE ~result_rx_ready[t] /\ ResultTx(t) = "sent"
  <2>1. Resolve(t, "Ok") /\ task[t] = "done"
    BY <1>3 DEF PollResultRx, ResultTx
  <2>2. "Ok" \in Outcomes
    BY DEF Outcomes
  <2>3. Look(t)' /\ Said(t)'
    BY <1>1, <2>1, <2>2, ResolveDoes DEF Look, Said, IsCancelled, vars
  <2> QED
    BY <1>1, <1>2, <2>1, <2>2, <2>3, ResolveDoes DEF After, PollTypeOK
<1>4. CASE ~(~result_rx_ready[t] /\ ResultTx(t) = "sent")
  <2>1. /\ Goto(t, ph'[t]) /\ ph'[t] \in {"none", "pending"}
        /\ ph'[t] = "none" => panic_rx_ready[t] /\ (result_rx_ready[t] \/ ResultTx(t) # "open")
    BY <1>2, <1>4 DEF PollResultRx, Goto, PollTypeOK
  <2>2. out'[t] = "none" /\ PollTypeOK'
    BY <1>1, <1>2, <2>1, GotoDoes
  <2>3. result_rx_ready[t] \/ ResultTx(t) # "open" => NoResultToCome(t)
    <3>1. ASSUME ~result_rx_ready[t], ResultTx(t) = "closed"
          PROVE  NoResultToCome(t)
      <4>1. task[t] \notin {"done", "queued", "kept", "taken", "running"}
        BY <3>1 DEF ResultTx
      <4>2. HasCanceller(t)
        BY <1>1 DEF LookInv, Look
      <4> QED
        BY <1>1, <4>1, <4>2, AcceptedIsSomewhere DEF NoResultToCome
    <3>2. ResultTx(t) \in {"sent", "open", "closed"}
      BY DEF ResultTx
    <3> QED
      BY <1>1, <1>4, <3>1, <3>2 DEF LookInv, Look
  <2>4. result_rx_ready'[t] => result_rx_ready[t] \/ ResultTx(t) # "open"
    BY <1>1, <1>2 DEF PollTypeOK
  <2>5. Look(t)'
    BY <1>1, <2>1, <2>3, <2>4 DEF Look, LookInv, vars, NoPanicToCome, NoResultToCome, HasCanceller
  <2> QED
    BY <1>1, <1>2, <2>1, <2>2, <2>5, GotoDoes, SilentSaid DEF After, PollTypeOK
<1> QED
  BY <1>3, <1>4

\* A canceller that stored its flag had won.
LEMMA ReadIsCancelledKeeps ==
  ASSUME PollInv, NEW t \in Watched, ReadIsCancelled(t)
  PROVE  After(t)
<1> USE DEF PollInv
<1>1. /\ t \in Tasks /\ UNCHANGED <<panic_rx_ready, result_rx_ready, vars>> /\ ph[t] = "none"
  BY WatchedAreTasks DEF ReadIsCancelled
<1>2. PollTypeOK /\ panic_rx_ready' \in [Watched -> BOOLEAN] /\ result_rx_ready' \in [Watched -> BOOLEAN]
  BY <1>1 DEF PollTypeOK
<1>3. CASE is_cancelled[t]
  <2>1. Resolve(t, "TaskCancelled") /\ "TaskCancelled" \in Outcomes
    BY <1>3 DEF ReadIsCancelled, Outcomes, Kinds
  <2>2. task[t] = "cancelled"
    BY <1>1, <1>3 DEF ShownInv
  <2>3. Look(t)' /\ Said(t)'
    BY <1>1, <2>1, <2>2, ResolveDoes DEF Look, Said, NoPanicToCome, NoResultToCome, vars
  <2> QED
    BY <1>1, <1>2, <2>1, <2>3, ResolveDoes DEF After
<1>4. CASE ~is_cancelled[t]
  <2>1. Goto(t, "flag") /\ ph'[t] = "flag"
    BY <1>2, <1>4 DEF ReadIsCancelled, Goto, PollTypeOK
  <2>2. out'[t] = "none" /\ PollTypeOK'
    BY <1>1, <1>2, <2>1, GotoDoes
  <2>3. Look(t)'
    BY <1>1, <2>1 DEF Look, LookInv, vars, NoPanicToCome, NoResultToCome, HasCanceller
  <2> QED
    BY <1>1, <1>2, <2>1, <2>2, <2>3, GotoDoes, SilentSaid DEF After
<1> QED
  BY <1>3, <1>4

\* The reason is taken from the flags as they are now.
LEMMA ReadFlagKeeps ==
  ASSUME PollInv, NEW t \in Watched, ReadFlag(t)
  PROVE  After(t)
<1> USE DEF PollInv
<1>1. /\ t \in Tasks /\ UNCHANGED <<panic_rx_ready, result_rx_ready, vars>> /\ ph[t] = "flag"
  BY WatchedAreTasks DEF ReadFlag
<1>2. PollTypeOK /\ panic_rx_ready' \in [Watched -> BOOLEAN] /\ result_rx_ready' \in [Watched -> BOOLEAN]
  BY <1>1 DEF PollTypeOK
<1>3. NoPanicToCome(t) /\ NoResultToCome(t)
  BY <1>1 DEF LookInv, Look
<1>4. PICK outcome \in {"WorkerAborted", "WorkerCancelled", "PreviousTaskPanic", "RuntimeShutdown"} :
        /\ Resolve(t, outcome)
        /\ outcome = "WorkerAborted" => flags = FLAG_ABORT_STARTED
        /\ outcome = "WorkerCancelled" => flags = FLAG_CANCEL_STARTED
        /\ outcome = "PreviousTaskPanic" => flags = FLAG_TASK_PANICKED
  BY DEF ReadFlag
<1>5. outcome \in Outcomes
  BY DEF Outcomes, Kinds
<1>6. Look(t)'
  BY <1>4, <1>5, ResolveDoes DEF Look
<1>7. ASSUME flags = FLAG_TASK_PANICKED
      PROVE  /\ task[t] \notin {"unwound", "broken"}
             /\ \E p \in Tasks \ {t} :
                  task[p] \in {"unwound", "panicked"} /\ MsgOf("PreviousTaskPanic", t) = Text(p)
  <2>1. task_panic_msg \in Tasks /\ task[task_panic_msg] \in {"unwound", "panicked"}
    BY <1>7 DEF IInv, TypeOK, HandsInv, PanicInv
  <2>2. task[t] \notin {"unwound", "broken"}
    BY <1>1, <1>3, <1>7 DEF IInv, TypeOK, CleanInv, PanicInv, NoPanicToCome, ShownInv
  <2>3. task_panic_msg # t
    BY <1>3, <2>1, <2>2 DEF NoResultToCome, NoPanicToCome
  <2>4. MsgOf("PreviousTaskPanic", t) = Text(task_panic_msg)
    BY <2>1 DEF MsgOf, PanicMsg
  <2> QED
    BY <2>1, <2>2, <2>3, <2>4
<1>8. flags = FLAG_CANCEL_STARTED => op \in Cancels /\ (task[t] \in {"unwound", "broken"} => ~up)
  BY <1>1, <1>3 DEF IInv, TypeOK, FlagInv, CleanInv, BlameInv, HandsInv, NoPanicToCome
<1>9. flags = FLAG_ABORT_STARTED => op \in Aborts
  BY DEF IInv, FlagInv
<1>10. Said(t)'
  BY <1>1, <1>3, <1>4, <1>5, <1>7, <1>8, <1>9, ResolveDoes DEF Said, NoPanicToCome, NoResultToCome, vars
<1> QED
  BY <1>1, <1>2, <1>4, <1>5, <1>6, <1>10, ResolveDoes DEF After

\* The poll looks whether the worker was cancelled.
LEMMA ReadFlagPendingKeeps ==
  ASSUME PollInv, NEW t \in Watched, ReadFlagPending(t)
  PROVE  After(t)
<1> USE DEF PollInv
<1>1. /\ t \in Tasks /\ UNCHANGED <<panic_rx_ready, result_rx_ready, vars>> /\ ph[t] = "pending"
  BY WatchedAreTasks DEF ReadFlagPending
<1>2. PollTypeOK /\ panic_rx_ready' \in [Watched -> BOOLEAN] /\ result_rx_ready' \in [Watched -> BOOLEAN]
  BY <1>1 DEF PollTypeOK
<1>3. /\ Goto(t, ph'[t]) /\ ph'[t] \in {"steal", "idle"}
      /\ ph'[t] = "steal" => flags = FLAG_CANCEL_STARTED
  BY <1>2 DEF ReadFlagPending, Goto, PollTypeOK
<1>4. out'[t] = "none" /\ PollTypeOK'
  BY <1>1, <1>2, <1>3, GotoDoes
<1>5. flags = FLAG_CANCEL_STARTED => op \in Cancels
  BY DEF IInv, FlagInv
<1>6. Look(t)'
  BY <1>1, <1>3, <1>5 DEF Look, LookInv, vars, NoPanicToCome, NoResultToCome, HasCanceller
<1> QED
  BY <1>1, <1>2, <1>3, <1>4, <1>6, GotoDoes, SilentSaid DEF After

\* The poll keeps the payload alive.
LEMMA StealUpgradeAfter ==
  ASSUME PollInv, NEW t \in Watched, StealUpgrade(t)
  PROVE  After(t)
<1> USE DEF PollInv
<1>1. /\ t \in Tasks /\ UNCHANGED <<panic_rx_ready, result_rx_ready, task, cancelAside>> /\ ph[t] = "steal"
  BY WatchedAreTasks DEF StealUpgrade
<1>2. PollTypeOK /\ panic_rx_ready' \in [Watched -> BOOLEAN] /\ result_rx_ready' \in [Watched -> BOOLEAN]
  BY <1>1 DEF PollTypeOK
<1>3. Goto(t, ph'[t]) /\ ph'[t] \in {"holding", "idle"}
  BY <1>2 DEF StealUpgrade, Goto, PollTypeOK
<1>4. out'[t] = "none" /\ PollTypeOK'
  BY <1>1, <1>2, <1>3, GotoDoes
<1>5. Look(t)'
  BY <1>1, <1>3 DEF Look, LookInv, NoPanicToCome, NoResultToCome, HasCanceller
<1> QED
  BY <1>1, <1>2, <1>3, <1>4, <1>5, GotoDoes, SilentSaid DEF After

\* The poll takes the payload, if it is still to be had.
LEMMA StealTakeAfter ==
  ASSUME PollInv, NEW t \in Watched, StealTake(t)
  PROVE  After(t)
<1> USE DEF PollInv
<1>1. /\ t \in Tasks /\ UNCHANGED <<panic_rx_ready, result_rx_ready, cancelAside>> /\ ph[t] = "holding"
  BY WatchedAreTasks DEF StealTake
<1>2. PollTypeOK /\ panic_rx_ready' \in [Watched -> BOOLEAN] /\ result_rx_ready' \in [Watched -> BOOLEAN]
  BY <1>1 DEF PollTypeOK
<1>3. CASE Takeable(t)
  <2>1. Resolve(t, "WorkerCancelled") /\ task' = [task EXCEPT ![t] = "cancelled"]
    BY <1>3, Zenon DEF StealTake
  <2>2. "WorkerCancelled" \in Outcomes /\ op \in Cancels
    BY <1>1 DEF Outcomes, Kinds, LookInv, Look
  <2>3. task'[t] = "cancelled"
    BY <1>1, <2>1 DEF IInv, TypeOK
  <2>4. Look(t)' /\ Said(t)'
    BY <1>1, <2>1, <2>2, <2>3, ResolveDoes DEF Look, Said, NoPanicToCome, NoResultToCome
  <2> QED
    BY <1>1, <1>2, <2>1, <2>2, <2>4, ResolveDoes DEF After
<1>4. CASE ~Takeable(t)
  <2>1. Goto(t, "idle") /\ ph'[t] = "idle" /\ task' = task
    BY <1>2, <1>4 DEF StealTake, Goto, PollTypeOK
  <2>2. out'[t] = "none" /\ PollTypeOK'
    BY <1>1, <1>2, <2>1, GotoDoes
  <2>3. Look(t)'
    BY <1>1, <2>1 DEF Look, LookInv, NoPanicToCome, NoResultToCome, HasCanceller
  <2> QED
    BY <1>1, <1>2, <2>1, <2>2, <2>3, GotoDoes, SilentSaid DEF After
<1> QED
  BY <1>3, <1>4

\* A poll, by whichever of its steps.
LEMMA PollKeeps ==
  ASSUME PollInv, NEW t \in Watched, PollRuns(t) \/ PollAgain(t)
  PROVE  After(t)
<1>1. CASE Unspawned(t)
  BY <1>1, UnspawnedKeeps
<1>2. CASE StartPoll(t)
  <2>1. PollPanicRx(t) /\ HasCanceller(t) /\ ph[t] # "done"
    BY <1>2 DEF StartPoll
  <2> QED
    BY <2>1, PollPanicRxKeeps
<1>3. CASE PollAgain(t)
  <2>1. PollPanicRx(t) /\ HasCanceller(t) /\ ph[t] # "done"
    BY <1>3 DEF PollAgain, PollInv, LookInv, Look
  <2> QED
    BY <2>1, PollPanicRxKeeps
<1>4. CASE PollResultRx(t)
  BY <1>4, PollResultRxKeeps
<1>5. CASE ReadIsCancelled(t)
  BY <1>5, ReadIsCancelledKeeps
<1>6. CASE ReadFlag(t)
  BY <1>6, ReadFlagKeeps
<1>7. CASE ReadFlagPending(t)
  BY <1>7, ReadFlagPendingKeeps
<1>8. CASE StealUpgrade(t)
  BY <1>8, StealUpgradeAfter
<1>9. CASE StealTake(t)
  BY <1>9, StealTakeAfter
<1> QED
  BY <1>1, <1>2, <1>3, <1>4, <1>5, <1>6, <1>7, <1>8, <1>9 DEF PollRuns

\* A poll changes at most the task itself and who refers to its OnceTake.
LEMMA PollsSpare ==
  ASSUME NEW t \in Watched, PollRuns(t) \/ PollAgain(t)
  PROVE  UNCHANGED cancelAside
<1>1. CASE Unspawned(t) \/ ReadIsCancelled(t) \/ ReadFlag(t) \/ ReadFlagPending(t)
  BY <1>1 DEF Unspawned, UnspawnedReason, ReadIsCancelled, ReadFlag, ReadFlagPending, vars
<1>2. CASE StartPoll(t) \/ PollAgain(t) \/ PollResultRx(t)
  BY <1>2 DEF StartPoll, PollAgain, PollPanicRx, PollResultRx, vars
<1>3. CASE StealUpgrade(t) \/ StealTake(t)
  BY <1>3 DEF StealUpgrade, StealTake
<1> QED
  BY <1>1, <1>2, <1>3 DEF PollRuns

\* No task was spawned, and no handle was polled.
LEMMA InitPollInv == PollInit => PollInv
<1> SUFFICES ASSUME PollInit PROVE PollInv
  OBVIOUS
<1>1. IInv /\ LineInv
  BY InitInv, InitLine DEF PollInit
<1>2. ShownInv
  BY DEF PollInit, Init, InitStatus, ShownInv
<1>3. PollTypeOK /\ LookInv /\ SaidInv
  BY DEF PollInit, PollTypeOK, LookInv, Look, SaidInv, Said, IsCancelled
<1> QED
  BY <1>1, <1>2, <1>3 DEF PollInv

\* A step of the system or of a poll.
LEMMA StepPollInv == PollInv /\ [PollNext]_allVars => PollInv'
<1> SUFFICES ASSUME PollInv, [PollNext]_allVars
             PROVE  PollInv'
  OBVIOUS
<1>1. IInv' /\ LineInv' /\ ShownInv'
  BY StepOfSystem DEF PollInv
<1>2. CASE UNCHANGED pollVars
  <2>1. PollTypeOK'
    BY <1>2 DEF PollInv, PollTypeOK, pollVars
  <2>2. LookInv' /\ SaidInv'
    BY <1>2, BystanderKeeps DEF PollInv, LookInv, SaidInv, pollVars
  <2> QED
    BY <1>1, <2>1, <2>2 DEF PollInv
<1>3. ASSUME NEW t \in Watched, PollRuns(t) \/ PollAgain(t)
      PROVE  PollInv'
  <2>1. After(t)
    BY <1>3, PollKeeps
  <2>2. ASSUME NEW u \in Watched, u # t
        PROVE  Look(u)' /\ Said(u)'
    BY <2>1, <2>2, BystanderKeeps DEF After, PollInv, LookInv, SaidInv
  <2> QED
    BY <1>1, <2>1, <2>2 DEF After, PollInv, LookInv, SaidInv
<1> QED
  BY <1>2, <1>3 DEF PollNext, allVars

(***************************************************************************)
(* PollInv holds in every execution, whatever is watched, and so do its    *)
(* parts: what a poll has seen is true, and what a handle said stays true. *)
(***************************************************************************)
THEOREM PollInvHolds == PollSpec => []PollInv
<1> QED
  BY InitPollInv, StepPollInv, PTL DEF PollSpec

(***************************************************************************)
(* A poll and its handle keep their types, and a handle has answered if and*)
(* only if its polls are over.                                             *)
(***************************************************************************)
THEOREM PollTypeHolds == PollSpec => []PollTypeOK
<1>1. PollInv => PollTypeOK
  BY DEF PollInv
<1> QED
  BY <1>1, PollInvHolds, PTL

(***************************************************************************)
(* A task that something other than itself is blamed for never begins.     *)
(***************************************************************************)
THEOREM BlamelessNeverBeginsHolds == PollSpec => []BlamelessNeverBegins
<1>1. PollInv => BlamelessNeverBegins
  <2> SUFFICES ASSUME PollInv, NEW t \in Watched,
                      out[t] \in {"PreviousTaskPanic", "TaskCancelled", "TaskSpawnerUnavailable"}
               PROVE  t \notin Begun
    BY DEF BlamelessNeverBegins
  <2>1. t \in Begun => task[t] \in {"running", "done", "unwound", "panicked", "broken"}
    BY DEF PollInv, LineInv, BegunInv, Begun, Range
  <2> QED
    BY <2>1 DEF PollInv, SaidInv, Said, IsCancelled, Refused, NoPanicToCome, NoResultToCome
<1> QED
  BY <1>1, PollInvHolds, PTL

(***************************************************************************)
(* When an error says that the task was cancelled, the task is over, and   *)
(* did not end in a result or in a panic its handle could have given.      *)
(***************************************************************************)
THEOREM CancelledMeansOverHolds == PollSpec => []CancelledMeansOver
<1>1. PollInv => CancelledMeansOver
  BY DEF PollInv, SaidInv, Said, IsCancelled, Refused, NoPanicToCome, NoResultToCome,
         CancelledMeansOver, Life
<1> QED
  BY <1>1, PollInvHolds, PTL

\* Two tasks never panicked, as long as the second shows it.
LEMMA OnePanicShows ==
  ASSUME PollInv, NEW p \in Tasks, NEW t \in Tasks, flags = FLAG_TASK_PANICKED,
         task[p] \in {"unwound", "panicked"}, task[t] \in {"unwound", "panicked"}
  PROVE  p = t
BY DEF PollInv, IInv, TypeOK, HandsInv, CleanInv, PanicInv, ShownInv

(***************************************************************************)
(* The handle of the task that another handle blames says TaskPanic.       *)
(***************************************************************************)
THEOREM BlamedHandleTellsHolds == PollSpec => []BlamedHandleTells
<1>1. PollInv => BlamedHandleTells
  <2> SUFFICES ASSUME PollInv, NEW t \in Watched, NEW p \in Watched,
                      out[t] = "PreviousTaskPanic", task[p] \in {"unwound", "panicked"},
                      out[p] # "none"
               PROVE  IsPanic(out[p])
    BY DEF BlamedHandleTells
  <2>1. flags = FLAG_TASK_PANICKED /\ t \in Tasks /\ p \in Tasks
    BY WatchedAreTasks DEF PollInv, SaidInv, Said
  <2>2. IsCancelled(out[p]) => task[p] = "unwound" /\ cur # p
    BY DEF PollInv, SaidInv, Said, Refused, NoPanicToCome, NoResultToCome
  <2>3. task[p] = "unwound" => cur = p
    BY <2>1 DEF PollInv, IInv, TypeOK, HandsInv, CleanInv, PanicInv, ShownInv
  <2>4. out[p] # "Ok"
    BY DEF PollInv, SaidInv, Said
  <2>5. out[p] \in Outcomes
    BY DEF PollInv, PollTypeOK
  <2> QED
    BY <2>2, <2>3, <2>4, <2>5 DEF Outcomes, Kinds, IsCancelled, IsPanic
<1> QED
  BY <1>1, PollInvHolds, PTL

\* A handle answers once, in a step of its own, and with what the flags show then.
LEMMA AnswerStep ==
  ASSUME PollInv, [PollNext]_allVars, NEW t \in Watched, out'[t] # out[t]
  PROVE  /\ out[t] = "none" /\ (PollRuns(t) \/ PollAgain(t))
         /\ out'[t] = "WorkerAborted" => flags = FLAG_ABORT_STARTED
         /\ out'[t] = "RuntimeShutdown" => task[t] = "refused_shutdown" \/ flags = FLAG_OTHER
         /\ task'[t] = task[t] \/ (Takeable(t) /\ task'[t] = "cancelled")
<1>1. ~UNCHANGED pollVars
  BY DEF pollVars
<1>2. PICK u \in Watched : PollRuns(u) \/ PollAgain(u)
  BY <1>1 DEF PollNext, allVars
<1>3. u = t
  BY <1>2, PollKeeps DEF After
<1>4. ph[t] # "done" /\ out[t] = "none"
  BY <1>2, <1>3 DEF PollRuns, PollAgain, Unspawned, UnspawnedReason, StartPoll, PollResultRx,
     ReadIsCancelled,
     ReadFlag, ReadFlagPending, StealUpgrade, StealTake, PollInv, PollTypeOK
<1>5. CASE Unspawned(t)
  <2>1. UNCHANGED vars
    BY <1>5 DEF Unspawned, UnspawnedReason
  <2>2. PICK outcome \in {"PreviousTaskPanic", "RuntimeShutdown", "TaskSpawnerUnavailable"} :
          Resolve(t, outcome) /\ (outcome = "RuntimeShutdown" => task[t] = "refused_shutdown")
    BY <1>5 DEF Unspawned, UnspawnedReason
  <2>3. out'[t] = outcome
    BY <2>2 DEF Resolve, PollInv, PollTypeOK
  <2> QED
    BY <1>2, <1>3, <1>4, <2>1, <2>2, <2>3 DEF vars
<1>6. CASE PollPanicRx(t) \/ PollResultRx(t) \/ ReadIsCancelled(t) \/ ReadFlagPending(t)
  <2>1. UNCHANGED vars
    BY <1>6 DEF PollPanicRx, PollResultRx, ReadIsCancelled, ReadFlagPending
  <2>2. out'[t] \in {"none", "TaskPanic", "Ok", "TaskCancelled"}
    BY <1>4, <1>6 DEF PollPanicRx, PollResultRx, ReadIsCancelled, ReadFlagPending, Resolve, Goto,
       PollInv, PollTypeOK
  <2> QED
    BY <1>2, <1>3, <1>4, <2>1, <2>2 DEF vars
<1>7. CASE ReadFlag(t)
  <2>1. UNCHANGED vars
    BY <1>7 DEF ReadFlag
  <2>2. PICK outcome \in {"WorkerAborted", "WorkerCancelled", "PreviousTaskPanic", "RuntimeShutdown"} :
        /\ Resolve(t, outcome)
        /\ outcome = "WorkerAborted" => flags = FLAG_ABORT_STARTED
        /\ outcome = "RuntimeShutdown" => flags = FLAG_OTHER
    BY <1>7 DEF ReadFlag, PollInv, IInv, TypeOK
  <2>3. out'[t] = outcome
    BY <2>2 DEF Resolve, PollInv, PollTypeOK
  <2> QED
    BY <1>2, <1>3, <1>4, <2>1, <2>2, <2>3 DEF vars
<1>8. CASE StealUpgrade(t)
  BY <1>4, <1>8 DEF StealUpgrade, Goto
<1>9. CASE StealTake(t)
  <2>1. Takeable(t)
    BY <1>9 DEF StealTake, Goto
  <2>2. task' = [task EXCEPT ![t] = "cancelled"] /\ Resolve(t, "WorkerCancelled")
    BY <1>9, <2>1, Zenon DEF StealTake
  <2>3. task'[t] = "cancelled" /\ out'[t] = "WorkerCancelled"
    BY <2>2, WatchedAreTasks DEF Resolve, PollInv, PollTypeOK, IInv, TypeOK
  <2> QED
    BY <1>2, <1>3, <1>4, <2>1, <2>3
<1> QED
  BY <1>2, <1>3, <1>5, <1>6, <1>7, <1>8, <1>9 DEF PollRuns, PollAgain, StartPoll

\* The one that panicked has its handle told; no other is.
LEMMA StepPanicIsKnown ==
  ASSUME PollInv, PollInv', [PollNext]_allVars, NEW p \in Watched, NEW t \in Watched,
         IsPanic(out[p]), out[t] = "none"
  PROVE  ~IsPanic(out'[t]) /\ out'[t] \notin {"WorkerAborted", "RuntimeShutdown"}
<1>1. p \in Tasks /\ t \in Tasks /\ task[p] = "panicked" /\ p # t
  BY WatchedAreTasks DEF IsPanic, PollInv, SaidInv, Said
<1>2. flags = FLAG_TASK_PANICKED
  BY <1>1 DEF PollInv, IInv, PanicInv
<1>3. out'[t] \notin {"WorkerAborted", "RuntimeShutdown"}
  BY <1>1, <1>2, AnswerStep DEF PollInv, ShownInv
<1>4. task'[p] = "panicked" /\ flags' = FLAG_TASK_PANICKED
  BY <1>1, <1>2, StepOfSystem DEF PollInv, Ages
<1>5. out'[t] = "TaskPanic" => task'[t] = "panicked"
  BY DEF PollInv, SaidInv, Said
<1>6. out'[t] # "TaskPanic"
  <2> SUFFICES ASSUME out'[t] = "TaskPanic" PROVE FALSE
    OBVIOUS
  <2> QED
    BY <1>1, <1>4, <1>5 DEF PollInv, IInv, HandsInv, CleanInv, PanicInv, ShownInv
<1> QED
  BY <1>3, <1>6 DEF IsPanic

(***************************************************************************)
(* Once a handle gave its user a panic, no other gives one, or blames an   *)
(* abort or a shutdown for what the panic did.                             *)
(***************************************************************************)
THEOREM PanicIsKnownHolds == PollSpec => PanicIsKnown
<1> DEFINE Known == \A p, t \in Watched : IsPanic(out[p]) /\ out[t] = "none" =>
                      ~IsPanic(out'[t]) /\ out'[t] \notin {"WorkerAborted", "RuntimeShutdown"}
<1>1. PollInv /\ PollInv' /\ [PollNext]_allVars => [Known]_allVars
  BY StepPanicIsKnown
<1> QED
  BY <1>1, PollInvHolds, PTL DEF PollSpec, PanicIsKnown

\* Every step of a poll, for a task whose canceller answered true.
LEMMA StepCancelIsReported ==
  ASSUME PollInv, [PollNext]_allVars, NEW t \in Watched, cx[t] = "yes", ph[t] \notin {"flag", "done"}
  PROVE  ph'[t] # "flag" /\ out'[t] \in {"none", "TaskCancelled"}
<1>1. t \in Tasks /\ is_cancelled[t] /\ task[t] = "cancelled" /\ out[t] = "none"
  BY WatchedAreTasks DEF PollInv, ShownInv, PollTypeOK
<1>2. CASE UNCHANGED pollVars
  BY <1>1, <1>2 DEF pollVars
<1>3. ASSUME NEW u \in Watched, u # t, PollRuns(u) \/ PollAgain(u)
      PROVE  ph'[t] # "flag" /\ out'[t] = "none"
  BY <1>1, <1>3, PollKeeps DEF After
<1>4. CASE PollPanicRx(t)
  BY <1>1, <1>4 DEF PollPanicRx, PanicTx, Goto, PollInv, PollTypeOK
<1>5. CASE PollResultRx(t)
  BY <1>1, <1>5 DEF PollResultRx, ResultTx, Goto, PollInv, PollTypeOK
<1>6. CASE ReadIsCancelled(t)
  BY <1>1, <1>6 DEF ReadIsCancelled, Resolve, PollInv, PollTypeOK
<1>7. CASE Unspawned(t) \/ ReadFlag(t)
  BY <1>1, <1>7 DEF Unspawned, UnspawnedReason, ReadFlag
<1>8. CASE ReadFlagPending(t) \/ StealUpgrade(t) \/ StealTake(t)
  BY <1>1, <1>8 DEF ReadFlagPending, StealUpgrade, StealTake, Takeable, Goto, PollInv, PollTypeOK
<1> QED
  BY <1>2, <1>3, <1>4, <1>5, <1>6, <1>7, <1>8 DEF PollNext, PollRuns, PollAgain, StartPoll, allVars

(***************************************************************************)
(* A cancel() that returned true is what the handle reports.               *)
(***************************************************************************)
THEOREM CancelIsReportedHolds == PollSpec => CancelIsReported
<1> DEFINE Reported == \A t \in Watched : cx[t] = "yes" /\ ph[t] \notin {"flag", "done"} =>
                         ph'[t] # "flag" /\ out'[t] \in {"none", "TaskCancelled"}
<1>1. PollInv /\ [PollNext]_allVars => [Reported]_allVars
  BY StepCancelIsReported
<1> QED
  BY <1>1, PollInvHolds, PTL DEF PollSpec, CancelIsReported

\* How a task's life goes on, by what a step may do to it.
LEMMA LifeGoesOn ==
  ASSUME PollInv, PollInv', [PollNext]_allVars, NEW t \in Watched
  PROVE  /\ Life(t)' = Life(t) \/ (Life(t) = "waiting" /\ Life(t)' \in {"running", "gone"})
              \/ (Life(t) = "running" /\ Life(t)' \in {"returned", "broken"})
         /\ out[t] # "none" => Life(t)' = Life(t)
<1>1. t \in Tasks /\ Ages(t)
  BY WatchedAreTasks, StepOfSystem DEF PollInv
<1>2. task[t] \in TaskStatus \ {"unreachable"} /\ task'[t] \in TaskStatus \ {"unreachable"}
  BY <1>1 DEF PollInv, IInv, TypeOK, BlameInv
<1>3. Life(t)' = Life(t) \/ (Life(t) = "waiting" /\ Life(t)' \in {"running", "gone"})
              \/ (Life(t) = "running" /\ Life(t)' \in {"returned", "broken"})
  BY <1>1, <1>2 DEF Life, Ages
<1>4. out[t] # "none" => Life(t) \notin {"waiting", "running"}
  BY DEF PollInv, PollTypeOK, Outcomes, Kinds, SaidInv, Said, IsCancelled, Refused,
         NoPanicToCome, NoResultToCome, Life
<1> QED
  BY <1>3, <1>4

\* An answer fits.
LEMMA AnswerFits ==
  ASSUME PollInv', NEW t \in Watched, out'[t] # "none"
  PROVE  HandlePromise!Fits(out'[t], Life(t)')
<1>1. out'[t] \in Outcomes /\ Said(t)'
  BY DEF PollInv, PollTypeOK, SaidInv
<1> QED
  BY <1>1 DEF Outcomes, Kinds, Said, IsCancelled, Refused, NoPanicToCome, NoResultToCome, Life,
              HandlePromise!Fits

\* Every step maps to a step of the promise, or to none.
LEMMA StepPromised ==
  ASSUME PollInv, PollInv', [PollNext]_allVars
  PROVE  HandlePromise!TaskPromiseNext
<1> DEFINE life == [t \in Watched |-> Life(t)]
<1>1. out \in [Watched -> Outcomes \cup {"none"}] /\ out' \in [Watched -> Outcomes \cup {"none"}]
  BY DEF PollInv, PollTypeOK
<1>2. life' = [t \in Watched |-> life'[t]] /\ out' = [t \in Watched |-> out'[t]]
  BY <1>1
<1>3. ASSUME NEW t \in Watched
      PROVE  \/ (HandlePromise!Moves(t) \/ life'[t] = life[t]) /\ out'[t] = out[t]
             \/ HandlePromise!Answers(t)
  <2>1. life[t] = Life(t) /\ life'[t] = Life(t)'
    OBVIOUS
  <2>2. CASE out'[t] = out[t]
    BY <2>1, <2>2, LifeGoesOn DEF HandlePromise!Moves
  <2>3. CASE out'[t] # out[t]
    <3>1. out[t] = "none" /\ out'[t] # "none"
      BY <2>3, AnswerStep
    <3>2. HandlePromise!Fits(out'[t], Life(t)')
      BY <3>1, AnswerFits
    <3>3. Life(t)' = Life(t) \/ (Life(t) = "waiting" /\ Life(t)' = "gone")
      BY <2>3, AnswerStep DEF Life, Takeable
    <3> QED
      BY <2>1, <3>1, <3>2, <3>3 DEF HandlePromise!Answers
  <2> QED
    BY <2>2, <2>3
<1> QED
  BY <1>2, <1>3 DEF HandlePromise!TaskPromiseNext

(***************************************************************************)
(* The handles implement TaskPromise: one answer, after the end of the     *)
(* task and fitting it, and nothing happens to the task from then on.      *)
(***************************************************************************)
THEOREM ImplementsTaskPromiseHolds == PollSpec => ImplementsTaskPromise
<1> DEFINE TInit == HandlePromise!TaskPromiseInit
           TNext == HandlePromise!TaskPromiseNext
           tvars == HandlePromise!promiseVars
<1>1. PollInit => TInit
  BY WatchedAreTasks DEF PollInit, Init, HandlePromise!TaskPromiseInit, Life
<1>2. PollInv /\ PollInv' /\ [PollNext]_allVars => [TNext]_tvars
  BY StepPromised
<1> HIDE DEF TInit, TNext, tvars
<1>3. PollSpec => TInit /\ [][TNext]_tvars
  BY <1>1, <1>2, PollInvHolds, PTL DEF PollSpec
<1> QED
  BY <1>3 DEF ImplementsTaskPromise, HandlePromise!TaskPromiseSpec, TInit, TNext, tvars
=============================================================================
