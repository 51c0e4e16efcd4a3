------------------------- MODULE AsyncSequentialInv -------------------------
(***************************************************************************)
(* The inductive invariant of AsyncSequential: why its safety properties   *)
(* hold.  TLC checks it on small instances, AsyncSequentialProof proves it.*)
(***************************************************************************)
EXTENDS AsyncSequential

\* What the worker has in its hands, by where it is.
HandsInv ==
  /\ wpc \in {"recv"} \cup Ends => cur = NoTask
  /\ wpc \notin {"recv"} \cup Ends => cur \in Tasks
  /\ wpc = "start" => task[cur] = "taken"
  /\ wpc = "async" => task[cur] = "running"
  /\ wpc \in {"set_msg", "set_flag", "send_panic"} => task[cur] = "unwound"
  /\ wpc = "return_err" => task[cur] = "panicked"

\* The closure on the pool is the one the worker waits for, or has no worker.
JobInv ==
  /\ wpc \notin {"blocking", "Cancelled"} => job = "none"
  /\ wpc = "blocking" =>
       /\ job # "none"
       /\ cur \in Blocking
       /\ job = "queued" <=> task[cur] = "taken"
       /\ job = "running" <=> task[cur] = "running"
       /\ job = "returned" <=> task[cur] = "done"
       /\ job = "panicked" <=> task[cur] = "unwound"
       /\ job \in {"lost", "shut"} <=> task[cur] = "dropped"

\* The state's lock names the one who is at the state.
LockInv ==
  /\ lock = "worker" <=> wpc = "async"
  /\ lock = "pool" <=> job = "running"
  /\ lock = "join" <=> hpc = "take"
  /\ ~present => lock = "free"

\* A task that is taken or running is in the worker's hands or on the pool.
PlaceInv ==
  /\ \A t \in Tasks : task[t] = "taken" =>
       (wpc = "start" /\ t = cur) \/ (job = "queued" /\ t \in Blocking)
  /\ \A t \in Tasks : task[t] = "running" =>
       (wpc = "async" /\ t = cur) \/ (job = "running" /\ t \in Blocking)
  /\ \A a, b \in Tasks :
       task[a] \in {"taken", "running"} /\ task[b] \in {"taken", "running"} => a = b

\* The owner gets to the state once, and after the worker's task is complete.
JoinInv ==
  /\ finished => ReceiverGone
  /\ hpc \in {"lock", "take", "report"} => finished
  /\ ~present => finished
  /\ hpc \notin {"report", "gone"} => present
  /\ hpc = "idle" <=> op = "none"
  /\ hpc \in {"await", "lock", "take", "report"} => op \in Joins
  /\ hres # "none" => hpc = "gone" /\ op \in Joins /\ finished
  /\ hres # "expect_failed"

\* The flags tell what the owner did; a panic overwrites them.
FlagInv ==
  /\ flags = FLAG_ABORT_STARTED => op \in Aborts
  /\ flags = FLAG_CANCEL_STARTED => op \in Cancels
  /\ aborting \/ hpc = "abort" => flags # FLAG_OTHER /\ op \in Aborts
  /\ hpc \in {"check", "try"} => op \in Aborts \cup Cancels
  /\ wpc = "Cancelled" => Stopping

\* A queued task is in the channel, or was just received from it.
ChannelInv ==
  /\ \A t \in Tasks : task[t] = "queued" =>
       (\E i \in DOMAIN queue : queue[i] = t) \/ (wpc \in {"flag", "take"} /\ t = cur)
  /\ ReceiverGone => queue = <<>>
  /\ \A i \in DOMAIN sent :
       task[sent[i]] \notin {"new", "failed", "refused_unavailable", "refused_panic",
                             "refused_shutdown", "unreachable"}
  /\ \A t \in Tasks : task[t] = "failed" => ReceiverGone /\ (Caller[t] = Handle => hpc = "idle")

\* While the worker goes on from task to task, and when it ends well, no task was
\* broken off, and none was dropped but by a cancel of the worker.  A panic that is
\* still to be reported is in the worker's hands, or was lost with a closure.
CleanInv ==
  /\ \A t \in Tasks : task[t] \in {"unwound", "panicked", "broken"} =>
       \/ wpc \in {"Err", "Cancelled"}
       \/ t = cur /\ wpc \in {"blocking", "set_msg", "set_flag", "send_panic", "return_err"}
  /\ \A t \in Tasks : task[t] = "dropped" =>
       \/ wpc \in {"Err", "Cancelled"}
       \/ wpc = "Ok" /\ flags = FLAG_CANCEL_STARTED
       \/ wpc = "blocking" /\ t = cur
  /\ \A t \in Tasks : task[t] = "kept" =>
       wpc \in {"Err", "Cancelled"} \/ (wpc = "Ok" /\ flags = FLAG_CANCEL_STARTED)
  /\ \A t \in Tasks : task[t] = "unwound" => t = cur \/ (wpc = "Cancelled" /\ t \in Blocking)
  /\ job = "queued" => \A t \in Tasks : task[t] \notin {"unwound", "panicked", "broken"}
  /\ hres = "Ok" => wpc = "Ok"

\* The flag, the message and the panic channel tell of one and the same panic.
PanicInv ==
  /\ flags = FLAG_TASK_PANICKED => wpc \in {"send_panic", "return_err", "Err"}
  /\ wpc \in {"send_panic", "return_err"} => flags = FLAG_TASK_PANICKED
  /\ wpc \in {"set_flag", "send_panic", "return_err"} => task_panic_msg = cur
  /\ wpc \notin {"set_flag", "send_panic", "return_err", "Err"} => task_panic_msg = NoTask
  /\ wpc = "Err" /\ flags = FLAG_TASK_PANICKED =>
       task_panic_msg \in Tasks /\ task[task_panic_msg] = "panicked"
  /\ \A t \in Tasks : task[t] = "panicked" =>
       flags = FLAG_TASK_PANICKED /\ wpc \in {"return_err", "Err"}
  /\ hres # "none" => (hres = "AnyTaskPanic" <=> wpc = "Err" /\ flags = FLAG_TASK_PANICKED)

\* Why the worker ended is what the flags and the runtime say.
BlameInv ==
  /\ wpc = "Err" => flags = FLAG_TASK_PANICKED \/ ~up
  /\ wpc = "Ok" => flags = FLAG_CANCEL_STARTED \/ ~ChannelOpen
  /\ wpc = "Ok" /\ (\E t \in Tasks : task[t] = "failed") => flags = FLAG_CANCEL_STARTED
  /\ job = "lost" => Stopping /\ ReceiverGone
  /\ job = "shut" => ~up
  /\ hpc = "idle" => tx
  /\ \A t \in Tasks : task[t] = "refused_panic" => wpc = "Err" /\ flags = FLAG_TASK_PANICKED
  /\ \A t \in Tasks : task[t] = "refused_shutdown" => ~up
  /\ \A t \in Tasks : task[t] # "unreachable"
  /\ hres = "RuntimeShutdown" => Stopping
  /\ hres = "WorkerAborted" => op \in Aborts

IInv ==
  /\ TypeOK /\ HandsInv /\ JobInv /\ LockInv /\ PlaceInv
  /\ JoinInv /\ FlagInv /\ ChannelInv /\ CleanInv /\ PanicInv /\ BlameInv

-----------------------------------------------------------------------------
(* A second layer, on top of IInv: the order of the tasks.                  *)

\* How many of the accepted tasks have left the channel.
Received == Len(sent) - Len(queue)

\* The channel is the end of `sent`, and what precedes the task in hand is settled.
\* A task that was taken, whatever became of it, has nothing open before it.
OrderInv ==
  /\ \A i, j \in DOMAIN sent : sent[i] = sent[j] => i = j
  /\ Received >= 0
  /\ \A i \in DOMAIN queue :
       queue[i] = sent[Received + i] /\ task[queue[i]] \in {"queued", "cancelled"}
  /\ cur # NoTask => Received >= 1 /\ sent[Received] = cur
  /\ wpc \in {"flag", "take"} => task[cur] \in {"queued", "cancelled"}
  /\ ~ReceiverGone => \A i \in 1 .. Received :
       task[sent[i]] \in {"done", "cancelled"} \/ (i = Received /\ cur # NoTask)
  /\ \A j \in DOMAIN sent :
       task[sent[j]] \in {"taken", "running", "done", "unwound", "panicked", "broken"} =>
         \A i \in 1 .. j - 1 : task[sent[i]] \in {"done", "cancelled"}

\* A task that began shows it for ever, and so does one whose canceller won.
BegunInv ==
  /\ \A i \in DOMAIN data : task[data[i]] \in {"running", "done", "unwound", "panicked", "broken"}
  /\ \A i, j \in DOMAIN data : data[i] = data[j] => i = j
  /\ \A t \in Tasks : cx[t] \in {"won", "yes"} => task[t] = "cancelled"

\* What a cancel finds in the channel gets no farther than the look at the flag.
CancelInv ==
  /\ op \in Cancels /\ hpc \notin {"check", "try"} => flags # FLAG_OTHER \/ ReceiverGone
  /\ hpc \in {"idle", "check", "try", "abort", "close", "drop"} => leftover = {}
  /\ op \in Cancels => \A t \in leftover :
       /\ task[t] \in {"queued", "kept", "cancelled", "dropped"}
       /\ \/ ReceiverGone
          \/ wpc = "flag" /\ cur = t
          \/ \E i \in DOMAIN queue : queue[i] = t

LineInv == OrderInv /\ BegunInv /\ CancelInv

-----------------------------------------------------------------------------
(* A third, on top of both: what a user can tell from what has happened.    *)

\* What was accepted, what began and what was cancelled shows in the history, and
\* not only the other way round (ChannelInv, BegunInv).  A panic that ended the
\* worker is the only one, and no send fails for a shutdown in its sight.
ShownInv ==
  /\ \A t \in Tasks : task[t] \notin {"new", "failed", "refused_unavailable", "refused_panic",
                                      "refused_shutdown", "unreachable"} => HasCanceller(t)
  /\ \A t \in Tasks : task[t] \in {"running", "done", "unwound", "panicked", "broken"} => t \in Begun
  /\ \A t \in Tasks : is_cancelled[t] => task[t] = "cancelled"
  /\ \A t \in Tasks : cx[t] = "yes" => is_cancelled[t]
  /\ \A t \in Tasks : task[t] = "refused_shutdown" => ReceiverGone /\ flags # FLAG_TASK_PANICKED
  /\ flags = FLAG_TASK_PANICKED /\ wpc = "Err" =>
       \A t \in Tasks : task[t] \in {"unwound", "panicked", "broken"} =>
         t = task_panic_msg /\ task[t] = "panicked"

\* A fourth, next to the third: what is waited for is there, and the owner who gives the
\* handle up keeps no sender; abort and cancel leave no spawner with one, either.
WaitInv ==
  /\ \A t \in Tasks : task[t] = "kept" => Upgraded(t)
  /\ job = "queued" => \E t \in Blocking : task[t] = "taken"
  /\ job = "running" => \E t \in Blocking : task[t] = "running"
  /\ tx <=> hpc \in {"idle", "check", "try", "abort", "close", "drop"}
  /\ op \in Aborts \cup Cancels /\ hpc \notin {"check", "try", "abort", "close"} =>
       \A s \in Spawners : spawner[s] # "open"

\* The panic sender is gone, and was not used.  Of a task that was taken it is in the
\* worker's hands, even while its closure is on the pool.
NoPanicToCome(t) ==
  \/ task[t] = "cancelled"
  \/ task[t] \in {"taken", "running", "done", "unwound", "dropped", "broken"} /\ cur # t

\* The result sender is gone, and was not used.
NoResultToCome(t) == task[t] \in {"unwound", "panicked", "cancelled", "dropped", "broken"}

\* The state is gone once a join reports.
TakenInv == hpc = "report" \/ hres # "none" => ~present
=============================================================================
