# async-sequential, specified and verified

`async-sequential` is a Rust crate in which a *worker* runs asynchronous and
blocking tasks one after the other on a state `S`, and hands the state back at
the end. This directory holds TLA+ specifications of the whole of its
concurrent core, TLC configurations that model-check them, and proofs of
their safety properties and refinements for any number of tasks and spawners.

Paths such as `worker.rs` are relative to `src/src/` (`worker.rs`, `task.rs`,
`once_take.rs`, `catch_unwind.rs` are in `internal/`).

## The system

| part | state | operations | talks to |
|---|---|---|---|
| `OnceTake` (`once_take.rs`) | `taken`, `value` | `new`, `empty`, `take` | holds a task's payload; the worker and the cancellers race for it |
| `WorkerStatus` (`worker.rs` 365-435) | one atomic byte of flags, a `OnceLock` with a panic message | `flag`, `try_set_abort_started`, `try_set_cancel_started`, `set_task_panicked` | shared by everyone |
| worker loop (`worker.rs` 25-113) | the receiver, the task in hand, the state's mutex | receive, check the flag, take, run, report a panic, end | one Tokio task; blocking tasks go to Tokio's pool |
| `WorkerHandle` (`worker.rs` 115-295, `worker_handle.rs`) | a sender, the ctx shared with spawners, the worker's `JoinHandle`, the mutex | `spawn`, `spawn_blocking`, `spawner`, `close_spawners`, `has_panicked`, `abort`, `cancel`, `join`, `abort_and_join`, `cancel_and_join`, drop | channel, flags, `JoinHandle`, mutex |
| `TaskSpawner` (`worker.rs` 297-363, `task_spawner.rs`) | the shared ctx | `spawn`, `spawn_blocking`, `is_unavailable`, `has_panicked`, drop | channel, flags |
| cancellers (`task.rs` 176-214, `task_canceller.rs`, `task_handle.rs` 56-173) | a weak reference to the payload, `is_cancelled` | `cancel` | flags, `OnceTake` |
| `TaskHandle` (`task_handle.rs`, `task.rs` 117-174) | two oneshot receivers and which of them are ready | `poll` | channels, `is_cancelled`, flags, `OnceTake` |
| errors (`task_error.rs`, `poison_error.rs`), `panic_payload.rs` | none | kinds, text of a panic, formatting | made by `poll` and the joins |

What is hard: the loop, the pool, the handle, every spawner, canceller and
polling executor run on different threads and share five things (the channel,
the flag byte, the message, the mutex and the payloads), none of them under a
common lock. An abort or a shutdown of the runtime destroys the worker's
future at an await, but detaches a blocking task, which goes on with the state
while a join asks for it. Decisions are taken on flags and on
`JoinHandle::is_finished` that are stale a moment later. `PROJECT.json` lists
each such place under "hazards", with the properties that watch it.

What makes each part correct:

* `OnceTake`: one caller gets the value, and no two are in the unsafe block.
* the loop: tasks run one at a time, in the order of the channel; nothing
  runs after a panic, a broken-off task or a cancel; it goes in no circles and
  ends when it should.
* the handle: a state that is returned as `Ok` is clean; a panic is reported;
  the reasons that are given are true; the `unreachable!()` and the `expect()`
  are not reached; joins return, and none of those who wait for each other wait in
  vain.
* the cancellers: a task that was cancelled never begins, and its handle says so.
* `TaskHandle`: it resolves, once, and to what happened; several handles agree.
* the queries: what `has_panicked` and `is_unavailable` answer is not taken back.

## The modules

| module | what it is |
|---|---|
| `AtomicOption` | abstract: a slot with a one-step `take` |
| `OnceTake` | `take` as it is, a swap and an unprotected access |
| `WorkerStatus` | the flag byte and the panic message; one operator per atomic access |
| `WorkerState` | every shared variable, `TypeOK`, `Init`; what is destroyed with the worker's future |
| `WorkerLoop` | the async block of `spawn_worker`, the closure on the pool, and what Tokio does to both |
| `TaskSender` | `spawn` from the handle and from spawners, down to `send` |
| `TaskCanceller` | `TaskHandle::cancel` and `TaskCanceller::cancel`; one action per access to the flags, the weak reference, the payload and `is_cancelled` |
| `WorkerHandle` | close_spawners, and the six ways to give the handle up |
| `AsyncSequential` | the four parts together; fairness; properties; the refinement mapping |
| `SequentialTasks` | abstract: what the crate promises, without worker, channel, mutex or runtime |
| `TaskError` | the kinds of error, what they are made with and how they are read (no state) |
| `TaskPromise` | abstract: what a `TaskHandle` promises, without channels, flags or polls |
| `TaskHandle` | the futures of tasks, over all of the above; the refinement mapping to `TaskPromise` |
| `SpawnerQueries` | `has_panicked` and `is_unavailable`, asked before a spawn, over all of the above |
| `AsyncSequentialInv` | the inductive invariant in four layers: `IInv`, in eleven named parts, `LineInv`, in three, `ShownInv` (with `TakenInv`) and `WaitInv` |
| `TaskHandleInv` | `PollInv`, the inductive invariant of the polls, on top of the first three, and `WholeInv`, which adds the fourth, who is to blame and who is to wake whom |
| `OnceTakeProof` | theorems and proofs about `OnceTake` |
| `AsyncSequentialProof`, `AsyncSequentialOrder`, `AsyncSequentialPromise`, `AsyncSequentialProgress` | about `AsyncSequential`: one module for each layer of its invariant, the refinement in the third |
| `TaskHandleProof` | about `TaskHandle` alone, its refinement included |
| `TaskHandleSystem` | about `TaskHandle` and the system under it: `WholeInv`, and what the system promises while it is polled |
| `SpawnerQueriesProof` | about `SpawnerQueries` |
| `MC...` | values of the constants for TLC |

`WorkerLoop`, `TaskSender`, `TaskCanceller` and `WorkerHandle` extend
`WorkerState`, so they act on the same variables; `AsyncSequential` takes the
disjunction of their next-state relations, `TaskHandle` adds polls, and
`SpawnerQueries` adds questions.

State and code correspond as follows. A task is one closure, a member of
`Tasks`; `task[t]` says where its payload is and how it ended, from "new" to
"done", "panicked", "cancelled", "dropped" (destroyed before it began) or
"broken" (its future destroyed between two polls). A "kept" task is one whose
channel is gone while a canceller holds an upgraded reference to its payload. `queue` is the mpsc channel;
`lock` and `present` are the `Mutex<Option<S>>`; `data` is the state itself, as
the list of the tasks that have begun on it; `wpc` and `cur` are the program
counter and the local of the async block; `job` is the closure given to
`spawn_blocking`; `flags` and `task_panic_msg` are `WorkerStatus` (a message is
the task it came from); `finished` is `JoinHandle::is_finished`, `aborting`
that `JoinHandle::abort` was called, `up` that the runtime is not shut down;
`tx` and `spawner` say who holds senders; `hpc`, `op`, `hres` are the owner of
the handle, the call that consumed it and what it returned; `cx`,
`stealing` and `is_cancelled` are the cancellers; `ph`, `panic_rx_ready`,
`result_rx_ready`, `out`, `msg` are a `TaskHandle`, its poll and its answer; `seen` is what the caller of a spawn was
told before it. `sent` and `leftover` are history
variables, which no guard reads.

Grain: one action is the code between two accesses to something shared.
`set_task_panicked` is two actions, `abort` is five, `cancel` of a task four, a
poll up to five. Three pairs of accesses are one step each: a poll starts with its
look at the panic channel; a result is sent in the step that frees the state,
since in between no one can do more than wait for the state; and the
`is_cancelled` that a poll sets after its own take (`task_handle.rs` 223) is set
with the take, since only that poll reads it. Between
the upgrade of a weak reference and the take the payload may lose its channel
(`DestroyLocals` then keeps it); the worker itself needs no such step, since
it holds the task it received. A
spawner's look-up of the ctx and its send are one, since it holds the mutex of
the ctx. Tokio's own operations (a send, a receive, a oneshot message, a mutex
acquisition) are one each, and are trusted. Closing and draining the channel,
which is what a drop of the receiver does, is one step, too. A poll of the
worker may be in progress at any time, so a step that leaves an await stays
possible after an abort; this allows a few orders that a given Tokio scheduler
would not produce.

Of a task's cancellers one `cancel()` is under way at a time, though
`TaskCanceller` is `Clone` and `cancel` takes `&self`: of several that have
upgraded, `take` gives the payload to one (`OnceTake`, for any number), and to the
others, as to a late one, it gives None, so they return false and change nothing.
A `cancel()` that returned false may be called again. A ctx is kept as a status of each spawner that shares it, so
that `close_spawners` leaves later spawners alone is how the state is
represented, and no property.

Operators whose comment begins "A plausible slip" are used by no
specification. Each is a wrong variant of the operator that follows it, and
`PROJECT.json` says which property TLC finds violated if it takes its place:
they show that the properties depend on the code.

## The runs

All of them with `tlc -config <cfg> <module>`.

| run | module, cfg | question | size |
|---|---|---|---|
| once_take | `MCOnceTake` | is `take` safe and atomic for five callers at once? | 0.2 k states |
| safety | `MCAsyncSequential` | what do worker, handle, spawners and cancellers never do, do they implement `SequentialTasks`, is whoever is waited for there, does the worker advance? | 780 k |
| termination | `MCAsyncSequential`, `MCLiveness` | if every task ends: does the worker, do joins, is no task forgotten? | 112 k |
| outcomes | `MCSpawnerQueries` | is what two `TaskHandle`s say true, do they agree on a panic, and does an answer of `has_panicked` (true, or none after a cancel or a close) or `is_unavailable` still hold when the spawn comes? | 2477 k |
| resolves | `MCTaskHandle`, `MCResolves` | with a canceller: does an awaited `TaskHandle` resolve, once and after the end of its task, is a successful `cancel()` what it reports, is there someone to wake it? | 386 k |
| stuck | `MCTaskHandle`, `MCStuck` | with a task that never ends: does an abort end the worker, `abort_and_join` return, a handle polled after a cancel resolve? | 246 k |
| abort_report, abort_queue, cancel_race, detached_panic, lost_wakeup, none_answer | | the six disagreements below | |

The properties are stated, with the sentence of the documentation they are
about, in `OnceTake`, `AsyncSequential`, `TaskHandle` and `SpawnerQueries`.
Together the passing runs also check three refinements: `OnceTake` of
`AtomicOption`, `AsyncSequential` of `SequentialTasks`, `TaskHandle` of
`TaskPromise`.

**Bounds.** The sets of tasks and spawners are the only bounds; every task is
spawned at most once, so nothing else is unbounded. `safety` has three tasks:
one that runs, one behind it, and one that is sent, refused or cancelled while
the others are under way; one of them blocking, one from a spawner (which can
be closed, dropped and outlive the handle), one with a canceller. With two
tasks the order of three (skipped, begun, queued) could not go wrong. The
liveness runs have two, a task at hand and one behind it, which is as many as
a wake-up can get lost between. `outcomes` watches both handles, of a
blocking task and of an async one behind or before it: two are what it takes to
disagree on a panic, one of them panics with a text and the other without. It
has no canceller; what a canceller does to a handle is in `resolves`, with one
handle, the one whose task is cancelled. (`OutcomeIsTrue` is checked in `outcomes` only; in
`resolves`, `WholeInv` is, from which it is proved.) A caller that got an answer other than
"fine" asks no more before it spawns. The run `stuck` has no canceller: what it
asks about is polled or aborted. No symmetry is used: tasks differ in kind and
caller, and the refinement and the liveness properties tell them apart. Five
callers in `once_take` are more than any payload has competing at one moment in
the other modules; the theorems cover the rest.

**Deadlock** is not checked: once the handle is consumed and every task is
spawned and has ended, the system stops for good, as it should. That it does
not stop too early is what the liveness properties say; that nobody waits for
someone who is gone, or who waits for him, is the invariant `NoOneWaitsInVain`.

**Fairness** (`CodeRuns`). Weak fairness of the loop, of the destruction of a
stopped future, of the pool, of the calls of the handle that were entered, of a
send's look at the flags, of a `cancel()` that got past the flags: a future that is woken is polled by its executor, a
thread goes on, a join whose future is kept is polled. The owner, the spawners
and the cancellers are never forced to act; and nothing is assumed of the
runtime's shutdown. `BlockingTasksEnd` and `AsyncTasksEnd` say that a task
that runs returns or panics; the run `stuck` does without the second. A
`TaskHandle` is polled when it is fresh or when one of its two channels woke it,
and its polls run to their end (`PollsRun`); an extra poll that the user's code
may make is possible and never assumed.

## What is proved

`OnceTakeProof` shows, for any set of callers, that the winner finds the value,
that two callers are never in the unsafe block together, and that `OnceTake`
implements `AtomicOption`. The invariant is both of the former at once: "past
the swap" is the ownership of the cell.

`AsyncSequentialProof` shows `Spec => []IInv` for any sets of tasks and
spawners, any choice of blocking tasks and callers, under the assumptions in
`WorkerStatus` and `WorkerState` (`NoTask` is not a task, the handle is not a
spawner, the other constants have their types), and from it `TypeOK`,
`Exclusive`, `CleanJoin`, `PanicReachesJoin`, `BlameIsTrue`,
`NoPanicOfItsOwn`, `StateIsThere` and `NothingBeginsAfterPanic`.

None of these is inductive by itself. That a join's `expect` holds, say, needs
that no one took the state before, hence that only one call consumes the
handle (`JoinInv`); that two tasks never run together needs that the one on the
pool outlives its worker but not the lock (`JobInv`, `LockInv`), that a task
that is taken is the only one (`PlaceInv`), and that a join gets there after
the worker's end (`JoinInv`). `PanicReachesJoin` needs that the flag byte, the
message and the panic channel are written in an order that no abort or cancel
can undo (`PanicInv`, `FlagInv`). `BlameIsTrue` needs why a worker that still
has senders can have ended at all (`BlameInv`: a panic, a shutdown, or a flag
that its owner set while giving the handle up). `CleanJoin` needs that what is
destroyed with the channel was asked for by a cancel (`ChannelInv`,
`CleanInv`). The proof has one lemma for each action, with a step for each part
of the invariant that the action can disturb; TLC checks `IInv` in the run
`safety`.

A by-product, part of `StateIsThere`: while the worker's future is alive no
join has the lock or the state. The two error branches of an *async* task
(`worker.rs` 86-97) are never taken; those of a *blocking* one (55-66) are, by a
closure that outlived its worker.

`AsyncSequentialOrder` carries a second layer, `LineInv`, on top of the first:
`IInv` is inductive by itself, `LineInv` relative to it. `OrderInv` ties the channel
to the history: what is in the channel is the end of `sent`, the task in hand is
the one before it, and what precedes that has returned or was cancelled.
`BegunInv` says that a task that began shows it for ever, and `CancelInv` that
what a cancel found in the channel gets no farther than the worker's look at the
flag. From these follow `InOrder`, `CancelledNeverBegins` and
`CancelledQueueNeverStarts`. TLC checks `LineInv` in `safety`, too.

`AsyncSequentialPromise` shows that the system implements `SequentialTasks`.
The two layers say what follows from the history, and the refinement also needs
the converse, which is the third layer, `ShownInv`: a task that has a payload
is in `sent`, so it has a place in the line; and `TakenInv`: a join that
reports has taken the state, so nothing begins after it. The mapping is easy to
state because the line of `SequentialTasks` is the list of all that was ever
accepted, together with the set of those that still wait; what is dropped from
the line, by whomever, is one abstract step, `Discard`. A step that makes a
task begin maps to `Begin`, because by `OrderInv` nobody in front of it waits; a
step that ends a task, to `End` or `Break`; a report, to `HandBack`; all others
to `Discard` or to nothing. On the way, `Ages` says what one step may do to one
task: an end is an end.

`AsyncSequentialProgress` is about waiting. Its layer, `WaitInv`, says that what
is waited for is there (a payload without a channel has a canceller that holds
it; a closure on the pool has its task) and that an owner who gave the handle up
keeps no sender, and with abort and cancel leaves none. With `IInv` this gives
`NoOneWaitsInVain`: of the payloads, the worker, the closure and the join, no one
waits for someone who is gone, and the waits go one way, join to worker to closure;
only `join` waits for the users' spawners. `WorkerAdvances` bounds the other
half. `StepsLeft` counts what is in the channel, the place in the loop and the
closure; every step of the worker, the pool or Tokio lowers it, whichever branch
of the loop it takes and whatever is cancelled or destroyed under it, and only a
send that is accepted raises it. So between two sends the loop takes at most
twelve steps for each task and two for its end, for any number of tasks. The two
together are the part of termination that a proof can reach here: the worker
cannot go on for ever without a send, and when it stops, it is not because
someone it waits for is gone. That a step that is possible is taken is
fairness, and is TLC's.

`TaskHandleProof` carries three layers over to `PollSpec`, whose only steps
on the variables of the system that `Next` does not have are the upgrade and
the take of a poll (`StepOfSystem`), and adds what a poll knows (`Look`) and
what a handle has said (`Said`). A poll that found a channel closed knows that
its sender is gone and was not used, and by `Ages` will not be: that is
`NoPanicToCome` and `NoResultToCome`. This is what allows `poll` to read two
channels, `is_cancelled` and the flags one after the other and still be right.
From `PollInv` follow `BlamelessNeverBegins`, `CancelledMeansOver` and
`BlamedHandleTells`; `PanicIsKnown`, `CancelIsReported` and the refinement of
`TaskPromise` follow from it and one step.

`TaskHandleSystem` puts the whole together. `WholeInv` adds to `PollInv` the
fourth layer, which a poll that takes a payload must not break, and two facts for
each handle: `Blame`, a payload that is gone was taken by the poll that says so or
by a canceller that comes to say so, and `Wait`, a poll that is pending
has a channel that is not ready. From it follow `OutcomeIsTrue`, where the
cases in which the reason could be wrong are down to exactly the findings
`cancel_race` and `detached_panic`, and `NoWakeupLost`: the open channel of a
handle that waits has its sender in the hands of someone who will use or drop
it. The rest of the module says that polling is harmless: a poll of the
handle of a queued task takes the payload from under the worker, and the ten
safety invariants of `AsyncSequential` (`SystemIsSafeUnderPolls`), its two action
properties (`StepsUnderPolls`) and its refinement of `SequentialTasks`
(`ImplementsSequentialTasksUnderPolls`) hold all the same. TLC checks `WholeInv`
in `resolves`.

`SpawnerQueriesProof` shows `PanicAnswerStands`, `UnavailableAnswerStands` and
`NoneAnswerStands` from `QueryInv`: a ctx that a spawner has lost does not come
back, a panic that shows in the flags stays there, a cancel gives way to a panic
but not to nothing, and from there no poll of that task's handle
gets to where it would look for another reason. TLC checks it in `outcomes`.

Every invariant, action property and refinement that a passing run checks is
also a theorem. Only model-checked is liveness, which, with fairness and ENABLED,
is outside what the proof system does: `ConsumedWorkerStops`, `JoinReturns`,
`EveryTaskSettles`, `AbortStops`, `AbortJoinReturns`, `HandleResolves` and
`LatePollResolves`. `NoOneWaitsInVain`, `WorkerAdvances` and `NoWakeupLost` are
their safety parts.

## Where code and documentation disagree

1. **abort_report.** `abort_and_join` of a worker on a live runtime returns
   an error whose `is_runtime_shutdown()` is true and `is_worker_aborted()` is
   false: `join_worker` takes every `Err` of the `JoinHandle` for a shutdown
   (`worker.rs` 252-255), and the abort it has itself asked for ends in one.
   (That no other join, and no other cause, gives a false shutdown is in `BlameIsTrue`.)
2. **cancel_race.** A task cancelled by its canceller can resolve to
   `RuntimeShutdown`: the payload is destroyed before `is_cancelled` is stored
   (`task.rs` 204-207), and a poll may come in between. (Only then, says
   `OutcomeIsTrue`: any other handle that blames a shutdown saw one.)
3. **lost_wakeup.** A `TaskHandle` that is pending when the worker is cancelled
   stays pending until the task at hand completes; the code that should prevent
   it (`task_handle.rs` 217-226) runs only if something polls. (The run
   `stuck` shows that it works for a handle first polled after the cancel.)
4. **abort_queue.** `abort` "cancels all queued tasks", but a poll of the worker
   that is in progress takes further tasks from the channel and begins them,
   since it looks for `CancelStarted` only (`worker.rs` 40).
5. **detached_panic.** The handle of a blocking task that was running at the
   abort "does not return" `WorkerAborted`, but does if the task panics; the
   panic itself is lost with the closure's return value. (No other panic is passed
   over by its own handle, the last line of `OutcomeIsTrue`.)
6. **none_answer.** Once a `TaskSpawner`'s `has_panicked()` is `None`, spawns are
   said to resolve to `TaskSpawnerUnavailable` (`task_spawner.rs` 56-62). It is
   `None` from the flag of an abort or a cancel on, but the spawners are closed
   later, and a task spawned in between is accepted. (`is_unavailable()` looks at
   the ctx alone, and keeps its word: `UnavailableAnswerStands`. And with a cancel the
   accepted task still does not begin, nor does its handle say anything untrue, and
   with a close alone it is refused: `NoneAnswerStands`. With an abort it may even begin, by `abort_queue`.)

Seen and not counted among them: a task spawned after `has_panicked()` answered
true may still be accepted, and its handle pending for a moment, since the flag
is set before the receiver is dropped (`worker.rs` 103-105; it never begins, says
`PanicAnswerStands`); a task broken off by a shutdown after a cancel
reports `WorkerCancelled`; the races of `is_finished` with the end of the
worker, which a comment in the code accepts; and, since `try_cancel` looks at the
flags before it upgrades and takes, a `cancel()` that returns true, and a
`TaskCancelled`, after the worker was aborted or cancelled or has even ended, which
the comments `task_handle.rs` 167-168 and 191-193 rule out. (The answer is right
all the same: the task never begins, `CancelledNeverBegins`, and the handle says what
the canceller was told, `CancelIsReported`.)

## Not modelled

The formatting of the error types; the choice between `spawn_worker` and
`spawn_worker_on`; memory orderings weaker than sequential consistency (the flags
are accessed acquire/release; where a property says "after", it means what is ordered after by such accesses or by
Tokio's channels); panics in the destructors of what tasks capture; Tokio
failing to start a thread.

Tokio is external, and modelled as its documentation lets the crate rely on it.
In particular a send either comes before the drop of the receiver, and what it
sent is destroyed with the channel, or after it, and fails. Inside the drop Tokio
closes the channel and then drains it; whether a send can fall between the two
is a matter of Tokio's version and not of this repository, so the model does not
split the step.

## Plan

Done: the core, its composition, the three abstract specifications, the
`TaskHandle`, the queries, the errors, the runs above, the proofs of all their
safety properties and refinements, and the composition of those proofs under polls.

The model covers every operation of the crate that changes state; what it leaves
out is under "Not modelled". Two things would be worth larger instances if they
became affordable: a canceller and a spawner together with two watched handles, and
a third task in the runs of `TaskHandle`. For the safety properties the theorems
cover both; for liveness, nothing but TLC does.
