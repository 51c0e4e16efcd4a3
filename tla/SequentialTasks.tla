--------------------------- MODULE SequentialTasks --------------------------
(***************************************************************************)
(* What async-sequential promises its user, with no worker, channel, mutex *)
(* or runtime in it: tasks wait in line, one at a time has the state, in   *)
(* the order in which they were accepted; a task in line may be dropped    *)
(* from it; once a task has left the state half done no other begins; and  *)
(* the state is handed back at most once, as sound only if the line is     *)
(* empty and no task was broken off.                                       *)
(***************************************************************************)
EXTENDS Sequences, Functions

CONSTANTS Tasks, NoTask

VARIABLES
  line,             \* the tasks ever accepted, in the order of the line
  waiting,          \* those that are still in line
  active,           \* the task that has the state, or NoTask
  ran,              \* the tasks that have had the state, in order
  broken,           \* a task left the state half done
  outcome           \* "open", or how the state was handed back: "sound", "poisoned"

promiseVars == <<line, waiting, active, ran, broken, outcome>>

PromiseInit ==
  /\ line = <<>>
  /\ waiting = {}
  /\ active = NoTask
  /\ ran = <<>>
  /\ broken = FALSE
  /\ outcome = "open"

Accept(t) ==
  /\ t \notin Range(line)
  /\ line' = Append(line, t)
  /\ waiting' = waiting \cup {t}
  /\ UNCHANGED <<active, ran, broken, outcome>>

\* Nobody who was accepted earlier is still in line.
First(t) ==
  \E j \in DOMAIN line : line[j] = t /\ \A i \in 1 .. j - 1 : line[i] \notin waiting

Begin(t) ==
  /\ active = NoTask /\ ~broken /\ outcome = "open"
  /\ t \in waiting /\ First(t)
  /\ active' = t
  /\ waiting' = waiting \ {t}
  /\ ran' = Append(ran, t)
  /\ UNCHANGED <<line, broken, outcome>>

End ==
  /\ active # NoTask
  /\ active' = NoTask
  /\ UNCHANGED <<line, waiting, ran, broken, outcome>>

Discard(out) ==
  /\ waiting' = waiting \ out
  /\ UNCHANGED <<line, active, ran, broken, outcome>>

\* The active task panics, or its future is destroyed; the line may go with it.
Break(out) ==
  /\ active # NoTask
  /\ active' = NoTask
  /\ broken' = TRUE
  /\ waiting' = waiting \ out
  /\ UNCHANGED <<line, ran, outcome>>

HandBack(how) ==
  /\ active = NoTask /\ outcome = "open"
  /\ how = "sound" => ~broken /\ waiting = {}
  /\ outcome' = how
  /\ UNCHANGED <<line, waiting, active, ran, broken>>

PromiseNext ==
  \/ \E t \in Tasks : Accept(t) \/ Begin(t)
  \/ End
  \/ \E out \in SUBSET Tasks : Discard(out) \/ Break(out)
  \/ \E how \in {"sound", "poisoned"} : HandBack(how)

PromiseSpec == PromiseInit /\ [][PromiseNext]_promiseVars
=============================================================================
