----------------------------- MODULE TaskPromise -----------------------------
(***************************************************************************)
(* What a TaskHandle promises, with no channel, flag or poll in it: a task *)
(* waits, begins or goes, and if it began returns or is broken off; its    *)
(* handle answers once, only when all that is over, and with an answer that*)
(* fits.  After the answer nothing happens to the task.                    *)
(***************************************************************************)
CONSTANTS
  Handles,          \* the tasks whose handle is watched
  BrokenAnswers,    \* what may be said of a task that began and did not return
  GoneAnswers       \* what may be said of a task that never began

VARIABLES
  life,             \* per task: "waiting", "running", "returned", "broken", "gone"
  answer            \* per task: "none", or what its handle resolved to

promiseVars == <<life, answer>>

TaskPromiseInit ==
  /\ life = [t \in Handles |-> "waiting"]
  /\ answer = [t \in Handles |-> "none"]

Fits(a, l) ==
  \/ l = "returned" /\ a = "Ok"
  \/ l = "broken" /\ a \in BrokenAnswers
  \/ l = "gone" /\ a \in GoneAnswers

Moves(t) ==
  /\ answer[t] = "none"
  /\ \/ life[t] = "waiting" /\ life'[t] \in {"running", "gone"}
     \/ life[t] = "running" /\ life'[t] \in {"returned", "broken"}

\* A handle may take its task out of the line and answer in one step.
Answers(t) ==
  /\ answer[t] = "none"
  /\ Fits(answer'[t], life'[t])
  /\ life'[t] = life[t] \/ (life[t] = "waiting" /\ life'[t] = "gone")

\* One step of the system may move several tasks.
TaskPromiseNext ==
  /\ life' = [t \in Handles |-> life'[t]]
  /\ answer' = [t \in Handles |-> answer'[t]]
  /\ \A t \in Handles :
       \/ (Moves(t) \/ life'[t] = life[t]) /\ answer'[t] = answer[t]
       \/ Answers(t)

TaskPromiseSpec == TaskPromiseInit /\ [][TaskPromiseNext]_promiseVars
=============================================================================
