---------------------------- MODULE AtomicOption ----------------------------
(***************************************************************************)
(* What an OnceTake<T> promises its callers: a slot that holds at most one *)
(* value, and a take() that is one indivisible step.  The first caller     *)
(* leaves with the value, every later caller leaves with None, and the     *)
(* value is never in two hands.                                            *)
(***************************************************************************)
CONSTANT Threads    \* the callers that share the slot

VARIABLES
  slot,             \* what the slot holds: "Some" or "None"
  answer            \* per caller: "pending" before its take(), then the Option it got

optionVars == <<slot, answer>>

Option == {"Some", "None"}

\* A slot is created full (OnceTake::new) or empty (OnceTake::empty).
OptionInit ==
  /\ slot \in Option
  /\ answer = [th \in Threads |-> "pending"]

\* take() as a single step: the caller gets the content and leaves None behind.
TakeOption(th) ==
  /\ answer[th] = "pending"
  /\ answer' = [answer EXCEPT ![th] = slot]
  /\ slot' = "None"

OptionNext == \E th \in Threads : TakeOption(th)

OptionSpec == OptionInit /\ [][OptionNext]_optionVars
=============================================================================
