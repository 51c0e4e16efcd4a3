------------------------------ MODULE OnceTake ------------------------------
(***************************************************************************)
(* internal::OnceTake<T>: the cell that carries a task's payload from its  *)
(* spawner to whoever takes it first, the worker or a canceller.           *)
(*                                                                         *)
(* take() is two separate accesses to shared memory: an atomic swap of the *)
(* flag `taken`, then, for the caller that saw FALSE only, an unprotected  *)
(* read and write of the UnsafeCell `value`.  Any number of callers may be *)
(* between the two.                                                        *)
(***************************************************************************)
EXTENDS Naturals

CONSTANT Threads    \* the callers that share the cell

VARIABLES
  taken,            \* AtomicBool
  value,            \* UnsafeCell<Option<T>>: "Some" or "None"
  pc,               \* per caller: "swap", "cell" (past the swap, in the unsafe block), "done"
  got               \* per caller: what take() returned, "pending" before it does

onceVars == <<taken, value, pc, got>>

\* OnceTake::new, OnceTake::empty and From<Option<T>>.
Init ==
  /\ \/ taken = FALSE /\ value = "Some"
     \/ taken = TRUE  /\ value = "None"
  /\ pc = [th \in Threads |-> "swap"]
  /\ got = [th \in Threads |-> "pending"]

\* A plausible slip: a load of `taken` and a later store, instead of one swap.
SwapNotAtomic(th) ==
  /\ pc[th] = "swap"
  /\ IF taken
       THEN /\ pc' = [pc EXCEPT ![th] = "done"]
            /\ got' = [got EXCEPT ![th] = "None"]
       ELSE /\ pc' = [pc EXCEPT ![th] = "cell"]
            /\ UNCHANGED got
  /\ UNCHANGED <<taken, value>>

\* taken.swap(true, AcqRel): a caller that finds TRUE returns None at once.
Swap(th) ==
  /\ pc[th] = "swap"
  /\ taken' = TRUE
  /\ IF taken
       THEN /\ pc' = [pc EXCEPT ![th] = "done"]
            /\ got' = [got EXCEPT ![th] = "None"]
       ELSE /\ pc' = [pc EXCEPT ![th] = "cell"]
            /\ UNCHANGED got
  /\ UNCHANGED value

\* A plausible slip: the winner goes away with nothing and leaves the cell full.
TakeValueLeaves(th) ==
  /\ pc[th] = "cell"
  /\ got' = [got EXCEPT ![th] = "None"]
  /\ pc' = [pc EXCEPT ![th] = "done"]
  /\ UNCHANGED <<taken, value>>

\* (*self.value.get()).take(), in the unsafe block.
TakeValue(th) ==
  /\ pc[th] = "cell"
  /\ got' = [got EXCEPT ![th] = value]
  /\ value' = "None"
  /\ pc' = [pc EXCEPT ![th] = "done"]
  /\ UNCHANGED taken

Next == \E th \in Threads : Swap(th) \/ TakeValue(th)

Spec == Init /\ [][Next]_onceVars

-----------------------------------------------------------------------------
TypeOK ==
  /\ taken \in BOOLEAN
  /\ value \in {"Some", "None"}
  /\ pc \in [Threads -> {"swap", "cell", "done"}]
  /\ got \in [Threads -> {"pending", "Some", "None"}]

(***************************************************************************)
(* The caller that won the swap finds the value, which no one else takes or*)
(* leaves behind: with the cell's two variables in step, take() never      *)
(* returns None to the one caller it owes the value to.                    *)
(***************************************************************************)
WinnerFindsValue ==
  /\ TypeOK
  /\ ~taken => value = "Some" /\ \A th \in Threads : pc[th] = "swap"
  /\ \A th \in Threads : pc[th] = "cell" => taken /\ value = "Some" /\ got[th] = "pending"
  /\ \A th \in Threads : pc[th] = "swap" => got[th] = "pending"

(***************************************************************************)
(* The SAFETY comment of once_take.rs: only the thread that managed to     *)
(* change `taken` to true touches `value`, so two threads are never in the *)
(* unsafe block together (which would be a data race, undefined            *)
(* behaviour).                                                             *)
(***************************************************************************)
NoDataRace == \A a, b \in Threads : pc[a] = "cell" /\ pc[b] = "cell" => a = b

(***************************************************************************)
(* The slot a caller observes: it is emptied by the swap, not by the later *)
(* access to the cell, and the winner owns the value from the swap on.     *)
(***************************************************************************)
Abstract == INSTANCE AtomicOption WITH
  slot <- IF taken THEN "None" ELSE "Some",
  answer <- [th \in Threads |-> IF pc[th] = "cell" THEN "Some" ELSE got[th]]

(***************************************************************************)
(* OnceTake implements the one-step take() of AtomicOption: its callers    *)
(* cannot tell the two accesses apart, the value goes to exactly one of    *)
(* them and is not lost to all of them.                                    *)
(***************************************************************************)
ImplementsAtomicOption == Abstract!OptionSpec
=============================================================================
