---------------------------- MODULE OnceTakeProof ---------------------------
(* Proofs about OnceTake, for any number of callers.                        *)
EXTENDS OnceTake, TLAPS

\* The inductive invariant: the two facts need each other.
OnceInv == WinnerFindsValue /\ NoDataRace

\* Nobody has called.
LEMMA OnceInitInv == Init => OnceInv
BY DEF Init, OnceInv, WinnerFindsValue, TypeOK, NoDataRace

\* Only the winner of the swap is in the unsafe block.
LEMMA OnceStepInv == OnceInv /\ [Next]_onceVars => OnceInv'
<1> SUFFICES ASSUME OnceInv, [Next]_onceVars
             PROVE  OnceInv'
  OBVIOUS
<1> USE DEF OnceInv, WinnerFindsValue, TypeOK, NoDataRace
<1>1. ASSUME NEW th \in Threads, Swap(th)
      PROVE  OnceInv'
  BY <1>1 DEF Swap
<1>2. ASSUME NEW th \in Threads, TakeValue(th)
      PROVE  OnceInv'
  BY <1>2 DEF TakeValue
<1>3. CASE UNCHANGED onceVars
  BY <1>3 DEF onceVars
<1> QED
  BY <1>1, <1>2, <1>3 DEF Next

(***************************************************************************)
(* Whatever the number of callers, the caller whose swap succeeded finds   *)
(* the value in the cell: OnceTake::take never returns None to the winner. *)
(***************************************************************************)
THEOREM WinnerFindsValueHolds == Spec => []WinnerFindsValue
<1>1. OnceInv => WinnerFindsValue
  BY DEF OnceInv
<1> QED
  BY <1>1, OnceInitInv, OnceStepInv, PTL DEF Spec

(***************************************************************************)
(* Whatever the number of callers, two of them are never in the unsafe     *)
(* block of OnceTake::take together: the impl of Sync is justified.        *)
(***************************************************************************)
THEOREM NoDataRaceHolds == Spec => []NoDataRace
<1>1. OnceInv => NoDataRace
  BY DEF OnceInv
<1> QED
  BY <1>1, OnceInitInv, OnceStepInv, PTL DEF Spec

-----------------------------------------------------------------------------
\* The cell holds a value, and nobody has called.
LEMMA OnceInitRefines == Init => Abstract!OptionInit
BY DEF Init, Abstract!OptionInit, Abstract!Option

\* The swap decides: it is the abstract take; what follows it is invisible.
LEMMA OnceStepRefines ==
  OnceInv /\ [Next]_onceVars => [Abstract!OptionNext]_(Abstract!optionVars)
<1> SUFFICES ASSUME OnceInv, [Next]_onceVars
             PROVE  [Abstract!OptionNext]_(Abstract!optionVars)
  OBVIOUS
<1> USE DEF OnceInv, WinnerFindsValue, TypeOK
<1>1. ASSUME NEW th \in Threads, Swap(th)
      PROVE  Abstract!TakeOption(th)
  BY <1>1 DEF Swap, Abstract!TakeOption
<1>2. ASSUME NEW th \in Threads, TakeValue(th)
      PROVE  UNCHANGED Abstract!optionVars
  BY <1>2 DEF TakeValue, Abstract!optionVars
<1>3. CASE UNCHANGED onceVars
  BY <1>3 DEF onceVars, Abstract!optionVars
<1> QED
  BY <1>1, <1>2, <1>3 DEF Next, Abstract!OptionNext

(***************************************************************************)
(* OnceTake implements the one-step take of AtomicOption, for any number of*)
(* callers: the worker and a canceller can never both get the payload.     *)
(***************************************************************************)
THEOREM OnceTakeIsAtomic == Spec => ImplementsAtomicOption
<1> DEFINE AInit == Abstract!OptionInit
           ANext == Abstract!OptionNext
           avars == Abstract!optionVars
<1>1. Init => AInit
  BY OnceInitRefines
<1>2. OnceInv /\ [Next]_onceVars => [ANext]_avars
  BY OnceStepRefines
<1> HIDE DEF AInit, ANext, avars
<1>3. Spec => AInit /\ [][ANext]_avars
  BY <1>1, <1>2, OnceInitInv, OnceStepInv, PTL DEF Spec
<1> QED
  BY <1>3 DEF ImplementsAtomicOption, Abstract!OptionSpec, AInit, ANext, avars
=============================================================================
