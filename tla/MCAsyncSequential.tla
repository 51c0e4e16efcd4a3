------------------------- MODULE MCAsyncSequential --------------------------
(* AsyncSequential with one async and one or two blocking tasks, spawned    *)
(* from the handle and from a spawner.                                      *)
EXTENDS AsyncSequentialInv

CONSTANTS t1, t2, t3, s1

Blocking2 == {t2}
Caller3 == [t \in Tasks |-> IF t = t3 THEN s1 ELSE Handle]
CallerAny2 == [t \in Tasks |-> IF t = t2 THEN s1 ELSE Handle]
=============================================================================
