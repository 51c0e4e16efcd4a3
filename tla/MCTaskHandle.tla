---------------------------- MODULE MCTaskHandle ----------------------------
(* TaskHandle with two tasks and the handle of one or both polled.          *)
EXTENDS TaskHandleInv

CONSTANTS t1, t2, s1

Blocking1 == {t1}
AllFromHandle == [t \in Tasks |-> Handle]
SecondFromSpawner == [t \in Tasks |-> IF t = t2 THEN s1 ELSE Handle]
TextThenOther == [t \in Tasks |-> IF t = t1 THEN "&str" ELSE "other"]
=============================================================================
