-------------------------- MODULE MCSpawnerQueries --------------------------
(* SpawnerQueries with a blocking task from the handle and an async one from*)
(* a spawner, whose callers ask before they spawn.                          *)
EXTENDS SpawnerQueries

CONSTANTS t1, t2, s1

Blocking1 == {t1}
SecondFromSpawner == [t \in Tasks |-> IF t = t2 THEN s1 ELSE Handle]
TextThenOther == [t \in Tasks |-> IF t = t1 THEN "&str" ELSE "other"]
=============================================================================
