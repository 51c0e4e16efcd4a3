\* Every caller finishes its take() and the system then stops for good.
CHECK_DEADLOCK FALSE
CONSTANT Threads = {worker, c1, c2, c3, c4}
SPECIFICATION Spec
INVARIANT WinnerFindsValue
INVARIANT NoDataRace
PROPERTY ImplementsAtomicOption
