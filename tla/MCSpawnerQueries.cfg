\* Both callers ask before they spawn; both TaskHandles are polled.
CHECK_DEADLOCK FALSE
CONSTANTS
  t1 = t1
  t2 = t2
  s1 = s1
  Tasks = {t1, t2}
  NoTask = NoTask
  Blocking <- Blocking1
  Spawners = {s1}
  Handle = Handle
  Caller <- SecondFromSpawner
  Cancellable = {}
  Payload <- TextThenOther
  Watched = {t1, t2}
SPECIFICATION QuerySpec
INVARIANT PollTypeOK
INVARIANT OutcomeIsTrue
INVARIANT BlamedHandleTells
INVARIANT QueryInv
INVARIANT PanicAnswerStands
INVARIANT UnavailableAnswerStands
PROPERTY PanicIsKnown
INVARIANT NoneAnswerStands
