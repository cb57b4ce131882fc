CONSTANTS
  NTimers = 2
  c1 = c1
  c2 = c2
  None = None
  Calls = {c1, c2}
  MinTimeout = 2
  Delays <- AskedDelays
  Bodies = {"string", "function", "none"}
  LoopTicks = 1
  Env = {"eventLost"}
SPECIFICATION FairSpec
INVARIANT TypeOK
INVARIANT Kept
INVARIANT RunsOnce
PROPERTY Paced
PROPERTY TakenBackSilent
PROPERTY EveryTimerFires
