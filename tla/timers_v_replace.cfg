CONSTANTS
  NTimers = 2
  c1 = c1
  c2 = c2
  None = None
  Calls = {c1, c2}
  MinTimeout = 1
  Delays <- AskedDelays
  Bodies = {"function"}
  LoopTicks = 1
  Env = {"replace"}
SPECIFICATION Spec
SYMMETRY Symmetry
INVARIANT NotLost
