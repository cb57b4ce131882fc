CONSTANTS
  NTimers = 1
  c1 = c1
  None = None
  Calls = {c1}
  MinTimeout = 2
  Delays <- NegativeDelays
  Bodies = {"function"}
  LoopTicks = 1
  Env = {}
SPECIFICATION Spec
PROPERTY Paced
