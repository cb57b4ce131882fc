CONSTANTS
  NSlots = 1
  t1 = t1
  t2 = t2
  r1 = r1
  None = None
  Threads = {t1, t2}
  Reqs = {r1}
  Xhrs = {r1}
  Owner <- OwnXhr
  Env = {"netFailure", "earlyClose", "slowNet", "tornFlags", "collect"}
SPECIFICATION FairSpec
PROPERTY StopReturns
