CONSTANTS
  NSlots = 2
  t1 = t1
  t2 = t2
  r1 = r1
  r2 = r2
  r3 = r3
  None = None
  Threads = {t1, t2}
  Reqs = {r1, r2, r3}
  Xhrs = {r1, r2, r3}
  Owner <- OwnXhr
  Env = {"netFailure", "earlyClose"}
SPECIFICATION Spec
SYMMETRY Symmetry
INVARIANT TypeOK
INVARIANT ThreadGoneAfterWait
INVARIANT SlotHeld
INVARIANT OwnResponse
INVARIANT CalledOnce
INVARIANT CallBackLive
PROPERTY ImplementsJobs
