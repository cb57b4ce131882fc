CONSTANTS
  NSlots = 2
  t1 = t1
  t2 = t2
  r1 = r1
  r2 = r2
  None = None
  Threads = {t1, t2}
  Reqs = {r1, r2}
  Xhrs = {r1, r2}
  Owner <- OwnXhr
  Env = {}
SPECIFICATION FairSpec
PROPERTY JobCompletes
PROPERTY AnswerDelivered
