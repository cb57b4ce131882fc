CONSTANTS
  NCache = 2
  RefWidth = 3
  MaxRefs = 4
  b1 = b1
  b2 = b2
  b3 = b3
  b4 = b4
  f1 = f1
  f2 = f2
  p1 = p1
  u1 = u1
  u2 = u2
  u3 = u3
  d1 = d1
  d2 = d2
  None = None
  Bufs = {b1, b2, b3, b4}
  Images = {f1, f2}
  Bars = {p1}
  Uris = {u1, u2, u3}
  Streams = {u3}
  Data = {d1, d2}
  Env = {"badFile"}
SPECIFICATION Spec
SYMMETRY Symmetry
INVARIANT RefsExact
INVARIANT CacheSound
INVARIANT ShowsAsked
