CONSTANTS
  x1 = x1
  d1 = d1
  a = a
  b = b
  None = None
  Xhrs = {x1}
  DomDocs = {}
  Names = {a}
  MaxNodes = 4
  MaxElems = 2
  MaxLevel = 2
  Env = {"deep"}
SPECIFICATION Spec
CHECK_DEADLOCK FALSE
INVARIANT ResponseKept
