CONSTANTS
  x1 = x1
  d1 = d1
  None = None
  Xhrs = {x1}
  DomDocs = {d1}
  a = a
  b = b
  Names = {a, b}
  MaxNodes = 4
  MaxElems = 4
  MaxLevel = 3
  Env = {}
SPECIFICATION Spec
SYMMETRY Symmetry
CHECK_DEADLOCK FALSE
INVARIANT TypeOK
INVARIANT NoFault
INVARIANT LoopVisitsAll
PROPERTY ImplementsNodes
