CONSTANTS
  MaxElems = 5
  MaxLevel = 3
  MaxParses = 1
  Env = {}
SPECIFICATION Spec
CONSTRAINT FewListen
INVARIANT OpenPath
INVARIANT RemovedGone
INVARIANT FocusOrder
PROPERTY ImplementsTree
