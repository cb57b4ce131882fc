CONSTANTS
  MaxElems = 5
  MaxLevel = 3
  MaxParses = 1
  Env = {"insert"}
SPECIFICATION Spec
PROPERTY InsertsBefore
