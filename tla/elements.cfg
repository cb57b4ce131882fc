CONSTANTS
  MaxElems = 3
  MaxInputs = 3
  Inputs <- SomeInputs
  ViewSizes <- SomeSizes
  Frames <- SomeFrames
  FlipSteps = 2
  Texts <- SomeTexts
  Strings <- SomeStrings
  Junk = {1}
  Env = {}
SPECIFICATION Spec
INVARIANT FitsFrame
INVARIANT FadesWithAncestors
INVARIANT SizesAsAsked
INVARIANT LabelsAsAsked
CHECK_DEADLOCK FALSE
