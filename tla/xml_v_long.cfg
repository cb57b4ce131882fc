CONSTANTS
  Docs <- ShortDocs
  Units = {1, 2, 7, 1000}
  NameMax = 3
  ValueMax = 4
SPECIFICATION LoadSpec
INVARIANT LongCut
