CONSTANTS
  Docs <- MCDocs
  Units = {1, 2, 7, 1000}
  NameMax = 3
  ValueMax = 4
SPECIFICATION LoadSpec
INVARIANT RawNamesLive
INVARIANT PositionRight
INVARIANT StringsTaken
PROPERTY ImplementsReader
