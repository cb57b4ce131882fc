CONSTANTS
  NMaxXadgets = 3
  NMaxFramesets = 2
  NMaxMenuLevel = 3
  NMaxMenuItems = 5
  FlipDura = 1
  MenuDura = 1
  DpadRein = 1
  ListSizes = {1, 2}
  None = None
  Env = {}
SPECIFICATION FairSpec
INVARIANT NoFault
INVARIANT Ring
INVARIANT FocusOnItem
PROPERTY TurnsByOne
PROPERTY EveryFlipLands
CHECK_DEADLOCK FALSE
