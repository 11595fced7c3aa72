SPECIFICATION MCSpec
CONSTANTS
  MaxPlayers = 3
  Capacity = 3
  MaxTime = 4
  MaxFrames = 6
  FilterSize = 3
  Ahead = 7
  Delays = {0, 1, 3}
  MaxSamples = 4
  VirtualKeys = {"VK_ESCAPE", "SHIFT_LEFT", "ALT_LEFT", "CONTROL_LEFT", "CONTROL_RIGHT"}
  Unlisted = {"VK_ESCAPE"}
  PageSize = 20
  Bases = {7, 8}
  Needs = {1, 3}
  MaxSteps = 2
  Kinds = {"buffer", "texture"}
  Sizes = {1, 2}
  Buckets = {4}
  MaxHeaps = 2
  MaxLive = 3
  MaxCut = 2
  PoolPageSize = 4
  Alignment = 2
  DataSizes = {1, 3}
  MaxHandles = 3
  MaxViews = 2
  MaxRendered = 2
  BulkSize = 3
  MaxBulks = 2
  Scripts <- MCScripts
  Pairs = 1
  MaxScripts = 3
INVARIANTS SceneMatchesPlayers ClientsShowThePlayers HistoryIsBracketed ClockErrorIsBounded KeysFollowTheKeyboard PageIsPartitioned HeapsArePartitioned FrameMemoryIsKept LoopsAreExact NothingInUseIsReset CullingIsExact
PROPERTIES DefragmentationEnds PassesFindTheirResources HostWaitsEnd
CHECK_DEADLOCK FALSE
