SPECIFICATION MCSpec
CONSTANTS
  w1 = w1  w2 = w2  w3 = w3  s1 = s1  s2 = s2  smoke = smoke  flash = flash
  Workers <- ThreeWorkers
  N = 3
  Chunk = 2
  Kinds <- AllKinds
  FloorGap = 2  SnapReach = 3  MaxFaces = 4  PlayerHeight = 3  Slack = 1
  Searchers <- TwoSearchers
  ThrowKinds <- SmokeAndFlash
  Requests <- AllRequests
  RoughFinds <- RoughThrows
  MaxStands = 3  NearPlace = 1  NearAim = 1
  FrameKinds <- Frames
  Slots = 4  Pace = 2  SettleSteps = 2  MaxFrames = 3  MaxTick = 5
  LeafSize = 1  MaxLeaf = 2  Bins = 3  MaxDepth = 3  Near = 1  Never = 100
  Meshes <- AllMeshes
  Rays <- AllRays
  GridDim = 4  EmitRate = 600  BurstRate = 300  FullDensity = 500  WakeDensity = 50  Loss = 5
  NearEmitter = 10  EmitterSlots = 4
  Smokes <- AllSmokes
  map1 = map1  map2 = map2  NoMap = NoMap
  MapNames <- TwoMaps
  MaxInfos = 3
INVARIANTS BufferCoherent SummaryIsOfReport
INVARIANTS SearchIsAccountedFor AnswerIsToTheRequest NearestIsSearchedFirst
INVARIANTS ReplayIsSound
INVARIANTS SmokeIsInReach TreeIsTheMesh MeshIsTheMaps
PROPERTIES ReportSpec WalksTheGrid ComputationsEnd
VIEW Changing
CHECK_DEADLOCK FALSE
