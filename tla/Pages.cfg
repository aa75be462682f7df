SPECIFICATION PagesFairSpec
CONSTANTS
  Parts = {"labels", "updates", "storage", "list", "discover", "hardware"}
  m1 = m1
  c1 = c1
  c2 = c2
  coding = coding
  n1 = n1
  panel = panel
  systemPage = systemPage
  q4 = q4
  q8 = q8
  tuned = tuned
  shared = shared
  w4 = w4
  w8 = w8
  w5 = w5
  search = search
  d1 = d1
  d2 = d2
  None = None
  NoName = NoName
  Models <- OneModel
  Clients <- TwoClients
  Names <- TwoNames
  BuiltinNames <- Builtin
  MaxId = 3
  MaxRestarts = 1
  Panels <- OnePanel
  SystemPages <- OneSystemPage
  Background = background
  MaxVersion = 2
  OkTTL = 2
  ErrTTL = 1
  CheckEvery = 2
  Tags <- ThreeTags
  Contents <- SomeContents
  Layers <- SomeLayers
  LayersOf <- TheirLayers
  LayerSize <- TheirSizes
  Repo <- TheirRepo
  Params <- TheirParams
  Level <- TheirLevel
  UnusedDays = 1
  MaxDay = 2
  MaxSeries = 1
  MaxManifests = 2
  ListModels <- FourModels
  Filters <- OneFilter
  Keeps <- Found
  Invalid <- NoSuchFilter
  SizeOf <- ListSizes
  PageSize = 2
  Changes = 2
  CardTags <- ThreeTags
  LatestTags <- FirstTag
  QuantOf <- NamedQuants
  Digests <- TwoDigests
  Memory <- SomeMemory
  MaxGPUs = 2
  Sizes <- SomeSizes
  SamplesKept = 2
  MaxTicks = 4
CHECK_DEADLOCK FALSE
INVARIANTS
  NamesUnique
  NoDangling
  LastAgrees
  FiguresAddUp
  SeenOnce
  RowsAgree
  VerdictsAgree
PROPERTIES
  GoneForGood
  BuiltinsStay
  VersionSettles
