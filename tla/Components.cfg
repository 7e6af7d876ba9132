SPECIFICATION ComponentsSpec
CONSTANTS
  ResetAdmins = {c1}
  Forgetful = {a1, a2}
  AccountNames = {b1, b2}
  NoAccount = NoAccount
  NoRequest = NoRequest
  NoCall = NoCall
  NothingShown = NothingShown
  MaxAccounts = 2
  MaxRequests = 2
  MaxIssued = 2

  Threads = {a1, a2}
  Owners = {b1, b2}
  SchemaVersion = 8
  UsersMigration = 2
  StatusMigration = 8
  NoRow = NoRow

  IdleLimit = 2
  AbsoluteLimit = 5
  Never = Never
  MaxTime = 8

  Savers = {a1, a2}
  Viewers = {u1, u2}
  Administrators = {u2}
  Nobody = Nobody
  NoSave = NoSave
  RunsOfBatch = 2
  MaxSaves = 2

  BenchPhotos = {a1, a2}
  PromptSets = {b1, b2}
  SameTerms = {b1, b2}
  Thresholds = {1}
  Failure = Failure
  NoBatch = NoBatch
  NoSession = NoSession
  MaxCount = 1
  MaxMissed = 1
  MaxBatches = 1
  MaxReviews = 1
  MinImages = 2

  PolicyTabs = {a1, a2}
  SeededModels = {w1, p1}
  Seeds <- MCSeeds
  NoPolicy = NoPolicy
  NoPolicyJob = NoPolicyJob
  PolicyRoles = {"admin", "user"}
  MaxLimit = 1
  MaxPolicySaves = 2

  CatalogTabs = {a1, a2}
  WorkspaceModels = {w1}
  PublicModels = {p1}
  Namesakes = {w1, p1}
  NotListed = NotListed
  NoOperation = NoOperation
  MaxOperations = 2

  Curators = {a1, a2}
  Galleries = {g1}
  SampleIds = {b1, b2}
  NoSample = NoSample
  NoTask = NoTask

  RowHeight = 4
  TileGrowth = 1
  MaxTiles = 4
  Layouts <- MCLayouts
  RowLength = 20
  UserTile = 12
  LargeTile = 10
  SmallTile = 6
  Detectors <- MCDetectors
  ClassesOf <- MCClasses
  Levels = {20, 60, 90}
  Threshold = 25
  IouThreshold = 50
  MaxCalls = 2
  ManyModelModes = {"whole"}

  KeyTabs = {a1, a2}
  OrKeys = {b1, b2}
  NoKey = NoKey
  PhotosPerRun = 2

  ShapePictures = {"photo"}
  SamplePicture = "sample"
  ShapeSettings = {s1}
  FoundCounts = {0, 2}
  CacheLimit = 1
  MaxAdded = 1
  MaxSaved = 1
  MaxFiles = 2
INVARIANTS
  ComponentsTypeOK
  ResetReachesItsName
  ShownPasswordWorks
  SchemaMatchesVersion
  LostOnlyUnseen
  HistoryIsOwn
  MatrixAddsUp
  CachedRunsHonest
  NothingBetter
  OfferedIsTested
  FormOrSeed
  RegisteredHasFile
  EachItemOnce
  SuccessSawAll
  ConsensusCountsItems
  SilentOnceFlagged
  CacheUnreviewed
PROPERTIES
  UpgradeKeepsAccounts
  PagesWithinLimits
  WorkingUserStays
  SavedIsTheReview
SYMMETRY MCSymmetry
\* The components stop at their bounds, and a photo when it is analysed.
CHECK_DEADLOCK FALSE
