SPECIFICATION PlSpec
CONSTANTS
  Inf = 1000000
  Prec = 2
  Tol = 3
  BaseTypes = {"fixed", "output", "input", "balance"}
  Records <- SeparatedRecords
  InitTime = 0
  EndTime = 2000
  InputTimes <- MCInputTimes
  BalanceTimes <- MCBalanceTimes
  Cuts = {450}
  Rounding <- MCRounding
  MaxSteps = 5
  OsRanks = {0, 1}
  OsLayouts <- MCOsLayouts
  OsEquations <- MCOsEquations
  OsDue <- MCOsDue
  OsEnd = 3
  max_observe_value_time = 2
  TmEquations = 1
  TmTimes = {499, 500, 503, 504}
  TmGrids <- MCGrids
  TmMasks <- MCMasks
  TmProbes <- MCProbes
  TmMaxMarks = 5
  FdRegions = {"rock", "fracture"}
  FdInputLists <- SimpleLists
  FdCopies = {"water", "solute"}
  FdOwner = "water"
  FdStepEnds = {0, 2, 3, 4}
  FdInitTimes = {0, 2}
  FdHasDefault = TRUE
  FdNotNeeded = {}
  DfRanks = 3
  DfMesh <- df_mesh
  DfOwners <- df_owners
  RgMeshes <- rg_meshes
  create_label_from_id <- rg_label
  RgNames = {"a", "n", ".m"}
  RgBoundary = {".b", ".m", ".IMPLICIT_BOUNDARY"}
  RgIds = {1, 2}
  RgDims = {1}
  RgRecords = 2
  PrTags = {"a", "b", "c"}
  hash_idx <- pr_hash
  max_n_childs = 2
  PrSizes = {1}
  PrWord = 16
  PrStarts = 3
  PrTicks = 1
  PrMallocs = 1
  MtMeshes <- mt_meshes
  FfFiles <- MCFfFiles
  FfIds <- MCFfIds
  FfFields <- MCFfFields
  FfTimes = {0, 1, 2}
  FfReads = 6
  InTypes <- MCInTypes
  InFiles <- MCInFiles
  InCases <- MCInCases
INVARIANT MergedWithoutLoss
INVARIANT NumbersAgree
INVARIANT RegionsAsDeclared
INVARIANT TimersExact
INVARIANT SidesJoinedAndClosed
INVARIANT NextAndLastSplitMarks
INVARIANT CopySeesRecordInForce
INVARIANT FailsOnlyBehindRecord
INVARIANT DataOfReadTime
INVARIANT DuplicatedAtFractures
INVARIANT InputAsWritten
INVARIANT WrittenWhenAsked
INVARIANT StreamComplete
PROPERTY RetryReducedUnlessFixed
