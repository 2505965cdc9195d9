SPECIFICATION EqSpec
CONSTANTS
  EqParts = {"lmh", "balance", "nonlinear", "assembly", "dg", "hm", "mh", "reaction", "schur"}
  Ranks = {0, 1}
  LmhEndTime = 4
  LmhSchedules <- Switching
  LmhMarks = {0, 3, 4}
  LmhDts = {1, 2, 3}
  LmhFluxes = {0, 1, 3}
  Inf = 1000
  Prec = 1
  Tol = 0
  BaseTypes = {"fixed", "output", "input", "balance"}
  BalEndTime = 4
  BalInputs <- MCInputs
  BalDts <- MCDts
  BalSources = {0, 1}
  BalFluxes <- MCFluxes
  BalReactions <- MCReactions
  BalRetardation = 1
  NlSolves = 2
  NlElements = 2
  NlCases <- nl_cases
  NlResiduals = {1, 5, 10}
  NlTolerance = 1
  DaRanks = {0, 1, 2}
  DaMesh <- da_mesh
  DaOwners <- da_owners
  DaBulkPoints = 2
  DaSidePoints = 1
  n_cached_elements = 5
  DgMaxSteps = 3
  HmSteps = 3
  HmLimits <- hm_limits_tried
  MhSteps = 4
  MhDts = {1, 2, 3}
  RcSecond = 1
  RcElements = {1, 2}
  RcData = {"a", "bare"}
  NoSurface = "bare"
  RcLevels = {0, 1, 3}
  RcDts = {1, 2}
  RcSteps = 2
  RcCases <- rc_cases
  SchurCounts = {0, 1, 2}
  ScAssemblies = 5
INVARIANT OutputComplete
INVARIANT FlowsAccounted
INVARIANT SolveLeftInTime
INVARIANT StepCoupled
INVARIANT TakenOverFromLastStep
INVARIANT ReactionsOfTheStep
INVARIANT PresentSystemUsed
INVARIANT StartsFromSolutionInForce
INVARIANT SeepageTestsOwnFlux
INVARIANT TermsAddedOnce
INVARIANT SystemFromCurrentData
PROPERTY MassCarriedOver
PROPERTY TableCoversLastStep
PROPERTY StepsEnd
