SPECIFICATION FdSpec
CONSTANTS
  FdRegions = {"rock", "fracture"}
  FdInputLists <- OverriddenLists
  FdCopies = {"water"}
  FdOwner = "water"
  FdStepEnds = {0, 1, 2, 3, 4}
  FdInitTimes = {0}
  FdHasDefault = TRUE
  FdNotNeeded = {}
INVARIANT CopySeesRecordInForce
