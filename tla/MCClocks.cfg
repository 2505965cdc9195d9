SPECIFICATION ClSpec
CONSTANTS
  Inf = 900000000
  Start = 0
  End = 24
  Table <- MCTable
  InitDt = 8
  Second = 2
  Prescribed = {12}
  Uppers = {3, 6}
  Lowers = {8}
  Targets = {6, 18}
  Reductions = {}
  Inputs <- MCInputs
  Adaptive <- MCAdaptive
INVARIANT TypeOK
INVARIANT ChangedFlagExact
PROPERTY NoFixedMarkSkipped
PROPERTY StepObeysConstraints
PROPERTY ImplementsAxis
PROPERTY NewestVelocityUsed
PROPERTY VelocityLagBounded
PROPERTY GovernorEnds
PROPERTY CouplingEnds
