SPECIFICATION CplSpec
CONSTANTS
  Inf = 900000000
  Inputs <- MCFastHeat
  Adaptive <- MCSteadySteps
PROPERTY VelocityKnown
