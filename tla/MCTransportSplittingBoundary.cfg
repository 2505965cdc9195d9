SPECIFICATION Spec
CONSTANTS
  Inf = 100000
  Start = 0
  End = 1440
  Table <- MCTable
  InitDt = 0
  Second = 60
  InputTimes <- MCInputTimes
  Outputs = {}
  WaterSteps = {240, 720}
  CflValues = {30, 100, 6000}
  MaxVelocity = 3
INVARIANT BoundaryUsesNewFlux
