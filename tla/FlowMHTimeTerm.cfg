SPECIFICATION MhSpec
CONSTANTS
  MhSteps = 4
  MhDts = {1, 2, 3}
INVARIANT TimeTermOfStep
