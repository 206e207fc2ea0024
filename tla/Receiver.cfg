SPECIFICATION Spec
CONSTANTS
  DotCalibration = 24
  MinSpeed = 2
  MaxSpeed = 12
  InitialSpeed = 6
  Speeds = {7, 13}
  Tolerances = {25, 50}
  Gaps = {0, 1}
  InitialTolerance = 50
  Noise = 2
  Count = 1
  Capacity = 4
  IntMax = 1023
  Steps = {2, 4, 12}
  Horizon = 28
  Requests = {"speed", "tolerance", "gap", "adaptive", "reset", "add"}
INVARIANT
  BufferFitsState
PROPERTY
  CharactersAreKept
