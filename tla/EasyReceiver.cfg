SPECIFICATION EasySpec
CONSTANTS
  DotCalibration = 24
  MinSpeed = 2
  MaxSpeed = 12
  InitialSpeed = 12
  Speeds = {}
  Tolerances = {}
  Gaps = {}
  InitialTolerance = 50
  Noise = 1
  Count = 1
  Capacity = 4
  IntMax = 1023
  Steps = {1}
  Horizon = 8
  Requests = {}
  Lengths = {2, 4, 6, 12}
  Unit = 2
  Known <- Characters
  Races = FALSE
INVARIANT
  DeliversInTime
PROPERTY
  EverythingArrives
