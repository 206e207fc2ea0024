SPECIFICATION HistorySpec
CONSTANTS
  DotCalibration = 24
  MinSpeed = 2
  MaxSpeed = 12
  InitialSpeed = 6
  Speeds = {12}
  Tolerances = {50}
  Gaps = {0}
  InitialTolerance = 50
  Noise = 1
  Count = 2
  Capacity = 4
  IntMax = 1023
  Steps = {1, 4, 12}
  Horizon = 13
  Requests = {"adaptive"}
INVARIANT
  AveragesAreSound
PROPERTY
  AdaptiveIdentifiesAll
