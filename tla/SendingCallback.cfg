SPECIFICATION CallbackSpec
CONSTANTS
    Capacity = 6
    HighWaterMark = 2
    Representations <- Characters
    Strings = {}
    DotCalibration = 1200000
    MinSpeed = 4
    MaxSpeed = 60
    MinWeighting = 20
    MaxWeighting = 80
    Initial <- InitialParameters
    Speeds = {}
    Weightings = {}
    Gaps = {}
    Console = FALSE
    LowWaterMark = 1
INVARIANT
    SpaceIsNoticed
