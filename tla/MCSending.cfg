SPECIFICATION HistorySpec
CONSTANTS
    Capacity = 6
    HighWaterMark = 2
    Representations <- Characters
    Strings <- Texts
    DotCalibration = 1200000
    MinSpeed = 4
    MaxSpeed = 60
    MinWeighting = 20
    MaxWeighting = 80
    Initial <- InitialParameters
    Speeds = {3, 60}
    Weightings = {80, 95}
    Gaps = {2}
    Console = FALSE
INVARIANTS
    SendingIsSound
    CharactersAreWhole
    DurationsArePositive
PROPERTY
    OpenKeyFallsSilent
