SPECIFICATION HistorySpec
CONSTANTS
    Requests = {"mode", "text", "flush", "reset"}
    MaxItems = 1
    Timely = TRUE
    Races = TRUE
INVARIANTS
    KeyerIsSound
    LockIsHeld
