SPECIFICATION HistoryLive
CONSTANTS
    Requests = {"wait", "mode"}
    MaxItems = 1
    Timely = TRUE
    Races = FALSE
INVARIANT
    PressIsHeard
PROPERTY
    KeyerLetsGo
