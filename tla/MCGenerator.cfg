SPECIFICATION GenLiveSpec
CONSTANTS
    Capacity = 2
    dot = dot
    carrier = carrier
    hush = hush
    Payloads = {dot, carrier, hush}
    Audible = {dot, carrier}
    Tones <- MCTones
    Quantum <- MCQuantum
    Clients = {c1}
    Owner = c1
    Gen = gen
    Callbacks = {}
    NULL = NULL
    SilencesAlone = TRUE
INVARIANT
    SleepsRightly
PROPERTIES
    SilencingIsSound
    OnlySustainedCallsLast
