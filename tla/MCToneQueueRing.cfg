SPECIFICATION RingSpec
CONSTANTS
    Capacity = 3
    dot = dot
    space = space
    carrier = carrier
    Payloads = {dot, space, carrier}
    Tones <- MCTones
    Clients = {c1, c2}
    Gen = gen
    Callbacks = {}
    NULL = NULL
INVARIANTS
    RingIsSound
    NobodySleepsThrough
PROPERTIES
    RingIsFifo
    EveryWaitReturns
