SPECIFICATION SendingSpec
CONSTANTS
    Capacity = 3
    dot = dot
    carrier = carrier
    Payloads = {dot, carrier}
    Tones <- MCTones
    Clients = {c1}
    Gen = gen
    Callbacks = {f1}
    NULL = NULL
INVARIANTS
    CalledBeforeDry
PROPERTY
    ToneWaitLastsOrFlushed
