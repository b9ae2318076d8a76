SPECIFICATION Spec
CONSTANTS
    NumClients = 2
    Configured = {2}
    Literal = {2}
    Discoverers = {1}
    Ips = {"i1", "i2"}
    Macs = {"m1", "m2"}
    Retry = 1
    Refresh = 2
INVARIANTS OneTarget KnownMacIsUsed
PROPERTY LearnedInTheEnd
