SPECIFICATION Spec
CONSTANTS
    Cond <- MCCond
    Depth <- MCDepth
    Transports <- MCTransports
    SourceTypes = {"nut", "snmp", "gpio"}
    KnownFacts <- MCFacts
    Configs <- CanonicalGate
    Values <- MCValues
    Interval = 1
    Duration = 6
INVARIANT DwellAlwaysHeld
CHECK_DEADLOCK FALSE
