SPECIFICATION Spec
CONSTANTS
    Cond <- MCCond
    Depth <- MCDepth
    Transports <- MCTransports
    SourceTypes = {"nut", "snmp", "gpio"}
    KnownFacts <- MCFacts
    Configs <- MCConfigs
    Values <- MCValues
    Interval = 1
    Duration = 6
INVARIANTS CycleVerdictExact DependentsFirst EachClientOnce
    ExplainAgrees LossNeverDecides DwellHeld AgreesWithExecutor
CHECK_DEADLOCK FALSE
