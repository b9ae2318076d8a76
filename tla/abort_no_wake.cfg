SPECIFICATION Spec
CONSTANTS
    Clients <- Both
    Stages <- TwoStages
    WakeStages <- NoWakeStages
    PonrStages = {2}
    HoldStages = {}
    HasAbort = FALSE
    HasPostShutdown = FALSE
    DependsOn <- NoDependencies
    RetainState = {}
    Transportless = {}
    Wakeless = {}
    Blind = {}
    Unverifiable = {}
    Retries = 0
    Modes = {"armed"}
    Operator = {"abort"}
    Faults = {}
    BackgroundProbe = FALSE
    MaxSeq = 1
PROPERTY AbortHandsOverToWake
CHECK_DEADLOCK FALSE
