SPECIFICATION Spec
CONSTANTS
    Clients <- One
    Stages <- JustStorage
    WakeStages <- NoWakeStages
    PonrStages = {}
    HoldStages = {}
    HasAbort = FALSE
    HasPostShutdown = FALSE
    DependsOn <- Alone
    RetainState = {}
    Transportless = {}
    Wakeless = {}
    Blind = {}
    Unverifiable = {}
    Retries = 0
    Modes = {"armed"}
    Operator = {}
    Faults = {"crash"}
    BackgroundProbe = FALSE
    MaxSeq = 1
INVARIANT NoLockWithoutSequence
CHECK_DEADLOCK FALSE
