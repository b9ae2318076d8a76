SPECIFICATION FairSpec
CONSTANTS
    Clients <- Both
    Stages <- TwoStages
    WakeStages <- NoWakeStages
    PonrStages = {2}
    HoldStages = {}
    HasAbort = TRUE
    HasPostShutdown = TRUE
    DependsOn <- AppNeedsStorage
    RetainState = {"nas"}
    Transportless = {}
    Wakeless = {}
    Blind = {}
    Unverifiable = {}
    Retries = 1
    Modes = {"armed"}
    Operator = {"abort"}
    Faults = {"crash"}
    BackgroundProbe = FALSE
    MaxSeq = 1
INVARIANTS TypeOK AbortRecorded
PROPERTIES AbortIsFinal WakeEndsShutdown ImplementsLifecycle EverySequenceEnds
CHECK_DEADLOCK FALSE
