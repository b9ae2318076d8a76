SPECIFICATION ProbingSpec
CONSTANTS
    Clients <- Both
    Stages <- TwoStagesAndNone
    WakeStages <- NoWakeStages
    PonrStages = {2}
    HoldStages = {1, 3}
    HasAbort = FALSE
    HasPostShutdown = TRUE
    DependsOn <- NoDependencies
    RetainState = {}
    Transportless = {"app"}
    Wakeless = {"app"}
    Blind = {}
    Unverifiable = {}
    Retries = 0
    Modes = {"armed", "dry_run"}
    Operator = {"abort", "proceed"}
    Faults = {}
    BackgroundProbe = TRUE
    MaxSeq = 1
PROPERTIES AbortEndsSequence ProbeConverges
CHECK_DEADLOCK FALSE
