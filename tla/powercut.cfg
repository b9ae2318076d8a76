SPECIFICATION Spec
CONSTANTS
    Clients <- One
    Stages <- NoneThenStorage
    WakeStages <- WakeStorage
    PonrStages = {2}
    HoldStages = {}
    HasAbort = TRUE
    HasPostShutdown = FALSE
    DependsOn <- Alone
    RetainState = {}
    Transportless = {}
    Wakeless = {}
    Blind = {"nas"}
    Unverifiable = {"nas"}
    Retries = 0
    Modes = {"armed"}
    Operator = {}
    Faults = {"power"}
    BackgroundProbe = FALSE
    MaxSeq = 2
INVARIANTS JournalBeforeCommand PonrDurable EarlierStagesSettled ToldIsLocked
CHECK_DEADLOCK FALSE
