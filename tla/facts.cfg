SPECIFICATION FairSpec
CONSTANTS
    Pollers <- MCPollers
    Kind <- MCKind
    Name <- MCName
    Reports <- MCReports
    Readings <- MCReadingsOrSilence
    Interval <- MCInterval
    MaxLatency = 1
    UpdateBuffer = 1
    MinPoll = 1
    QualityRefresh = 1
    Policy = 1
    ClientNames <- MCClients
    Feeds <- MCFeeds
    NeedsAll = {1}
    AssumeThreat = {}
    Oldest = 4
INVARIANTS GoodIsRecent StaleIsOldOrRaced ThreatIsReported
PROPERTY OutageSeen
