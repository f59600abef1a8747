SPECIFICATION Spec
CONSTANTS
    Invocations <- MCInvocations
    Lineup = 3
    Concurrency = 2
    Servers <- MCServers
    VodConcurrency = 2
    Trees <- MCTrees
    QueueCapacity = 2
    MaxCycles = 2
    HistoryCap = 1
    RingCap = 2
    MaxEvents = 3
    Labels = {"a", "b"}
    Window = 5
    MaxCdnSkewMs = 3000
    LastSegment = 6
    AgentConfigs <- MCAgentConfigs
    MaxCounted = 2
INVARIANTS
    PassIsEarned
    CrawlIsSound
    ReportIsTrue
    ExportsInOrder
    AgentCountsItsStreams
PROPERTIES
    ResumeCatchesUp
    TimedRunsEnd
CHECK_DEADLOCK FALSE
