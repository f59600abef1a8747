SPECIFICATION Spec
CONSTANTS
    Invocations <- SkewInvocations
    Lineup = 3
    Concurrency = 2
    Servers <- MCServers
    VodConcurrency = 2
    Trees <- MCTrees
    QueueCapacity = 2
    MaxCycles = 2
    HistoryCap = 1
    RingCap = 2
    MaxEvents = 3
    Labels = {"a", "b"}
    Window = 5
    MaxCdnSkewMs = 3000
    LastSegment = 6
    AgentConfigs <- MCAgentConfigs
    MaxCounted = 2
INVARIANT SkewIsOfLiveEdges
CHECK_DEADLOCK FALSE
