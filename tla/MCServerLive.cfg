SPECIFICATION FairSpec
CONSTANTS
    k1 = k1
    k2 = k2
    k3 = k3
    Conns <- TwoConns
    MaxConcurrency = 2
    MaxTokens = 1
    AuditOn = FALSE
PROPERTIES GateReopens EntryDecided StopReturns
