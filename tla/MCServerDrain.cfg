SPECIFICATION Spec
CONSTANTS
    k1 = k1
    k2 = k2
    k3 = k3
    Conns <- TwoConns
    MaxConcurrency = 1
    MaxTokens = 1
    AuditOn = FALSE
INVARIANTS StopDrains
