SPECIFICATION Spec
CONSTANTS
    k1 = k1
    k2 = k2
    k3 = k3
    Conns <- ThreeConns
    MaxConcurrency = 2
    MaxTokens = 1
    AuditOn = TRUE
SYMMETRY Symmetry
INVARIANTS GateExact Accounted StopLeavesNobody
PROPERTIES RefusedOnlyWhenFull
