SPECIFICATION Spec
CONSTANTS
    K = 2
    MaxFed = 3
    MaxSaves = 2
    MaxCrashes = 2
    MaxFailures = 1
INVARIANTS
    WholeWindows
    Aligned
    NeverAhead
