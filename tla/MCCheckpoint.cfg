SPECIFICATION Spec
CONSTANTS
    Configs <- Kinds
    Layers = 1
    MaxTrained = 2
    MaxSaves = 2
    MaxFaults = 1
    MaxRestarts = 1
INVARIANTS OldOrNew GgufHonest
PROPERTIES AllOrNothing
