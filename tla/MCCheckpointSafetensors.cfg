SPECIFICATION Spec
CONSTANTS
    Configs <- Kinds
    Layers = 1
    MaxTrained = 1
    MaxSaves = 1
    MaxFaults = 0
    MaxRestarts = 1
PROPERTIES SafetensorsMatch
