SPECIFICATION Spec
CONSTANTS
    Token <- MCToken
    Target <- MCTarget
    Prompts <- MCPrompts
    Budgets <- MCBudgets
    NLayers = 2
    BlockSize = 5
INVARIANTS
    SeesPrefix
PROPERTY IsGreedyDecode
