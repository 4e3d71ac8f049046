SPECIFICATION Spec
CONSTANTS
    Token <- MCToken
    Target <- MCTarget
    Prompts <- MCPrompts
    Budgets <- MCBudgets
    Ks <- MCKs
    MaxConcat = 5
    BlockSize = 5
INVARIANTS
    GreedyPrefix
    NoExtraCalls
PROPERTY IsGreedyDecode
