SPECIFICATION Spec
CONSTANTS
    a = a
    b = b
    Caches = {a, b}
    Pooled = {a, b}
    NLayers = 1
    MaxLen <- MCMaxLen
    PageSize = 2
    Values = {x}
    Zero = zero
    MaxRows = 2
    Buffers = {b1, b2, b3, b4, b5, b6}
SYMMETRY Symmetry
INVARIANTS
    NoSharing
    ReadsBacked
    PoolBounded
PROPERTY IsRowStore
