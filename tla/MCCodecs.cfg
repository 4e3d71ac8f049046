SPECIFICATION Spec
CONSTANTS
    NBytes = 7
    vocab_size = 9
    LetterN = 1
    Space = 2
    Newline = 3
    Hash = 4
    Quote = 5
    Backslash = 6
    Texts <- TrainingTexts
    Probes <- ProbeTexts
    MaxMerges = 2
    MaxTrainings = 2
    MaxBytes = 5
    MaxChunk = 3
    Sizes <- ManySizes
    MaxTensors = 3
    Headers <- SomeHeaders
    Inputs <- BlockInputs
    NonFinite = NonFinite
INVARIANTS EncodeDecode StreamWhole LayoutSound NearestLevels PartsFound HalfNearest
PROPERTIES LoadRestores
\* A call ends: each subject comes to a state with nothing left to do.
CHECK_DEADLOCK FALSE
