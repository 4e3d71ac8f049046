SPECIFICATION GradSpec
CONSTANTS
  P = 181
  DtLo = 1
  DtHi = 70
  FewChunks = 4
  ManyChunks = 8
  ManyFrom = 9
  Vocab = 3
  Dim = 4
  NHeads = 2
  NLayers = 2
  BlockSize = 3
  DState = 2
  ConvKernel = 2
  Micro = 2
  MaxBackwards = 3
  Batches <- MCBatches
  Seeds = {11, 24, 37}
  Configs <- MCConfigs
INVARIANTS
  ModelGradient
  LayerGradients
  DecodeMatchesForward
  ScanChunked
  FlashIsSoftmax
