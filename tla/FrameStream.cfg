SPECIFICATION Spec
CONSTANTS
  Word = 65536
  DWord = 1048576
  Scripts <- ValidScripts
  Points <- TwoPoints
  Matrices <- TwoMatrices
  Hosts = {"little"}
  Preambles <- NothingBefore
INVARIANT ReaderInStep
PROPERTIES ImplementsFifo
