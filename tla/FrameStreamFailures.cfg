SPECIFICATION Spec
CONSTANTS
  Word = 65536
  DWord = 1048576
  Scripts <- FailingScripts
  Points <- TwoPoints
  Matrices <- TwoMatrices
  Hosts = {"little", "big"}
  Preambles <- SomethingBefore
INVARIANTS ReturnedAreReadable ReceivedInOrder
PROPERTIES ReaderEnds
