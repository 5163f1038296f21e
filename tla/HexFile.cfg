SPECIFICATION HexSpec
CONSTANTS
  Buffers <- SomeBuffers
  Words <- SomeWords
  MaxWords = 5
  MaxLines = 3
INVARIANTS WrittenLoadsAgain BytesInPlace
