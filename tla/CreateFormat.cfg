SPECIFICATION Spec
CONSTANTS
  Word = 1024
  DWord = 1048576
  Requests <- SomeRequests
  Evaluate <- Eval
INVARIANTS SoundForWholeMacroPixels OnlyEarlierPlanesVisible
