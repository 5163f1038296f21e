SPECIFICATION Spec
CONSTANTS
  Word = 65536
  DWord = 1048576
  Formats <- WholeBlockFormats
INVARIANTS IteratorInStep InBounds PaddingDeterministic
PROPERTIES NoClobber ImplementsTransfer
