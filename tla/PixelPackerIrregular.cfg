SPECIFICATION Spec
CONSTANTS
  Word = 65536
  DWord = 1048576
  Formats <- IrregularFormats
INVARIANTS NothingArrivesAltered
