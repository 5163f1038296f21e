SPECIFICATION Spec
CONSTANTS
  Word = 128
  DWord = 1024
  Literals <- SomeLiterals
  Identifiers <- SomeIdentifiers
  Sessions <- SomeSessions
INVARIANTS ParsedAsWritten AssertionsHold OwnedOnce OnlyKnownLeaks AgreesWithArithmetic
PROPERTIES ParsingEnds
