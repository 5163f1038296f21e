---------------------------- MODULE IntegerWidths ---------------------------
(***************************************************************************)
(* How many values the integers of the code have.  Arithmetic wraps.       *)
(***************************************************************************)
EXTENDS Integers

CONSTANTS
  Word,   \* uint32_t and int have this many values ...
  DWord   \* ... and uint64_t and size_t this many

ASSUME WordAssumption == Word \in Nat \ {0} /\ DWord \in Nat \ {0}

=============================================================================
