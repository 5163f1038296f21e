------------------------------ MODULE MCHexFile -----------------------------
EXTENDS HexFile

(* Buffers up to two lines and a half, all of whose bytes differ.          *)
SomeBuffers == {[i \in 1 .. n |-> i] : n \in 0 .. 42}

Data(value, size) == [value |-> value, size |-> size, colon |-> FALSE]
Colon(value, size) == [value |-> value, size |-> size, colon |-> TRUE]

(* Words of one byte, of two, of an odd number of digits and of too many,  *)
(* and addresses before and behind one another.                            *)
SomeWords ==
  {Data(161, 2), Data(178 * 256 + 194, 4), Data(13, 3), Data(1, 18),
   Colon(0, 2), Colon(2, 3), Colon(5, 3)}
=============================================================================
