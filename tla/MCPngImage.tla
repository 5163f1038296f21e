----------------------------- MODULE MCPngImage -----------------------------
EXTENDS PngImage

(* Pictures all of whose samples differ.                                   *)
Level(p, c) == 1 + 4 * (p[1] + 2 * p[2]) + c
Picture(w, h) == [w |-> w, h |-> h, px |-> [p \in Places(w, h) |-> [c \in 1 .. channels |-> Level(p, c)]]]
SomePictures == {Picture(1, 1), Picture(1, 2), Picture(2, 2)}
SomeColors == {<<0, 40, 41, 42>>}

(* Files of 8 and of 16 bits, and of 4 bits in a palette.                  *)
InFile(level, bit_depth) == Swapped(InMemory(level, bit_depth))
Png(w, h, bit_depth) ==
  [w |-> w, h |-> h, bit_depth |-> bit_depth,
   px |-> [p \in Places(w, h) |-> [c \in 1 .. channels |-> InFile(50 + Level(p, c), bit_depth)]]]
SomeFiles == [Names -> {NoFile, Other, Png(2, 1, 8), Png(1, 2, 16), Png(2, 3, 4)}]
=============================================================================
