---------------------------- MODULE BlockReorder ----------------------------
(***************************************************************************)
(* Block reordering (swizzling): after a frame has been packed, the blocks *)
(* of every plane that has mega blocks are permuted inside each mega       *)
(* block; before it is unpacked they are put back.  Both directions build  *)
(* the plane in a temporary that nothing initialises and copy all of it    *)
(* over the plane, so what no block was copied to becomes indeterminate.   *)
(*                                                                         *)
(* block_order is [mega_block_width, mega_block_height, x_mask, y_mask].   *)
(* The masks list the low bits only: the source's arrays have 32 entries,  *)
(* and the entries left out here are NOT_USED there.                       *)
(***************************************************************************)
EXTENDS FormatLayout, FiniteSetsExt

NOT_USED == 32

(* Bit number mask of a block coordinate; NOT_USED shifts out of the word. *)
MaskedBit(mask, coord) == mask # NOT_USED /\ (coord \div 2^mask) % 2 = 1

(* Bit i of the offset is bit x_mask[i] of x XOR bit y_mask[i] of y.       *)
GetBlockOrderOffsetMutant(x, y, bo) ==
  MapThenSumSet(LAMBDA i : IF MaskedBit(bo.x_mask[i], x) # MaskedBit(bo.y_mask[i], x) THEN 2^(i - 1) ELSE 0,
                DOMAIN bo.x_mask)
GetBlockOrderOffset(x, y, bo) ==
  MapThenSumSet(LAMBDA i : IF MaskedBit(bo.x_mask[i], x) # MaskedBit(bo.y_mask[i], y)
                           THEN 2^(i - 1) ELSE 0,
                DOMAIN bo.x_mask)

HasMegaBlocks(pl) == pl.block_order.mega_block_width # 1 \/ pl.block_order.mega_block_height # 1

NeedsReorder(fmt) == \E i \in DOMAIN fmt.planes : HasMegaBlocks(fmt.planes[i])

MegaBlockBlocks(bo) == bo.mega_block_width * bo.mega_block_height

(* Bytes of one line of a mega block; the code asserts it divides exactly. *)
MegaLineStride(pl) == (pl.block_order.mega_block_width * pl.block_stride) \div 8
MegaLineIsWholeBytes(pl) == (pl.block_order.mega_block_width * pl.block_stride) % 8 = 0

WidthInMacroBlocks(pl) ==
  ((pl.line_stride * 8) \div pl.block_stride) \div pl.block_order.mega_block_width
HeightInMacroBlocks(pl) ==
  (pl.size \div pl.line_stride) \div pl.block_order.mega_block_height

(* The copies of the four nested loops, numbered in the order they happen. *)
Copies(pl) ==
  0 .. HeightInMacroBlocks(pl) * WidthInMacroBlocks(pl) * MegaBlockBlocks(pl.block_order) - 1

(* The block that copy n moves, as the loop counters at that point.        *)
CopyAt(pl, n) ==
  LET bo == pl.block_order
      nm == n \div MegaBlockBlocks(bo)
      in == n % MegaBlockBlocks(bo)
  IN  [block_x |-> nm % WidthInMacroBlocks(pl), block_y |-> nm \div WidthInMacroBlocks(pl),
       x |-> in % bo.mega_block_width, y |-> in \div bo.mega_block_width]

(* First bit, in the plane, of that block in linear and in blocked order.  *)
LinearBit(pl, n) ==
  LET c == CopyAt(pl, n)
      bo == pl.block_order
  IN  8 * (c.block_y * bo.mega_block_height + c.y) * pl.line_stride
        + (c.block_x * bo.mega_block_width + c.x) * pl.block_stride

BlockedBit(pl, n) ==
  LET c == CopyAt(pl, n)
      bo == pl.block_order
      offset == GetBlockOrderOffset(c.x, c.y, bo)
  IN  8 * (c.block_y * bo.mega_block_height * pl.line_stride
             + c.block_x * MegaLineStride(pl) * bo.mega_block_height
             + (offset \div bo.mega_block_width) * MegaLineStride(pl))
        + (offset % bo.mega_block_width) * pl.block_stride

(* buf after every copy n has moved the block_stride bits at from[n] of    *)
(* the plane to to[n] of the temporary, a later copy overwriting an        *)
(* earlier one, and the temporary has replaced the plane.  indet stands    *)
(* for a bit of uninitialised memory.                                      *)
MoveBlocks(buf, pl, from, to, indet) ==
  LET base == 8 * pl.base_offset
      Writers(d) == {n \in Copies(pl) : d - to[n] \in 0 .. pl.block_stride - 1}
      Moved(d) == IF Writers(d) = {} THEN indet
                  ELSE LET n == Max(Writers(d))
                           src == base + from[n] + d - to[n]
                       IN  IF src \in DOMAIN buf THEN buf[src] ELSE indet
  IN  [a \in DOMAIN buf |->
         IF a - base \in 0 .. 8 * pl.size - 1 THEN Moved(a - base) ELSE buf[a]]

LinearBits(pl)  == [n \in Copies(pl) |-> LinearBit(pl, n)]
BlockedBits(pl) == [n \in Copies(pl) |-> BlockedBit(pl, n)]

ReorderTransform(buf, pl, indet) ==
  IF HasMegaBlocks(pl) THEN MoveBlocks(buf, pl, LinearBits(pl), BlockedBits(pl), indet) ELSE buf

ReorderInverseForwards(buf, pl, indet) ==
  IF HasMegaBlocks(pl) THEN MoveBlocks(buf, pl, LinearBits(pl), BlockedBits(pl), indet) ELSE buf

ReorderInverse(buf, pl, indet) ==
  IF HasMegaBlocks(pl) THEN MoveBlocks(buf, pl, BlockedBits(pl), LinearBits(pl), indet) ELSE buf

(* A copy that runs over the end of the plane's temporary.                 *)
ReorderOverruns(pl) ==
  HasMegaBlocks(pl) /\ \E n \in Copies(pl) : BlockedBit(pl, n) + pl.block_stride > 8 * pl.size

=============================================================================
