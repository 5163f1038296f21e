---------------------------- MODULE FormatLayout ----------------------------
(***************************************************************************)
(* The memory layout a xyuv::format describes: planes of lines of blocks,  *)
(* and, per channel, the samples that make up one block.  A format is a    *)
(* record with the fields of xyuv::format that decide where a bit goes:    *)
(*                                                                         *)
(*   image_w, image_h  size of the image in pixels                         *)
(*   macro_px_w, macro_px_h  the subsampling of its chroma siting          *)
(*   origin            "upper_left" or "lower_left"                        *)
(*   size              bytes of the frame                                  *)
(*   planes            sequence of [base_offset, size, line_stride,        *)
(*                     block_stride, interleave_mode, block_order]         *)
(*   channel_blocks    the blocks of Y, U, V and A: [w, h, samples], each  *)
(*                     sample [plane, integer_bits, fractional_bits,       *)
(*                     offset, has_continuation]                           *)
(*                                                                         *)
(* Offsets and strides of blocks are in bits, those of lines and planes in *)
(* bytes.  Sequences count from 1 where the source's vectors count from 0, *)
(* so a sample's plane field is an index into planes counted from 1.       *)
(***************************************************************************)
EXTENDS Integers, Sequences, FiniteSets

ChannelY == 1
ChannelU == 2
ChannelV == 3
ChannelA == 4
Channels == ChannelY .. ChannelA

NO_INTERLEAVING         == 0
INTERLEAVE_1_3_5__0_2_4 == 1
INTERLEAVE_0_2_4__1_3_5 == 2
InterleaveModes == {NO_INTERLEAVING, INTERLEAVE_1_3_5__0_2_4, INTERLEAVE_0_2_4__1_3_5}

CeilDiv(a, b) == (a + b - 1) \div b

SampleBits(smp) == smp.integer_bits + smp.fractional_bits

(* The line of the plane that holds block line l of h. *)
GetLineMutant(l, mode, h) ==
  CASE mode = NO_INTERLEAVING -> l
    [] mode = INTERLEAVE_0_2_4__1_3_5 -> IF l % 2 = 1 THEN h \div 2 + l \div 2 ELSE l \div 2
    [] mode = INTERLEAVE_1_3_5__0_2_4 -> IF l % 2 = 1 THEN l \div 2 ELSE h \div 2 + l \div 2
GetLine(l, mode, h) ==
  CASE mode = NO_INTERLEAVING -> l
    [] mode = INTERLEAVE_0_2_4__1_3_5 ->
         IF l % 2 = 1 THEN (h + 1) \div 2 + l \div 2 ELSE l \div 2
    [] mode = INTERLEAVE_1_3_5__0_2_4 ->
         IF l % 2 = 1 THEN l \div 2 ELSE h \div 2 + l \div 2

(* Size of the surface of channel c: U and V are subsampled, rounding up.  *)
SurfaceW(fmt, c) ==
  IF c \in {ChannelU, ChannelV} THEN CeilDiv(fmt.image_w, fmt.macro_px_w) ELSE fmt.image_w
SurfaceH(fmt, c) ==
  IF c \in {ChannelU, ChannelV} THEN CeilDiv(fmt.image_h, fmt.macro_px_h) ELSE fmt.image_h

(* Whole blocks of channel c in a line of its surface, and lines of them.  *)
NBlocksInLine(fmt, c) == SurfaceW(fmt, c) \div fmt.channel_blocks[c].w
NBlockLines(fmt, c)   == SurfaceH(fmt, c) \div fmt.channel_blocks[c].h

(* First bit of line l of a plane.  With the origin in the lower left the  *)
(* lines go backwards from the end of the plane.                           *)
LineBitMutant(fmt, pl, l) ==
  8 * (pl.base_offset +
       (IF fmt.origin = "lower_left" THEN pl.size - l * pl.line_stride ELSE l * pl.line_stride))
LineBit(fmt, pl, l) ==
  8 * (pl.base_offset +
       (IF fmt.origin = "lower_left"
        THEN pl.size - pl.line_stride - l * pl.line_stride
        ELSE l * pl.line_stride))

(* First bit of sample smp of block b in block line l of channel c.        *)
SampleBit(fmt, c, l, b, smp) ==
  LET pl == fmt.planes[smp.plane]
  IN  LineBit(fmt, pl, GetLine(l, pl.interleave_mode, NBlockLines(fmt, c)))
        + b * pl.block_stride + smp.offset

(* The pixels of a block are its groups of samples: a sample and, while    *)
(* has_continuation is set, the samples that continue it.                  *)
GroupEnd(samples, g) ==
  CHOOSE e \in g .. Len(samples) :
    /\ ~ samples[e].has_continuation
    /\ \A i \in g .. e - 1 : samples[i].has_continuation

(* Bits of the samples from..to together: the sum that the descriptor of   *)
(* the group carries to to_unorm, counted bit by bit.                      *)
BitsOfSamples(samples, from, to) ==
  Cardinality(UNION {{i} \X (1 .. SampleBits(samples[i])) : i \in from .. to})

=============================================================================
