---------------------------- MODULE SmallFormats ----------------------------
(***************************************************************************)
(* Formats small enough to pack bit by bit, each built like one of         *)
(* formats/px_fmt or of the formats the tests build, with fewer bits per   *)
(* sample and fewer pixels.                                                *)
(***************************************************************************)
EXTENDS FormatLayout

Smp(p, offset, bits) ==
  [plane |-> p, integer_bits |-> bits, fractional_bits |-> 0, offset |-> offset, has_continuation |-> FALSE]
Continued(smp) == [smp EXCEPT !.has_continuation = TRUE]

Chan(w, h, samples) == [w |-> w, h |-> h, samples |-> samples]
NoChan == Chan(0, 0, <<>>)

NOT_SET == 32

(* A default block_order: one block, every mask NOT_USED. *)
Linear == [mega_block_width |-> 1, mega_block_height |-> 1, x_mask |-> <<>>, y_mask |-> <<>>]
Mega(w, h, x_mask, y_mask) ==
  [mega_block_width |-> w, mega_block_height |-> h, x_mask |-> x_mask, y_mask |-> y_mask]

Plane(base, size, line_stride, block_stride, mode, bo) ==
  [base_offset |-> base, size |-> size, line_stride |-> line_stride,
   block_stride |-> block_stride, interleave_mode |-> mode, block_order |-> bo]

Fmt(w, h, mw, mh, origin, size, planes, blocks) ==
  [image_w |-> w, image_h |-> h, macro_px_w |-> mw, macro_px_h |-> mh,
   origin |-> origin, size |-> size, planes |-> planes, channel_blocks |-> blocks]

One(p, offset, bits) == Chan(1, 1, <<Smp(p, offset, bits)>>)

(* Planar 4:2:0 as IYUV: three planes one after the other.                 *)
Planar420(origin) ==
  Fmt(4, 2, 2, 2, origin, 4,
      <<Plane(0, 2, 1, 2, 0, Linear), Plane(2, 1, 1, 2, 0, Linear), Plane(3, 1, 1, 2, 0, Linear)>>,
      <<One(1, 0, 2), One(2, 0, 2), One(3, 0, 2), NoChan>>)

(* Semi-planar as NV12, with the lines of the luma plane interleaved.      *)
SemiPlanar(mode) ==
  Fmt(2, 5, 2, 1, "upper_left", 10,
      <<Plane(0, 5, 1, 2, mode, Linear), Plane(5, 5, 1, 4, mode, Linear)>>,
      <<One(1, 0, 2), One(2, 0, 1), One(2, 2, 2), NoChan>>)

(* Packed 4:2:2 with blocks of two luma samples (as CLJR has four).        *)
Packed422 ==
  Fmt(4, 1, 2, 1, "upper_left", 2,
      <<Plane(0, 2, 2, 8, 0, Linear)>>,
      <<Chan(2, 1, <<Smp(1, 0, 2), Smp(1, 4, 2)>>), One(1, 2, 2), One(1, 6, 2), NoChan>>)

(* Samples split over two places of a block, and over two planes.          *)
Split(origin) ==
  Fmt(2, 2, 1, 1, origin, 4,
      <<Plane(0, 2, 1, 4, 0, Linear), Plane(2, 2, 1, 4, 2, Linear)>>,
      <<Chan(1, 1, <<Continued(Smp(1, 0, 1)), Continued(Smp(2, 1, 2)), Smp(1, 3, 1)>>),
        One(1, 1, 2), NoChan, One(2, 3, 1)>>)

(* Blocks of 2x2 pixels, each pixel a group of its own.                    *)
Blocks2x2 ==
  Fmt(4, 2, 1, 1, "upper_left", 2,
      <<Plane(0, 2, 2, 8, 0, Linear)>>,
      <<Chan(2, 2, <<Smp(1, 6, 1), Continued(Smp(1, 0, 1)), Smp(1, 4, 2), Smp(1, 1, 1), Smp(1, 2, 2)>>),
        NoChan, NoChan, NoChan>>)

(* Four blocks of a byte swapped inside each 2x2 mega block, as in the     *)
(* block reorder test; offset bit 0 is y bit 0 and bit 1 is x bit 0.       *)
Swizzled(w, size, line_stride) ==
  Fmt(w, 2, 1, 1, "upper_left", size,
      <<Plane(0, size, line_stride, 8, 0, Mega(2, 2, <<NOT_SET, 0>>, <<0, NOT_SET>>))>>,
      <<One(1, 1, 3), NoChan, NoChan, One(1, 5, 1)>>)

(* IMC2: the lines of U and V share the lines of a plane, left and right,  *)
(* so that the two planes overlap although no byte is in both.             *)
SideBySide ==
  Fmt(4, 2, 2, 1, "upper_left", 6,
      <<Plane(0, 2, 1, 2, 0, Linear), Plane(2, 3, 2, 4, 0, Linear), Plane(3, 3, 2, 4, 0, Linear)>>,
      <<One(1, 0, 2), One(3, 0, 2), One(2, 0, 2), NoChan>>)

-----------------------------------------------------------------------------
(* Layouts that do not come out even.                                      *)

(* Packed422 for an image that ends in the middle of a block.              *)
HalfABlock == [Packed422 EXCEPT !.image_w = 3, !.image_h = 2, !.size = 4, !.planes[1].size = 4]

(* Blocks of 2x2 pixels and an image of 3x3.                               *)
BrokenBlocks2x2 == [Blocks2x2 EXCEPT !.image_w = 3, !.image_h = 3, !.size = 4, !.planes[1].size = 4]

(* YV12 for an image of 3x3, with the lines of image_w/macro_px_w bytes    *)
(* that the shipped templates give its chroma planes.                      *)
OddYV12Frame ==
  Fmt(3, 3, 2, 2, "upper_left", 24,
      <<Plane(0, 16, 4, 8, 0, Linear), Plane(16, 4, 1, 8, 0, Linear), Plane(20, 4, 1, 8, 2, Linear)>>,
      <<One(1, 0, 2), One(2, 0, 2), One(3, 0, 2), NoChan>>)

(* Lines of two blocks and a byte that is in no mega block.                *)
StrayBytes == Swizzled(2, 6, 3)

(* The same with an order of 4x2 blocks that is not its own inverse.       *)
StrayBytesRotated ==
  Fmt(4, 2, 1, 1, "upper_left", 6,
      <<Plane(0, 6, 3, 4, 0, Mega(4, 2, <<1, NOT_SET, 0>>, <<NOT_SET, 0, NOT_SET>>))>>,
      <<One(1, 0, 2), NoChan, NoChan, NoChan>>)

(* Two reordered planes that share bytes, behind one that shares none.     *)
OverlapBehindFirst ==
  LET bo == Mega(2, 2, <<NOT_SET, 0>>, <<0, NOT_SET>>)
  IN  Fmt(2, 2, 1, 1, "upper_left", 7,
          <<Plane(0, 2, 1, 4, 0, Linear), Plane(2, 4, 2, 8, 0, bo), Plane(3, 4, 2, 8, 0, bo)>>,
          <<One(1, 0, 2), One(2, 0, 3), One(3, 4, 3), NoChan>>)

(* Mega blocks of two blocks of six bits.                                  *)
UnevenMegaLine ==
  Fmt(2, 1, 1, 1, "upper_left", 2,
      <<Plane(0, 2, 2, 6, 0, Mega(2, 1, <<0>>, <<NOT_SET>>))>>,
      <<One(1, 0, 2), NoChan, NoChan, NoChan>>)

=============================================================================
