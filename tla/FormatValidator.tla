--------------------------- MODULE FormatValidator --------------------------
(***************************************************************************)
(* validate_format: the checks every format goes through before a frame is *)
(* packed or read with it, in their order, and what a layout must satisfy  *)
(* for the packing to be right.                                            *)
(***************************************************************************)
EXTENDS BlockReorder, IntegerWidths

(* The samples of all channels, by channel and index.                      *)
AllSamples(fmt) == UNION {{c} \X DOMAIN fmt.channel_blocks[c].samples : c \in Channels}
SampleAt(fmt, ci) == fmt.channel_blocks[ci[1]].samples[ci[2]]

BlockOverflowMutant(fmt) ==
  \E ci \in AllSamples(fmt) : SampleAt(fmt, ci).offset > fmt.planes[SampleAt(fmt, ci).plane].block_stride

BlockOverflow(fmt) ==
  \E ci \in AllSamples(fmt) :
    LET smp == SampleAt(fmt, ci)
    IN  smp.offset + SampleBits(smp) > fmt.planes[smp.plane].block_stride

(* Two samples claim the same bit of the same block.                       *)
SampleOverlapMutant(fmt) ==
  \E ci, dj \in AllSamples(fmt) :
    LET a == SampleAt(fmt, ci)
        b == SampleAt(fmt, dj)
    IN  /\ ci[1] = dj[1] /\ ci # dj
        /\ a.plane = b.plane
        /\ (a.offset .. a.offset + SampleBits(a) - 1) \cap (b.offset .. b.offset + SampleBits(b) - 1) # {}

SampleOverlap(fmt) ==
  \E ci, dj \in AllSamples(fmt) :
    LET a == SampleAt(fmt, ci)
        b == SampleAt(fmt, dj)
    IN  /\ ci # dj
        /\ a.plane = b.plane
        /\ (a.offset .. a.offset + SampleBits(a) - 1) \cap (b.offset .. b.offset + SampleBits(b) - 1) # {}

(* Channels the line and plane checks look at.                             *)
Blocked(fmt) == {c \in Channels : fmt.channel_blocks[c].w # 0 /\ fmt.channel_blocks[c].h # 0}

(* Image size of a channel as these checks see it: rounded down.           *)
CheckedW(fmt, c) ==
  IF c \in {ChannelU, ChannelV} THEN fmt.image_w \div fmt.macro_px_w ELSE fmt.image_w
CheckedH(fmt, c) ==
  IF c \in {ChannelU, ChannelV} THEN fmt.image_h \div fmt.macro_px_h ELSE fmt.image_h

PlanesUsed(fmt, c) ==
  {fmt.planes[fmt.channel_blocks[c].samples[i].plane] : i \in DOMAIN fmt.channel_blocks[c].samples}

WidthInBlocks(fmt, c)  == CeilDiv(CheckedW(fmt, c), fmt.channel_blocks[c].w)
HeightInBlocks(fmt, c) == CeilDiv(CheckedH(fmt, c), fmt.channel_blocks[c].h)

LineOverflow(fmt) ==
  \E c \in Blocked(fmt) : \E pl \in PlanesUsed(fmt, c) :
    (WidthInBlocks(fmt, c) * pl.block_stride) % Word > (pl.line_stride * 8) % Word

PlaneOverflow(fmt) ==
  \E c \in Blocked(fmt) : \E pl \in PlanesUsed(fmt, c) :
    (HeightInBlocks(fmt, c) * pl.line_stride) % Word > pl.size

(* Only the first plane of each base_offset gets into the map, and every   *)
(* other one is compared with the lowest: prev stays where it starts.      *)
IllegalPlaneOverlap(fmt) ==
  LET n == Len(fmt.planes)
      InMap == {i \in 1 .. n : \A j \in 1 .. i - 1 : fmt.planes[j].base_offset # fmt.planes[i].base_offset}
      prev == CHOOSE i \in InMap : \A j \in InMap : fmt.planes[i].base_offset <= fmt.planes[j].base_offset
      Reordered(i) == \/ fmt.planes[i].block_order.mega_block_height > 1
                      \/ fmt.planes[i].block_order.mega_block_width > 1
  IN  \E i \in InMap \ {prev} :
        /\ (fmt.planes[prev].base_offset + fmt.planes[prev].size) % DWord > fmt.planes[i].base_offset
        /\ Reordered(i) \/ Reordered(prev)

(* The block positions of a mega block and the offsets they are sent to.   *)
MegaCoords(bo) == (0 .. bo.mega_block_width - 1) \X (0 .. bo.mega_block_height - 1)
OffsetAt(bo, xy) == GetBlockOrderOffset(xy[1], xy[2], bo)

(* check_block_order leaves at the first plane whose mega block is one     *)
(* block, and takes a sum of offsets that adds up for a bijection.         *)
BadBlockOrder(fmt) ==
  \E i \in DOMAIN fmt.planes :
    LET bo == fmt.planes[i].block_order
        size == MegaBlockBlocks(bo)
    IN  /\ \A j \in 1 .. i : MegaBlockBlocks(fmt.planes[j].block_order) # 1
        /\ \/ size >= Word
           \/ \E xy \in MegaCoords(bo) : OffsetAt(bo, xy) > size
           \/ MapThenSumSet(LAMBDA xy : OffsetAt(bo, xy), MegaCoords(bo)) # (size * (size - 1)) \div 2

(* The error thrown first, or "valid".                                     *)
ValidateFormat(fmt) ==
  CASE BlockOverflow(fmt) -> "block overflow"
    [] ~ BlockOverflow(fmt) /\ SampleOverlap(fmt) -> "overlapping samples"
    [] OTHER -> CASE LineOverflow(fmt) -> "line overflow"
                  [] ~ LineOverflow(fmt) /\ PlaneOverflow(fmt) -> "plane overflow"
                  [] OTHER -> CASE IllegalPlaneOverlap(fmt) -> "overlapping planes"
                                [] ~ IllegalPlaneOverlap(fmt) /\ BadBlockOrder(fmt) -> "block order"
                                [] OTHER -> "valid"

(* What the checks take for granted: no line or block of size zero is      *)
(* divided by, and samples name planes there are.                          *)
WellFormedBlock(blk, plane_indices) ==
  /\ blk.w \in Nat /\ blk.h \in Nat
  /\ blk.samples # <<>> => blk.w # 0 /\ blk.h # 0
  /\ \A i \in DOMAIN blk.samples :
       LET smp == blk.samples[i]
       IN  /\ smp.plane \in plane_indices
           /\ smp.integer_bits \in Nat /\ smp.fractional_bits \in Nat /\ smp.offset \in Nat

-----------------------------------------------------------------------------
(* What the packer needs of a layout.                                      *)

(* The places packed by the loops of encode_channel: <<c, line, b, i>>.    *)
Places(fmt) ==
  UNION {{c} \X (0 .. NBlockLines(fmt, c) - 1) \X (0 .. NBlocksInLine(fmt, c) - 1)
             \X DOMAIN fmt.channel_blocks[c].samples :
           c \in {d \in Channels : fmt.channel_blocks[d].samples # <<>>}}

SampleOf(fmt, q) == fmt.channel_blocks[q[1]].samples[q[4]]
BitsAt(fmt, q) ==
  LET first == SampleBit(fmt, q[1], q[2], q[3], SampleOf(fmt, q))
  IN  first .. first + SampleBits(SampleOf(fmt, q)) - 1

(* Every place lies inside its plane and the plane inside the frame.       *)
PlacesInPlane(fmt) ==
  /\ \A q \in Places(fmt) :
       LET pl == fmt.planes[SampleOf(fmt, q).plane]
       IN  BitsAt(fmt, q) \subseteq 8 * pl.base_offset .. 8 * (pl.base_offset + pl.size) - 1
  /\ \A i \in DOMAIN fmt.planes : fmt.planes[i].base_offset + fmt.planes[i].size <= fmt.size

(* No two places share a bit.                                              *)
PlacesDisjoint(fmt) ==
  \A q, r \in Places(fmt) : q # r => BitsAt(fmt, q) \cap BitsAt(fmt, r) = {}

PlanesOverlap(p, q) ==
  /\ p.base_offset < q.base_offset + q.size
  /\ q.base_offset < p.base_offset + p.size

(* The image is a whole number of macro pixels.                            *)
WholeMacroPixels(fmt) == fmt.image_w % fmt.macro_px_w = 0 /\ fmt.image_h % fmt.macro_px_h = 0

(* No product of the checks wraps.                                         *)
Representable(fmt) ==
  /\ \A i \in DOMAIN fmt.planes : 8 * fmt.planes[i].line_stride < Word
  /\ \A c \in Blocked(fmt) : \A pl \in PlanesUsed(fmt, c) :
       /\ WidthInBlocks(fmt, c) * pl.block_stride < Word
       /\ HeightInBlocks(fmt, c) * pl.line_stride < Word

DisjointPlanes(fmt) ==
  \A i, j \in DOMAIN fmt.planes : i # j => ~ PlanesOverlap(fmt.planes[i], fmt.planes[j])

=============================================================================
