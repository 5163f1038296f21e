---------------------------- MODULE LayoutProofs ----------------------------
(***************************************************************************)
(* Proofs about layouts: what validate_format's checks of blocks, samples, *)
(* lines and planes give the packer, for formats of every size.            *)
(***************************************************************************)
EXTENDS FormatValidator, FiniteSetTheorems, TLAPS

WellFormedPlane(pl) ==
  /\ pl.base_offset \in Nat /\ pl.size \in Nat /\ pl.line_stride \in Nat /\ pl.block_stride \in Nat
  /\ pl.interleave_mode \in InterleaveModes
WellFormed(fmt) ==
  /\ fmt.image_w \in Nat /\ fmt.image_h \in Nat
  /\ fmt.macro_px_w \in Nat \ {0} /\ fmt.macro_px_h \in Nat \ {0}
  /\ \A i \in DOMAIN fmt.planes : WellFormedPlane(fmt.planes[i])
  /\ \A c \in Channels : WellFormedBlock(fmt.channel_blocks[c], DOMAIN fmt.planes)

(* What the first four checks find out.                                    *)
Checked(fmt) ==
  /\ WellFormed(fmt) /\ Representable(fmt) /\ WholeMacroPixels(fmt)
  /\ ~ BlockOverflow(fmt) /\ ~ SampleOverlap(fmt) /\ ~ LineOverflow(fmt) /\ ~ PlaneOverflow(fmt)

-----------------------------------------------------------------------------
(* Lines: get_line permutes the lines of a plane, interleaved or not, for  *)
(* an even or an odd number of them.                                       *)
LEMMA GetLineInside ==
  ASSUME NEW h \in Nat, NEW l \in 0 .. h - 1, NEW mode \in InterleaveModes
  PROVE  GetLine(l, mode, h) \in 0 .. h - 1
<1>1. CASE mode = NO_INTERLEAVING
  BY <1>1 DEF GetLine
<1>2. CASE mode = INTERLEAVE_0_2_4__1_3_5
  BY <1>2 DEF GetLine, NO_INTERLEAVING, INTERLEAVE_0_2_4__1_3_5
<1>3. CASE mode = INTERLEAVE_1_3_5__0_2_4
  BY <1>3 DEF GetLine, NO_INTERLEAVING, INTERLEAVE_0_2_4__1_3_5, INTERLEAVE_1_3_5__0_2_4
<1> QED  BY <1>1, <1>2, <1>3 DEF InterleaveModes

LEMMA GetLineInjective ==
  ASSUME NEW h \in Nat, NEW l \in 0 .. h - 1, NEW m \in 0 .. h - 1, NEW mode \in InterleaveModes,
         GetLine(l, mode, h) = GetLine(m, mode, h)
  PROVE  l = m
<1>1. CASE mode = NO_INTERLEAVING
  BY <1>1 DEF GetLine
<1>2. CASE mode = INTERLEAVE_0_2_4__1_3_5
  BY <1>2 DEF GetLine, NO_INTERLEAVING, INTERLEAVE_0_2_4__1_3_5
<1>3. CASE mode = INTERLEAVE_1_3_5__0_2_4
  BY <1>3 DEF GetLine, NO_INTERLEAVING, INTERLEAVE_0_2_4__1_3_5, INTERLEAVE_1_3_5__0_2_4
<1> QED  BY <1>1, <1>2, <1>3 DEF InterleaveModes

(* Things of one length laid side by side end where the next begins.       *)
LEMMA StridesApart ==
  ASSUME NEW a \in Nat, NEW b \in Nat, NEW stride \in Nat, a < b
  PROVE  a * stride \in Nat /\ b * stride \in Nat /\ a * stride + stride <= b * stride
<1>1. (a + 1) * stride <= b * stride
  BY Z3
<1>2. (a + 1) * stride = a * stride + stride
  BY Z3
<1>3. a * stride \in Nat /\ b * stride \in Nat
  BY Z3
<1> QED  BY <1>1, <1>2, <1>3

(* The lines of a plane are inside it, from whichever end they count.      *)
LEMMA LineInside ==
  ASSUME NEW fmt, NEW pl, WellFormedPlane(pl), NEW n \in Nat, n * pl.line_stride <= pl.size, NEW l \in 0 .. n - 1
  PROVE  /\ LineBit(fmt, pl, l) \in Int
         /\ 8 * pl.base_offset <= LineBit(fmt, pl, l)
         /\ LineBit(fmt, pl, l) + 8 * pl.line_stride <= 8 * (pl.base_offset + pl.size)
<1> DEFINE s == pl.line_stride
           at == l * s
<1>1. s \in Nat /\ pl.base_offset \in Nat /\ pl.size \in Nat
  BY DEF WellFormedPlane
<1>2. at \in Nat /\ n * s \in Nat /\ at + s <= n * s
  <2>1. l \in Nat /\ l < n
    OBVIOUS
  <2> HIDE DEF s
  <2> QED  BY <1>1, <2>1, StridesApart DEF at
<1>3. at + s <= pl.size
  BY <1>1, <1>2
<1>4. LineBit(fmt, pl, l) =
        8 * (pl.base_offset + (IF fmt.origin = "lower_left" THEN pl.size - s - at ELSE at))
  BY DEF LineBit
<1> HIDE DEF at, s
<1>5. CASE fmt.origin = "lower_left"
  BY <1>1, <1>2, <1>3, <1>4, <1>5 DEF s
<1>6. CASE fmt.origin # "lower_left"
  BY <1>1, <1>2, <1>3, <1>4, <1>6 DEF s
<1> QED  BY <1>5, <1>6

(* Two lines share no bit.                                                 *)
LEMMA LinesApart ==
  ASSUME NEW fmt, NEW pl, WellFormedPlane(pl), NEW l \in Nat, NEW m \in Nat, l < m
  PROVE  \/ LineBit(fmt, pl, l) + 8 * pl.line_stride <= LineBit(fmt, pl, m)
         \/ LineBit(fmt, pl, m) + 8 * pl.line_stride <= LineBit(fmt, pl, l)
<1> DEFINE s == pl.line_stride
           lat == l * s
           mat == m * s
<1>1. s \in Nat /\ pl.base_offset \in Nat /\ pl.size \in Nat
  BY DEF WellFormedPlane
<1>2. lat \in Nat /\ mat \in Nat /\ lat + s <= mat
  BY <1>1, StridesApart
<1>3. /\ LineBit(fmt, pl, l) = 8 * (pl.base_offset + (IF fmt.origin = "lower_left" THEN pl.size - s - lat ELSE lat))
      /\ LineBit(fmt, pl, m) = 8 * (pl.base_offset + (IF fmt.origin = "lower_left" THEN pl.size - s - mat ELSE mat))
  BY DEF LineBit
<1> HIDE DEF lat, mat, s
<1>4. CASE fmt.origin = "lower_left"
  BY <1>1, <1>2, <1>3, <1>4 DEF s
<1>5. CASE fmt.origin # "lower_left"
  BY <1>1, <1>2, <1>3, <1>5 DEF s
<1> QED  BY <1>4, <1>5

-----------------------------------------------------------------------------
(* Counts: the blocks the loops of the packer visit are those the checks   *)
(* have counted.                                                           *)
LEMMA DividedUp ==
  ASSUME NEW a \in Nat, NEW m \in Nat \ {0}
  PROVE  a \div m \in Nat /\ CeilDiv(a, m) \in Nat /\ a \div m <= CeilDiv(a, m)
<1> DEFINE q == a \div m
           r == (a + m - 1) \div m
<1>1. q \in Nat /\ m * q <= a
  BY Z3
<1>2. r \in Int /\ a + m - 1 < m * r + m
  BY Z3
<1>3. CASE q <= r
  BY <1>1, <1>2, <1>3 DEF CeilDiv
<1>4. CASE q > r
  <2>1. m * q >= m * r + m
    BY <1>1, <1>2, <1>4, Z3
  <2> QED  BY <1>1, <1>2, <2>1
<1> QED  BY <1>1, <1>2, <1>3, <1>4

LEMMA WholeIsNotRounded ==
  ASSUME NEW a \in Nat, NEW m \in Nat \ {0}, a % m = 0
  PROVE  CeilDiv(a, m) = a \div m
<1> DEFINE q == a \div m
           r == (a + m - 1) \div m
<1>1. q \in Nat /\ a = m * q
  BY Z3
<1>2. r \in Int /\ m * r <= a + m - 1 /\ a + m - 1 < m * r + m
  BY Z3
<1>3. CASE q < r
  <2>1. m * q + m <= m * r
    BY <1>1, <1>2, <1>3, Z3
  <2> QED  BY <1>1, <1>2, <2>1
<1>4. CASE r < q
  <2>1. m * r + m <= m * q
    BY <1>1, <1>2, <1>4, Z3
  <2> QED  BY <1>1, <1>2, <2>1
<1> QED  BY <1>1, <1>2, <1>3, <1>4 DEF CeilDiv

LEMMA SurfacesAsChecked ==
  ASSUME NEW fmt, WellFormed(fmt), WholeMacroPixels(fmt), NEW c \in Channels
  PROVE  /\ SurfaceW(fmt, c) = CheckedW(fmt, c) /\ SurfaceH(fmt, c) = CheckedH(fmt, c)
         /\ CheckedW(fmt, c) \in Nat /\ CheckedH(fmt, c) \in Nat
<1>1. CASE c \in {ChannelU, ChannelV}
  BY <1>1, WholeIsNotRounded, DividedUp DEF SurfaceW, SurfaceH, CheckedW, CheckedH, WholeMacroPixels, WellFormed
<1>2. CASE c \notin {ChannelU, ChannelV}
  BY <1>2 DEF SurfaceW, SurfaceH, CheckedW, CheckedH, WellFormed
<1> QED  BY <1>1, <1>2

(* The products are those of the counts, and larger than the packer's.     *)
LEMMA PassedCheck ==
  ASSUME NEW a \in Nat, NEW b \in Nat, a <= b, NEW stride \in Nat, NEW limit \in Nat,
         b * stride < Word, ~ ((b * stride) % Word > limit)
  PROVE  a * stride <= limit
<1> DEFINE all == b * stride
<1>1. all \in Nat
  BY Z3
<1>2. a * stride \in Nat /\ a * stride <= all
  BY Z3
<1> HIDE DEF all
<1>3. all % Word = all
  BY <1>1, WordAssumption DEF all
<1>4. all <= limit
  BY <1>1, <1>3 DEF all
<1> QED  BY <1>1, <1>2, <1>4

LEMMA BlocksFit ==
  ASSUME NEW fmt, Checked(fmt), NEW c \in Channels, NEW i \in DOMAIN fmt.channel_blocks[c].samples,
         fmt.channel_blocks[c].samples # <<>>
  PROVE  LET pl == fmt.planes[fmt.channel_blocks[c].samples[i].plane]
         IN  /\ WellFormedPlane(pl)
             /\ NBlocksInLine(fmt, c) \in Nat /\ NBlockLines(fmt, c) \in Nat
             /\ NBlocksInLine(fmt, c) * pl.block_stride <= 8 * pl.line_stride
             /\ NBlockLines(fmt, c) * pl.line_stride <= pl.size
<1> DEFINE blk == fmt.channel_blocks[c]
           pl == fmt.planes[blk.samples[i].plane]
           across == NBlocksInLine(fmt, c)
           down == NBlockLines(fmt, c)
           wide == WidthInBlocks(fmt, c)
           high == HeightInBlocks(fmt, c)
<1>1. blk.w \in Nat \ {0} /\ blk.h \in Nat \ {0} /\ blk.samples[i].plane \in DOMAIN fmt.planes
  BY SMTT(40) DEF Checked, WellFormed, WellFormedBlock
<1>2. WellFormedPlane(pl) /\ pl \in PlanesUsed(fmt, c) /\ c \in Blocked(fmt)
  BY <1>1, SMTT(40) DEF Checked, WellFormed, PlanesUsed, Blocked
<1>3. pl.block_stride \in Nat /\ pl.line_stride \in Nat /\ pl.size \in Nat
  BY <1>2 DEF WellFormedPlane
<1>4. across \in Nat /\ wide \in Nat /\ across <= wide /\ down \in Nat /\ high \in Nat /\ down <= high
  <2>1. /\ SurfaceW(fmt, c) = CheckedW(fmt, c) /\ SurfaceH(fmt, c) = CheckedH(fmt, c)
        /\ CheckedW(fmt, c) \in Nat /\ CheckedH(fmt, c) \in Nat
    BY SurfacesAsChecked DEF Checked
  <2>2. /\ across = CheckedW(fmt, c) \div blk.w /\ wide = CeilDiv(CheckedW(fmt, c), blk.w)
        /\ down = CheckedH(fmt, c) \div blk.h /\ high = CeilDiv(CheckedH(fmt, c), blk.h)
    BY <2>1 DEF NBlocksInLine, NBlockLines, WidthInBlocks, HeightInBlocks
  <2> QED  BY <1>1, <2>1, <2>2, DividedUp
<1>5. /\ 8 * pl.line_stride < Word
      /\ wide * pl.block_stride < Word /\ ~ ((wide * pl.block_stride) % Word > (pl.line_stride * 8) % Word)
      /\ high * pl.line_stride < Word /\ ~ ((high * pl.line_stride) % Word > pl.size)
  BY <1>1, <1>2 DEF Checked, Representable, LineOverflow, PlaneOverflow
<1> HIDE DEF across, down, wide, high, pl, blk
<1>6. (pl.line_stride * 8) % Word = pl.line_stride * 8 /\ pl.line_stride * 8 \in Nat
  <2> DEFINE bits == pl.line_stride * 8
  <2>1. bits \in Nat /\ bits < Word
    BY <1>3, <1>5
  <2> HIDE DEF bits
  <2>2. bits % Word = bits
    BY <2>1, WordAssumption
  <2> QED  BY <2>1, <2>2 DEF bits
<1>7. across * pl.block_stride <= pl.line_stride * 8
  BY <1>3, <1>4, <1>5, <1>6, PassedCheck
<1>8. down * pl.line_stride <= pl.size
  BY <1>3, <1>4, <1>5, PassedCheck
<1>9. across * pl.block_stride <= 8 * pl.line_stride
  BY <1>3, <1>7
<1> QED  BY <1>2, <1>4, <1>8, <1>9 DEF across, down, pl, blk

-----------------------------------------------------------------------------
(* Places.                                                                 *)

PlaneOf(fmt, q) == fmt.planes[SampleOf(fmt, q).plane]
LineOf(fmt, q) == GetLine(q[2], PlaneOf(fmt, q).interleave_mode, NBlockLines(fmt, q[1]))

(* A place is a line of its plane, a block in that line and bits of that   *)
(* block.                                                                  *)
LEMMA PlaceInLine ==
  ASSUME NEW fmt, Checked(fmt), NEW q \in Places(fmt)
  PROVE  LET smp == SampleOf(fmt, q)
             pl == PlaneOf(fmt, q)
         IN  /\ q[1] \in Channels /\ q[4] \in DOMAIN fmt.channel_blocks[q[1]].samples
             /\ q = <<q[1], q[2], q[3], q[4]>>
             /\ smp.plane \in DOMAIN fmt.planes /\ WellFormedPlane(pl)
             /\ q[2] \in 0 .. NBlockLines(fmt, q[1]) - 1 /\ NBlockLines(fmt, q[1]) \in Nat
             /\ LineOf(fmt, q) \in 0 .. NBlockLines(fmt, q[1]) - 1
             /\ NBlockLines(fmt, q[1]) * pl.line_stride <= pl.size
             /\ q[3] \in Nat /\ q[3] * pl.block_stride \in Nat
             /\ q[3] * pl.block_stride + pl.block_stride <= 8 * pl.line_stride
             /\ smp.offset \in Nat /\ SampleBits(smp) \in Nat /\ smp.offset + SampleBits(smp) <= pl.block_stride
             /\ SampleBit(fmt, q[1], q[2], q[3], smp) = LineBit(fmt, pl, LineOf(fmt, q)) + q[3] * pl.block_stride + smp.offset
<1> DEFINE c == q[1]
           i == q[4]
           blk == fmt.channel_blocks[c]
           smp == SampleOf(fmt, q)
           pl == PlaneOf(fmt, q)
           across == NBlocksInLine(fmt, c)
           down == NBlockLines(fmt, c)
<1>1. /\ c \in Channels /\ blk.samples # <<>> /\ i \in DOMAIN blk.samples
      /\ q = <<q[1], q[2], q[3], q[4]>>
      /\ q[2] \in 0 .. down - 1 /\ q[3] \in 0 .. across - 1
  BY SMTT(40) DEF Places
<1>2. smp = blk.samples[i] /\ pl = fmt.planes[smp.plane]
  BY DEF SampleOf, PlaneOf
<1>3. /\ WellFormedPlane(pl) /\ across \in Nat /\ down \in Nat
      /\ across * pl.block_stride <= 8 * pl.line_stride
      /\ down * pl.line_stride <= pl.size
  BY <1>1, <1>2, BlocksFit
<1>4. smp.plane \in DOMAIN fmt.planes /\ smp.integer_bits \in Nat /\ smp.fractional_bits \in Nat /\ smp.offset \in Nat
  BY <1>1, <1>2 DEF Checked, WellFormed, WellFormedBlock
<1>5. SampleBits(smp) \in Nat
  BY <1>4 DEF SampleBits
<1>6. smp.offset + SampleBits(smp) <= pl.block_stride
  <2>1. <<c, i>> \in AllSamples(fmt) /\ SampleAt(fmt, <<c, i>>) = smp
    BY <1>1, <1>2, SMTT(40) DEF AllSamples, SampleAt
  <2>2. ~ (smp.offset + SampleBits(smp) > pl.block_stride)
    BY <1>2, <2>1 DEF Checked, BlockOverflow
  <2> QED  BY <1>3, <1>4, <1>5, <2>2 DEF WellFormedPlane
<1>7. LineOf(fmt, q) \in 0 .. down - 1
  BY <1>1, <1>3, GetLineInside DEF LineOf, WellFormedPlane
<1>8. /\ q[3] \in Nat /\ q[3] * pl.block_stride \in Nat
      /\ q[3] * pl.block_stride + pl.block_stride <= 8 * pl.line_stride
  <2> DEFINE b == q[3]
             stride == pl.block_stride
  <2>1. b \in Nat /\ b < across /\ stride \in Nat /\ pl.line_stride \in Nat
    BY <1>1, <1>3 DEF WellFormedPlane
  <2>2. across * stride <= 8 * pl.line_stride
    BY <1>3
  <2> HIDE DEF b, stride, across
  <2>3. b * stride \in Nat /\ across * stride \in Nat /\ b * stride + stride <= across * stride
    BY <1>3, <2>1, StridesApart
  <2>4. b * stride + stride <= 8 * pl.line_stride
    BY <2>1, <2>2, <2>3
  <2> QED  BY <2>1, <2>3, <2>4 DEF b, stride
<1>9. SampleBit(fmt, c, q[2], q[3], smp) = LineBit(fmt, pl, LineOf(fmt, q)) + q[3] * pl.block_stride + smp.offset
  BY <1>2 DEF SampleBit, LineOf
<1> QED  BY <1>1, <1>3, <1>4, <1>5, <1>6, <1>7, <1>8, <1>9

(* The bits of a place are inside its block of its line.                   *)
LEMMA PlaceBits ==
  ASSUME NEW fmt, Checked(fmt), NEW q \in Places(fmt), NEW a \in BitsAt(fmt, q)
  PROVE  LET smp == SampleOf(fmt, q)
             pl == PlaneOf(fmt, q)
             line == LineBit(fmt, pl, LineOf(fmt, q))
             block == line + q[3] * pl.block_stride
         IN  /\ a \in Int /\ line \in Int /\ block \in Int
             /\ 8 * pl.base_offset <= line /\ line + 8 * pl.line_stride <= 8 * (pl.base_offset + pl.size)
             /\ line <= block /\ block + pl.block_stride <= line + 8 * pl.line_stride
             /\ block <= a /\ a < block + pl.block_stride
             /\ a - block \in smp.offset .. smp.offset + SampleBits(smp) - 1
<1> DEFINE smp == SampleOf(fmt, q)
           pl == PlaneOf(fmt, q)
           l == LineOf(fmt, q)
           line == LineBit(fmt, pl, l)
           across == q[3] * pl.block_stride
           n == NBlockLines(fmt, q[1])
<1>1. /\ WellFormedPlane(pl) /\ l \in 0 .. n - 1 /\ n \in Nat /\ n * pl.line_stride <= pl.size
      /\ across \in Nat /\ across + pl.block_stride <= 8 * pl.line_stride
      /\ smp.offset \in Nat /\ SampleBits(smp) \in Nat /\ smp.offset + SampleBits(smp) <= pl.block_stride
      /\ SampleBit(fmt, q[1], q[2], q[3], smp) = line + across + smp.offset
  BY PlaceInLine
<1>2. /\ line \in Int
      /\ 8 * pl.base_offset <= line /\ line + 8 * pl.line_stride <= 8 * (pl.base_offset + pl.size)
  BY <1>1, LineInside
<1>3. a \in line + across + smp.offset .. line + across + smp.offset + SampleBits(smp) - 1
  BY <1>1 DEF BitsAt
<1>4. pl.base_offset \in Nat /\ pl.size \in Nat /\ pl.line_stride \in Nat /\ pl.block_stride \in Nat
  BY <1>1 DEF WellFormedPlane
<1> HIDE DEF smp, pl, l, line, across, n
<1>5. /\ a \in Int /\ line + across \in Int
      /\ line <= line + across /\ line + across + pl.block_stride <= line + 8 * pl.line_stride
      /\ line + across <= a /\ a < line + across + pl.block_stride
      /\ a - (line + across) \in smp.offset .. smp.offset + SampleBits(smp) - 1
  BY <1>1, <1>2, <1>3, <1>4
<1> QED  BY <1>2, <1>5 DEF smp, pl, l, line, across

(* Every place of a checked layout lies in its plane.                      *)
LEMMA CheckedPlacesInPlane ==
  ASSUME NEW fmt, Checked(fmt), NEW q \in Places(fmt)
  PROVE  BitsAt(fmt, q) \subseteq 8 * PlaneOf(fmt, q).base_offset
                                    .. 8 * (PlaneOf(fmt, q).base_offset + PlaneOf(fmt, q).size) - 1
<1> SUFFICES ASSUME NEW a \in BitsAt(fmt, q)
             PROVE  a \in 8 * PlaneOf(fmt, q).base_offset .. 8 * (PlaneOf(fmt, q).base_offset + PlaneOf(fmt, q).size) - 1
  OBVIOUS
<1> DEFINE pl == PlaneOf(fmt, q)
           line == LineBit(fmt, pl, LineOf(fmt, q))
           across == q[3] * pl.block_stride
<1>1. /\ a \in Int /\ line \in Int /\ line + across \in Int
      /\ 8 * pl.base_offset <= line /\ line + 8 * pl.line_stride <= 8 * (pl.base_offset + pl.size)
      /\ line <= line + across /\ line + across + pl.block_stride <= line + 8 * pl.line_stride
      /\ line + across <= a /\ a < line + across + pl.block_stride
  BY PlaceBits
<1>2. WellFormedPlane(pl)
  BY PlaceInLine
<1>3. pl.base_offset \in Nat /\ pl.size \in Nat /\ pl.line_stride \in Nat /\ pl.block_stride \in Nat
  BY <1>2 DEF WellFormedPlane
<1> DEFINE block == line + across
<1>4. block \in Int /\ line <= block /\ block + pl.block_stride <= line + 8 * pl.line_stride
      /\ block <= a /\ a < block + pl.block_stride
  BY <1>1
<1> HIDE DEF block, across, line
<1>5. 8 * pl.base_offset <= a /\ a < 8 * (pl.base_offset + pl.size)
  BY <1>1, <1>3, <1>4
<1> QED  BY <1>1, <1>3, <1>5

(* Two places that share a bit in one plane are in one line ...            *)
LEMMA SharedLine ==
  ASSUME NEW fmt, Checked(fmt), NEW q \in Places(fmt), NEW r \in Places(fmt),
         PlaneOf(fmt, q) = PlaneOf(fmt, r), NEW a \in BitsAt(fmt, q), a \in BitsAt(fmt, r)
  PROVE  LineOf(fmt, q) = LineOf(fmt, r)
<1> DEFINE pl == PlaneOf(fmt, q)
           l == LineOf(fmt, q)
           m == LineOf(fmt, r)
           s == 8 * pl.line_stride
           first == LineBit(fmt, pl, l)
           second == LineBit(fmt, pl, m)
<1>1. WellFormedPlane(pl) /\ l \in Nat /\ m \in Nat
  BY PlaceInLine
<1>2. s \in Nat /\ pl.block_stride \in Nat
  BY <1>1 DEF WellFormedPlane
<1>3. a \in Int /\ first \in Int /\ first <= a /\ a < first + s
  <2> DEFINE block == first + q[3] * pl.block_stride
  <2>1. /\ a \in Int /\ first \in Int /\ block \in Int
        /\ first <= block /\ block + pl.block_stride <= first + s /\ block <= a /\ a < block + pl.block_stride
    BY PlaceBits
  <2> HIDE DEF block, first, s
  <2> QED  BY <1>2, <2>1
<1>4. second \in Int /\ second <= a /\ a < second + s
  <2> DEFINE block == second + r[3] * pl.block_stride
  <2>1. /\ a \in Int /\ second \in Int /\ block \in Int
        /\ second <= block /\ block + pl.block_stride <= second + s /\ block <= a /\ a < block + pl.block_stride
    BY PlaceBits
  <2> HIDE DEF block, second, s
  <2> QED  BY <1>2, <2>1
<1>5. l < m => first + s <= second \/ second + s <= first
  BY <1>1, LinesApart
<1>6. m < l => first + s <= second \/ second + s <= first
  BY <1>1, LinesApart
<1> HIDE DEF first, second, s, l, m
<1>7. l = m
  BY <1>1, <1>2, <1>3, <1>4, <1>5, <1>6
<1> QED  BY <1>7 DEF l, m

(* ... and in one block ...                                                *)
LEMMA SharedBlock ==
  ASSUME NEW fmt, Checked(fmt), NEW q \in Places(fmt), NEW r \in Places(fmt),
         PlaneOf(fmt, q) = PlaneOf(fmt, r), NEW a \in BitsAt(fmt, q), a \in BitsAt(fmt, r)
  PROVE  q[3] = r[3]
<1> DEFINE pl == PlaneOf(fmt, q)
           s == pl.block_stride
           b == q[3]
           d == r[3]
           line == LineBit(fmt, pl, LineOf(fmt, q))
<1>1. WellFormedPlane(pl) /\ b \in Nat /\ d \in Nat
  BY PlaceInLine
<1>2. s \in Nat
  BY <1>1 DEF WellFormedPlane
<1>3. LineOf(fmt, q) = LineOf(fmt, r)
  BY SharedLine
<1>4. a \in Int /\ line \in Int /\ line + b * s <= a /\ a < line + b * s + s
  BY PlaceBits
<1>5. line + d * s <= a /\ a < line + d * s + s
  BY <1>3, PlaceBits
<1> HIDE DEF pl, s, b, d, line
<1>6. b * s \in Nat /\ d * s \in Nat
  BY <1>1, <1>2, Z3
<1>7. (b < d => b * s + s <= d * s) /\ (d < b => d * s + s <= b * s)
  BY <1>1, <1>2, StridesApart
<1> DEFINE x == b * s
           y == d * s
<1>8. /\ x \in Nat /\ y \in Nat /\ line + x <= a /\ a < line + x + s /\ line + y <= a /\ a < line + y + s
      /\ (b < d => x + s <= y) /\ (d < b => y + s <= x)
  BY <1>4, <1>5, <1>6, <1>7
<1> HIDE DEF x, y
<1>9. b = d
  BY <1>1, <1>2, <1>4, <1>8
<1> QED  BY <1>9 DEF b, d

(* ... and of one sample: they are the same.                               *)
LEMMA SharedPlace ==
  ASSUME NEW fmt, Checked(fmt), NEW q \in Places(fmt), NEW r \in Places(fmt),
         SampleOf(fmt, q).plane = SampleOf(fmt, r).plane, NEW a \in BitsAt(fmt, q), a \in BitsAt(fmt, r)
  PROVE  q = r
<1>1. PlaneOf(fmt, q) = PlaneOf(fmt, r)
  BY DEF PlaneOf
<1>2. LineOf(fmt, q) = LineOf(fmt, r) /\ q[3] = r[3]
  BY <1>1, SharedLine, SharedBlock
<1>3. /\ q = <<q[1], q[2], q[3], q[4]>> /\ r = <<r[1], r[2], r[3], r[4]>>
      /\ q[1] \in Channels /\ q[4] \in DOMAIN fmt.channel_blocks[q[1]].samples
      /\ r[1] \in Channels /\ r[4] \in DOMAIN fmt.channel_blocks[r[1]].samples
      /\ q[2] \in 0 .. NBlockLines(fmt, q[1]) - 1 /\ NBlockLines(fmt, q[1]) \in Nat
      /\ r[2] \in 0 .. NBlockLines(fmt, r[1]) - 1 /\ WellFormedPlane(PlaneOf(fmt, q))
  BY PlaceInLine
<1>4. q[1] = r[1] /\ q[4] = r[4]
  <2> DEFINE x == SampleOf(fmt, q)
             y == SampleOf(fmt, r)
             bit == a - (LineBit(fmt, PlaneOf(fmt, q), LineOf(fmt, q)) + q[3] * PlaneOf(fmt, q).block_stride)
  <2>1. bit \in x.offset .. x.offset + SampleBits(x) - 1
    BY PlaceBits
  <2>2. bit \in y.offset .. y.offset + SampleBits(y) - 1
    BY <1>1, <1>2, PlaceBits
  <2>3. <<q[1], q[4]>> \in AllSamples(fmt) /\ <<r[1], r[4]>> \in AllSamples(fmt)
    BY <1>3 DEF AllSamples
  <2>4. SampleAt(fmt, <<q[1], q[4]>>) = x /\ SampleAt(fmt, <<r[1], r[4]>>) = y
    BY DEF SampleAt, SampleOf
  <2> HIDE DEF bit, x, y
  <2>5. (x.offset .. x.offset + SampleBits(x) - 1) \cap (y.offset .. y.offset + SampleBits(y) - 1) # {}
    BY <2>1, <2>2
  <2>6. x.plane = y.plane
    BY DEF x, y
  <2>7. <<q[1], q[4]>> = <<r[1], r[4]>>
    BY <2>3, <2>4, <2>5, <2>6 DEF Checked, SampleOverlap
  <2> QED  BY <2>7
<1>5. q[2] = r[2]
  <2>1. GetLine(q[2], PlaneOf(fmt, q).interleave_mode, NBlockLines(fmt, q[1])) =
        GetLine(r[2], PlaneOf(fmt, q).interleave_mode, NBlockLines(fmt, q[1]))
    BY <1>1, <1>2, <1>4 DEF LineOf
  <2> QED  BY <1>3, <1>4, <2>1, GetLineInjective DEF WellFormedPlane
<1> QED  BY <1>2, <1>3, <1>4, <1>5

(* Planes that are apart have no bit in common.                            *)
LEMMA ApartPlanes ==
  ASSUME NEW p, NEW q, WellFormedPlane(p), WellFormedPlane(q), ~ PlanesOverlap(p, q)
  PROVE  (8 * p.base_offset .. 8 * (p.base_offset + p.size) - 1)
           \cap (8 * q.base_offset .. 8 * (q.base_offset + q.size) - 1) = {}
  BY DEF WellFormedPlane, PlanesOverlap

(* No two places of a checked layout share a bit, if its planes are apart. *)
LEMMA CheckedPlacesDisjoint ==
  ASSUME NEW fmt, Checked(fmt), DisjointPlanes(fmt)
  PROVE  PlacesDisjoint(fmt)
<1> SUFFICES ASSUME NEW q \in Places(fmt), NEW r \in Places(fmt), q # r,
                    NEW a \in BitsAt(fmt, q), a \in BitsAt(fmt, r)
             PROVE  FALSE
  BY DEF PlacesDisjoint
<1>1. CASE SampleOf(fmt, q).plane = SampleOf(fmt, r).plane
  BY <1>1, SharedPlace
<1>2. CASE SampleOf(fmt, q).plane # SampleOf(fmt, r).plane
  <2>1. /\ SampleOf(fmt, q).plane \in DOMAIN fmt.planes /\ WellFormedPlane(PlaneOf(fmt, q))
        /\ SampleOf(fmt, r).plane \in DOMAIN fmt.planes /\ WellFormedPlane(PlaneOf(fmt, r))
    BY PlaceInLine
  <2>2. ~ PlanesOverlap(PlaneOf(fmt, q), PlaneOf(fmt, r))
    BY <1>2, <2>1 DEF DisjointPlanes, PlaneOf
  <2>3. /\ a \in 8 * PlaneOf(fmt, q).base_offset .. 8 * (PlaneOf(fmt, q).base_offset + PlaneOf(fmt, q).size) - 1
        /\ a \in 8 * PlaneOf(fmt, r).base_offset .. 8 * (PlaneOf(fmt, r).base_offset + PlaneOf(fmt, r).size) - 1
    BY CheckedPlacesInPlane
  <2> QED  BY <2>1, <2>2, <2>3, ApartPlanes
<1> QED  BY <1>1, <1>2

(* What validate_format accepts has passed these checks.                   *)
LEMMA ValidIsChecked ==
  ASSUME NEW fmt, WellFormed(fmt), Representable(fmt), WholeMacroPixels(fmt), ValidateFormat(fmt) = "valid"
  PROVE  Checked(fmt)
  BY DEF Checked, ValidateFormat

(* An accepted format of whole macro pixels whose numbers do not wrap and  *)
(* whose planes are apart gives every sample of every block bits of its    *)
(* own, inside its plane, whatever its size: the checks of the validator   *)
(* are enough for the loops and addresses of the packer.                   *)
THEOREM AcceptedFormatsAreSound ==
  ASSUME NEW fmt, WellFormed(fmt), Representable(fmt), WholeMacroPixels(fmt), ValidateFormat(fmt) = "valid",
         \A i \in DOMAIN fmt.planes : fmt.planes[i].base_offset + fmt.planes[i].size <= fmt.size
  PROVE  PlacesInPlane(fmt) /\ (DisjointPlanes(fmt) => PlacesDisjoint(fmt))
<1>1. Checked(fmt)
  BY ValidIsChecked
<1>2. PlacesInPlane(fmt)
  BY <1>1, CheckedPlacesInPlane DEF PlacesInPlane, PlaneOf
<1> QED  BY <1>1, <1>2, CheckedPlacesDisjoint

-----------------------------------------------------------------------------
(* Numbers of two digits.                                                  *)

LEMMA Multiplies ==
  ASSUME NEW m \in Int, NEW n \in Int
  PROVE  m * n \in Int
  BY Z3

LEMMA TwoDigits ==
  ASSUME NEW q \in Nat \ {0}, NEW u \in Nat, NEW v \in 0 .. q - 1
  PROVE  /\ u * q \in Nat /\ u * q + v \in Nat
         /\ (u * q + v) \div q = u /\ (u * q + v) % q = v
<1>1. u * q \in Nat
  BY Z3
<1>2. (u * q + v) \div q = u
  BY <1>1, Z3
<1>3. (u * q + v) % q = v
  BY <1>1, <1>2, Z3
<1> QED  BY <1>1, <1>2, <1>3

LEMMA DigitsOf ==
  ASSUME NEW p \in Nat, NEW q \in Nat \ {0}, NEW a \in 0 .. p * q - 1
  PROVE  a \div q \in 0 .. p - 1 /\ a % q \in 0 .. q - 1 /\ a = (a \div q) * q + (a % q)
<1>1. a \in Nat /\ a < p * q
  BY Z3
<1>2. a \div q \in Nat /\ a % q \in 0 .. q - 1
  BY <1>1, Z3
<1>3. a = (a \div q) * q + (a % q)
  BY <1>1, Z3
<1> DEFINE d == a \div q
<1>4. d < p
  <2>1. d \in Nat /\ d * q <= a
    BY <1>1, <1>2, <1>3, Z3
  <2> HIDE DEF d
  <2>2. p <= d => p * q <= d * q
    BY <2>1, Z3
  <2>3. p * q \in Int /\ d * q \in Int
    BY <2>1, Z3
  <2> QED  BY <1>1, <2>1, <2>2, <2>3
<1> QED  BY <1>2, <1>3, <1>4

LEMMA FirstDigitDecides ==
  ASSUME NEW p \in Nat, NEW q \in Nat \ {0}, NEW u \in 0 .. p - 1, NEW v \in 0 .. q - 1
  PROVE  u * q + v \in 0 .. p * q - 1
<1>1. u * q \in Nat /\ u * q + q <= p * q
  BY StridesApart
<1>2. p * q \in Nat
  BY Z3
<1> QED  BY <1>1, <1>2

-----------------------------------------------------------------------------
(* Counting the bits of samples.                                           *)

BitSet(smps, from, to) == UNION {{i} \X (1 .. SampleBits(smps[i])) : i \in from .. to}

LEMMA BitsFinite ==
  ASSUME NEW smps, NEW from \in Int, NEW to \in Int, \A i \in from .. to : SampleBits(smps[i]) \in Nat
  PROVE  IsFiniteSet(BitSet(smps, from, to)) /\ BitsOfSamples(smps, from, to) \in Nat
<1> DEFINE S == {{i} \X (1 .. SampleBits(smps[i])) : i \in from .. to}
           f == [i \in from .. to |-> {i} \X (1 .. SampleBits(smps[i]))]
<1>1. f \in Surjection(from .. to, S)
  BY DEF Surjection
<1>2. IsFiniteSet(S)
  <2>1. IsFiniteSet(from .. to)
    BY FS_Interval
  <2> HIDE DEF S, f
  <2> QED  BY <1>1, <2>1, FS_Surjection
<1>3. \A T \in S : IsFiniteSet(T)
  <2> SUFFICES ASSUME NEW i \in from .. to
               PROVE  IsFiniteSet({i} \X (1 .. SampleBits(smps[i])))
    OBVIOUS
  <2>1. SampleBits(smps[i]) \in Int /\ 1 \in Int
    OBVIOUS
  <2>2. IsFiniteSet(1 .. SampleBits(smps[i])) /\ IsFiniteSet({i})
    BY <2>1, FS_Interval, FS_Singleton
  <2> QED  BY <2>2, FS_Product
<1>4. IsFiniteSet(UNION S)
  <2> HIDE DEF S
  <2> QED  BY <1>2, <1>3, FS_UNION
<1> QED  BY <1>4, FS_CardinalityType DEF BitSet, BitsOfSamples

LEMMA BitsOfOne ==
  ASSUME NEW smps, NEW i \in Int, SampleBits(smps[i]) \in Nat
  PROVE  BitsOfSamples(smps, i, i) = SampleBits(smps[i])
<1> DEFINE n == SampleBits(smps[i])
<1>1. BitSet(smps, i, i) = {i} \X (1 .. n)
  BY DEF BitSet
<1>2. IsFiniteSet({i}) /\ Cardinality({i}) = 1
  BY FS_Singleton
<1>3. IsFiniteSet(1 .. n) /\ Cardinality(1 .. n) = n
  BY FS_Interval
<1>4. Cardinality({i} \X (1 .. n)) = 1 * n
  <2>1. Cardinality({i} \X (1 .. n)) = Cardinality({i}) * Cardinality(1 .. n)
    BY <1>2, <1>3, FS_Product
  <2> QED  BY <1>2, <1>3, <2>1
<1> QED  BY <1>1, <1>4 DEF BitSet, BitsOfSamples

LEMMA BitsOfNone ==
  ASSUME NEW smps, NEW from \in Int, NEW to \in Int, to < from
  PROVE  BitsOfSamples(smps, from, to) = 0
<1>1. BitSet(smps, from, to) = {}
  BY DEF BitSet
<1> QED  BY <1>1, FS_EmptySet DEF BitSet, BitsOfSamples

LEMMA BitsAdd ==
  ASSUME NEW smps, NEW from \in Int, NEW to \in Int, NEW m \in from - 1 .. to,
         \A i \in from .. to : SampleBits(smps[i]) \in Nat
  PROVE  BitsOfSamples(smps, from, to) = BitsOfSamples(smps, from, m) + BitsOfSamples(smps, m + 1, to)
<1> DEFINE A == BitSet(smps, from, m)
           B == BitSet(smps, m + 1, to)
<1>1. IsFiniteSet(A) /\ IsFiniteSet(B)
  BY BitsFinite
<1>2. BitSet(smps, from, to) = A \cup B
  BY DEF BitSet
<1>3. A \cap B = {}
  BY DEF BitSet
<1>4. Cardinality(A) \in Nat /\ Cardinality(B) \in Nat
  BY <1>1, FS_CardinalityType
<1>5. Cardinality(A \cup B) = Cardinality(A) + Cardinality(B) - Cardinality(A \cap B)
  <2> HIDE DEF A, B
  <2> QED  BY <1>1, FS_Union
<1>6. Cardinality(A \cap B) = 0
  BY <1>3, FS_EmptySet
<1> HIDE DEF A, B
<1>7. Cardinality(A \cup B) = Cardinality(A) + Cardinality(B)
  BY <1>4, <1>5, <1>6
<1> QED  BY <1>2, <1>7 DEF BitSet, BitsOfSamples, A, B

-----------------------------------------------------------------------------
(* Block orders.                                                           *)

(* A plane that is a whole number of lines of whole mega blocks, in which  *)
(* every block of a mega block is sent to a place of its own.              *)
WholeMegaBlocks(pl) ==
  LET bo == pl.block_order
  IN  /\ bo.mega_block_width \in Nat \ {0} /\ bo.mega_block_height \in Nat \ {0}
      /\ pl.block_stride \in Nat \ {0} /\ MegaLineIsWholeBytes(pl)
      /\ WidthInMacroBlocks(pl) \in Nat /\ HeightInMacroBlocks(pl) \in Nat
      /\ 8 * pl.line_stride = WidthInMacroBlocks(pl) * bo.mega_block_width * pl.block_stride
      /\ pl.size = HeightInMacroBlocks(pl) * bo.mega_block_height * pl.line_stride
      /\ \A xy \in MegaCoords(bo) : OffsetAt(bo, xy) \in 0 .. MegaBlockBlocks(bo) - 1
      /\ \A xy, zw \in MegaCoords(bo) : OffsetAt(bo, xy) = OffsetAt(bo, zw) => xy = zw

(* The n-th block of w bits, from from[n] on, is one of those that size    *)
(* bits are cut into, and each of those once.                              *)
Tiles(C, from, w, size) ==
  /\ \A n \in C : from[n] \in Nat /\ from[n] + w <= size
  /\ \A d \in 0 .. size - 1 : \E n \in C : d - from[n] \in 0 .. w - 1
  /\ \A d \in Int : \A n, m \in C : d - from[n] \in 0 .. w - 1 /\ d - from[m] \in 0 .. w - 1 => n = m

LEMMA BlocksTile ==
  ASSUME NEW C, NEW N \in Nat, NEW w \in Nat \ {0}, NEW at \in [C -> 0 .. N - 1],
         \A n, m \in C : at[n] = at[m] => n = m,
         \A k \in 0 .. N - 1 : \E n \in C : at[n] = k,
         NEW from, \A n \in C : from[n] = at[n] * w
  PROVE  Tiles(C, from, w, N * w)
<1>1. ASSUME NEW n \in C
      PROVE  from[n] \in Nat /\ from[n] + w <= N * w
  <2>1. at[n] \in Nat /\ at[n] < N
    OBVIOUS
  <2> QED  BY <2>1, StridesApart
<1>2. ASSUME NEW d \in 0 .. N * w - 1
      PROVE  \E n \in C : d - from[n] \in 0 .. w - 1
  <2>1. d \div w \in 0 .. N - 1 /\ d % w \in 0 .. w - 1 /\ d = (d \div w) * w + (d % w)
    BY DigitsOf
  <2>2. PICK n \in C : at[n] = d \div w
    BY <2>1
  <2>3. from[n] \in Int /\ d - from[n] = d % w
    <3> DEFINE q == d \div w
               r == d % w
               p == q * w
    <3>1. d = p + r /\ r \in Int
      BY <2>1
    <3>2. from[n] = p
      BY <2>2
    <3>3. p \in Int
      BY <1>1, <3>2
    <3> HIDE DEF p, r
    <3> QED  BY <3>1, <3>2, <3>3 DEF r
  <2> QED  BY <2>1, <2>3
<1>3. ASSUME NEW d \in Int, NEW n \in C, NEW m \in C, d - from[n] \in 0 .. w - 1, d - from[m] \in 0 .. w - 1, n # m
      PROVE  FALSE
  <2>1. at[n] \in Nat /\ at[m] \in Nat /\ at[n] # at[m] /\ from[n] = at[n] * w /\ from[m] = at[m] * w
    BY <1>3
  <2>2. CASE at[n] < at[m]
    <3>1. from[n] \in Nat /\ from[m] \in Nat /\ from[n] + w <= from[m]
      BY <2>1, <2>2, StridesApart
    <3> QED  BY <1>3, <3>1
  <2>3. CASE at[m] < at[n]
    <3>1. from[n] \in Nat /\ from[m] \in Nat /\ from[m] + w <= from[n]
      BY <2>1, <2>3, StridesApart
    <3> QED  BY <1>3, <3>1
  <2> QED  BY <2>1, <2>2, <2>3
<1> QED  BY <1>1, <1>2, <1>3 DEF Tiles

(* The numbers of mega blocks across and down a plane, and of blocks       *)
(* across and down a mega block.                                           *)
Across(pl) == WidthInMacroBlocks(pl)
Down(pl)   == HeightInMacroBlocks(pl)
MegaW(pl)  == pl.block_order.mega_block_width
MegaH(pl)  == pl.block_order.mega_block_height

LEMMA MegaNumbers ==
  ASSUME NEW pl, WholeMegaBlocks(pl)
  PROVE  /\ Across(pl) \in Nat /\ Down(pl) \in Nat /\ MegaW(pl) \in Nat \ {0} /\ MegaH(pl) \in Nat \ {0}
         /\ Across(pl) * MegaW(pl) \in Nat /\ Down(pl) * MegaH(pl) \in Nat
         /\ MegaH(pl) * MegaW(pl) \in Nat \ {0} /\ MegaBlockBlocks(pl.block_order) = MegaH(pl) * MegaW(pl)
         /\ Down(pl) * Across(pl) \in Nat
         /\ Copies(pl) = 0 .. (Down(pl) * Across(pl)) * (MegaH(pl) * MegaW(pl)) - 1
<1> DEFINE A == Across(pl)
           D == Down(pl)
           w == MegaW(pl)
           h == MegaH(pl)
<1>1. A \in Nat /\ D \in Nat /\ w \in Nat \ {0} /\ h \in Nat \ {0}
  BY DEF WholeMegaBlocks, Across, Down, MegaW, MegaH
<1>2. MegaBlockBlocks(pl.block_order) = w * h /\ Copies(pl) = 0 .. D * A * (w * h) - 1
  BY DEF MegaBlockBlocks, Copies, Across, Down, MegaW, MegaH
<1> HIDE DEF A, D, w, h
<1>3. A * w \in Nat /\ D * h \in Nat /\ D * A \in Nat /\ h * w = w * h
  BY <1>1, Z3
<1>4. h * w \in Nat \ {0}
  BY <1>1, Z3
<1> QED  BY <1>1, <1>2, <1>3, <1>4 DEF A, D, w, h

(* Copies in order are blocks in order: mega blocks line by line, and line *)
(* by line in each of them.                                                *)
LEMMA CopyOfBlock ==
  ASSUME NEW pl, WholeMegaBlocks(pl), NEW Y \in 0 .. Down(pl) - 1, NEW X \in 0 .. Across(pl) - 1,
         NEW y \in 0 .. MegaH(pl) - 1, NEW x \in 0 .. MegaW(pl) - 1
  PROVE  LET n == (Y * Across(pl) + X) * (MegaH(pl) * MegaW(pl)) + (y * MegaW(pl) + x)
         IN  /\ n \in Copies(pl)
             /\ CopyAt(pl, n) = [block_x |-> X, block_y |-> Y, x |-> x, y |-> y]
<1> DEFINE A == Across(pl)
           D == Down(pl)
           w == MegaW(pl)
           h == MegaH(pl)
           big == Y * A + X
           small == y * w + x
           B == h * w
           n == big * B + small
<1>1. /\ A \in Nat \ {0} /\ D \in Nat /\ w \in Nat \ {0} /\ h \in Nat \ {0} /\ B \in Nat \ {0} /\ D * A \in Nat
      /\ MegaBlockBlocks(pl.block_order) = B /\ Copies(pl) = 0 .. (D * A) * B - 1
  <2>1. A \in Nat
    BY MegaNumbers
  <2>2. A \in Nat \ {0}
    BY <2>1
  <2> QED  BY <2>2, MegaNumbers
<1>2. CopyAt(pl, n) = [block_x |-> (n \div B) % A, block_y |-> (n \div B) \div A,
                       x |-> (n % B) % w, y |-> (n % B) \div w]
  BY <1>1 DEF CopyAt, Across, MegaW
<1>3. X \in 0 .. A - 1 /\ Y \in 0 .. D - 1 /\ x \in 0 .. w - 1 /\ y \in 0 .. h - 1 /\ Y \in Nat /\ y \in Nat
  BY <1>1
<1> HIDE DEF A, D, w, h
<1>4. big \in 0 .. D * A - 1 /\ big \div A = Y /\ big % A = X
  BY <1>1, <1>3, FirstDigitDecides, TwoDigits
<1>5. small \in 0 .. B - 1 /\ small \div w = y /\ small % w = x
  BY <1>1, <1>3, FirstDigitDecides, TwoDigits
<1> HIDE DEF big, small, B
<1>6. n \in 0 .. (D * A) * B - 1
  BY <1>1, <1>4, <1>5, FirstDigitDecides
<1>7. n \div B = big /\ n % B = small
  <2>1. big \in Nat
    BY <1>1, <1>4
  <2> QED  BY <1>1, <1>5, <2>1, TwoDigits
<1> QED  BY <1>1, <1>2, <1>4, <1>5, <1>6, <1>7 DEF A, D, w, h, big, small, B

LEMMA BlockOfCopy ==
  ASSUME NEW pl, WholeMegaBlocks(pl), NEW n \in Copies(pl)
  PROVE  LET c == CopyAt(pl, n)
         IN  /\ c.block_y \in 0 .. Down(pl) - 1 /\ c.block_x \in 0 .. Across(pl) - 1
             /\ c.y \in 0 .. MegaH(pl) - 1 /\ c.x \in 0 .. MegaW(pl) - 1
             /\ n = (c.block_y * Across(pl) + c.block_x) * (MegaH(pl) * MegaW(pl)) + (c.y * MegaW(pl) + c.x)
<1> DEFINE A == Across(pl)
           D == Down(pl)
           w == MegaW(pl)
           h == MegaH(pl)
           B == h * w
           big == n \div B
           small == n % B
<1>1. /\ A \in Nat /\ D \in Nat /\ w \in Nat \ {0} /\ h \in Nat \ {0} /\ B \in Nat \ {0} /\ D * A \in Nat
      /\ MegaBlockBlocks(pl.block_order) = B /\ n \in 0 .. (D * A) * B - 1
  BY MegaNumbers
<1>2. /\ CopyAt(pl, n).block_x = big % A /\ CopyAt(pl, n).block_y = big \div A
      /\ CopyAt(pl, n).x = small % w /\ CopyAt(pl, n).y = small \div w
  BY <1>1 DEF CopyAt, Across, MegaW
<1> HIDE DEF A, D, w, h
<1>3. big \in 0 .. D * A - 1 /\ small \in 0 .. B - 1 /\ n = big * B + small
  <2> HIDE DEF B
  <2> QED  BY <1>1, DigitsOf
<1>4. small \div w \in 0 .. h - 1 /\ small % w \in 0 .. w - 1 /\ small = (small \div w) * w + (small % w)
  <2> HIDE DEF small
  <2> QED  BY <1>1, <1>3, DigitsOf DEF B
<1>5. A \in Nat \ {0}
  <2> HIDE DEF big
  <2>1. A = 0 => D * A = 0
    BY <1>1
  <2> QED  BY <1>1, <1>3, <2>1
<1>6. big \div A \in 0 .. D - 1 /\ big % A \in 0 .. A - 1 /\ big = (big \div A) * A + (big % A)
  <2> HIDE DEF big
  <2> QED  BY <1>1, <1>3, <1>5, DigitsOf
<1> HIDE DEF big, small, B
<1> QED  BY <1>2, <1>3, <1>4, <1>6 DEF A, D, w, h, B


LEMMA CountFromZero ==
  ASSUME NEW n \in Nat
  PROVE  IsFiniteSet(0 .. n - 1) /\ Cardinality(0 .. n - 1) = n
<1>1. 0 \in Int /\ n - 1 \in Int
  OBVIOUS
<1>2. IsFiniteSet(0 .. n - 1) /\ Cardinality(0 .. n - 1) = IF 0 > n - 1 THEN 0 ELSE n - 1 - 0 + 1
  BY <1>1, FS_Interval
<1> QED  BY <1>2

(* Both orders cut the plane into the same blocks.                         *)
Blocks(pl) == (Down(pl) * Across(pl)) * (MegaH(pl) * MegaW(pl))

LEMMA PlaneOfBlocks ==
  ASSUME NEW pl, WholeMegaBlocks(pl), pl.line_stride \in Nat
  PROVE  /\ Blocks(pl) \in Nat /\ Blocks(pl) = (Down(pl) * MegaH(pl)) * (Across(pl) * MegaW(pl))
         /\ 8 * pl.size = Blocks(pl) * pl.block_stride
         /\ 8 * pl.line_stride = (Across(pl) * MegaW(pl)) * pl.block_stride
         /\ 8 * MegaLineStride(pl) = MegaW(pl) * pl.block_stride /\ MegaLineStride(pl) \in Nat
<1> DEFINE A == Across(pl)
           D == Down(pl)
           w == MegaW(pl)
           h == MegaH(pl)
           st == pl.block_stride
           ls == pl.line_stride
           m == w * st
<1>1. /\ A \in Nat /\ D \in Nat /\ w \in Nat \ {0} /\ h \in Nat \ {0} /\ st \in Nat \ {0} /\ ls \in Nat
      /\ 8 * ls = (A * w) * st /\ pl.size = (D * h) * ls /\ m % 8 = 0 /\ MegaLineStride(pl) = m \div 8
  BY MegaNumbers DEF WholeMegaBlocks, MegaLineIsWholeBytes, MegaLineStride, Across, Down, MegaW, MegaH
<1>2. Blocks(pl) = (D * A) * (h * w)
  BY DEF Blocks
<1> HIDE DEF A, D, w, h, st, ls
<1>3. (D * A) * (h * w) \in Nat /\ (D * A) * (h * w) = (D * h) * (A * w)
  BY <1>1, Z3
<1>4. m \in Nat
  BY <1>1, Z3
<1>5. 8 * (m \div 8) = m /\ m \div 8 \in Nat
  <2> HIDE DEF m
  <2> QED  BY <1>1, <1>4
<1>6. 8 * pl.size = ((D * h) * (A * w)) * st
  <2> DEFINE dh == D * h
             aw == A * w
  <2>1. dh \in Nat /\ aw \in Nat
    BY <1>1, Z3
  <2>2. 8 * ls = aw * st /\ pl.size = dh * ls
    BY <1>1
  <2> HIDE DEF dh, aw
  <2>3. 8 * (dh * ls) = dh * (8 * ls)
    BY <1>1, <2>1, Z3
  <2>4. dh * (aw * st) = (dh * aw) * st
    BY <1>1, <2>1, Z3
  <2> QED  BY <2>2, <2>3, <2>4 DEF dh, aw
<1> QED  BY <1>1, <1>2, <1>3, <1>5, <1>6 DEF A, D, w, h, st, ls, m

(* The block that copy n moves, in linear and in blocked order.            *)
LinearBlock(pl, n) ==
  LET c == CopyAt(pl, n)
  IN  (c.block_y * MegaH(pl) + c.y) * (Across(pl) * MegaW(pl)) + (c.block_x * MegaW(pl) + c.x)
BlockedBlock(pl, n) ==
  LET c == CopyAt(pl, n)
  IN  (c.block_y * Across(pl) + c.block_x) * (MegaH(pl) * MegaW(pl)) + OffsetAt(pl.block_order, <<c.x, c.y>>)

LEMMA LinearBitOfBlock ==
  ASSUME NEW pl, WholeMegaBlocks(pl), pl.line_stride \in Nat, NEW n \in Copies(pl)
  PROVE  LinearBit(pl, n) = LinearBlock(pl, n) * pl.block_stride
<1> DEFINE c == CopyAt(pl, n)
           row == c.block_y * MegaH(pl) + c.y
           col == c.block_x * MegaW(pl) + c.x
           aw == Across(pl) * MegaW(pl)
           st == pl.block_stride
           ls == pl.line_stride
<1>1. c.block_y \in Nat /\ c.block_x \in Nat /\ c.x \in Nat /\ c.y \in Nat
  BY BlockOfCopy
<1>2. aw \in Nat /\ MegaH(pl) \in Nat /\ MegaW(pl) \in Nat /\ st \in Nat
  BY MegaNumbers DEF WholeMegaBlocks
<1>3. row \in Nat /\ col \in Nat
  <2> DEFINE Y == c.block_y
             X == c.block_x
  <2>1. Y \in Nat /\ X \in Nat
    BY <1>1
  <2> HIDE DEF Y, X
  <2>2. Y * MegaH(pl) \in Nat /\ X * MegaW(pl) \in Nat
    BY <1>2, <2>1, Z3
  <2> QED  BY <1>1, <2>2 DEF Y, X
<1>4. 8 * ls = aw * st
  BY PlaneOfBlocks
<1>5. LinearBit(pl, n) = 8 * row * ls + col * st /\ LinearBlock(pl, n) = row * aw + col
  BY DEF LinearBit, LinearBlock, MegaH, MegaW
<1> HIDE DEF row, col, aw, st, ls
<1>6. ls \in Nat
  BY DEF ls
<1>7. 8 * row * ls = row * (8 * ls)
  BY <1>3, <1>6, Z3
<1>8. row * (aw * st) + col * st = (row * aw + col) * st
  BY <1>2, <1>3, Z3
<1> QED  BY <1>4, <1>5, <1>7, <1>8 DEF st

LEMMA BlockedBitOfBlock ==
  ASSUME NEW pl, WholeMegaBlocks(pl), pl.line_stride \in Nat, NEW n \in Copies(pl)
  PROVE  BlockedBit(pl, n) = BlockedBlock(pl, n) * pl.block_stride
<1> DEFINE c == CopyAt(pl, n)
           Y == c.block_y
           X == c.block_x
           A == Across(pl)
           w == MegaW(pl)
           h == MegaH(pl)
           st == pl.block_stride
           ls == pl.line_stride
           ml == MegaLineStride(pl)
           o == OffsetAt(pl.block_order, <<c.x, c.y>>)
           u == o \div w
           v == o % w
<1>1. Y \in Nat /\ X \in Nat
  BY BlockOfCopy
<1>2. A \in Nat /\ w \in Nat \ {0} /\ h \in Nat \ {0} /\ st \in Nat /\ ls \in Nat /\ ml \in Nat
  BY MegaNumbers, PlaneOfBlocks DEF WholeMegaBlocks
<1>3. o \in Nat
  <2>1. <<c.x, c.y>> \in MegaCoords(pl.block_order)
    BY BlockOfCopy DEF MegaCoords, MegaW, MegaH
  <2>2. o \in 0 .. MegaBlockBlocks(pl.block_order) - 1
    BY <2>1 DEF WholeMegaBlocks
  <2> QED  BY <2>2
<1>4. u \in Nat /\ v \in Nat /\ o = u * w + v
  <2> HIDE DEF o, w
  <2> QED  BY <1>2, <1>3, Z3
<1>5. 8 * ls = (A * w) * st /\ 8 * ml = w * st
  BY PlaneOfBlocks
<1>6. BlockedBit(pl, n) = 8 * (Y * h * ls + X * ml * h + u * ml) + v * st
  BY DEF BlockedBit, OffsetAt, MegaH, MegaW
<1>7. BlockedBlock(pl, n) = (Y * A + X) * (h * w) + o
  BY DEF BlockedBlock
<1> HIDE DEF Y, X, A, w, h, st, ls, ml, o, u, v
<1>8. 8 * (Y * h * ls + X * ml * h + u * ml) = Y * h * (8 * ls) + X * (8 * ml) * h + u * (8 * ml)
  BY <1>1, <1>2, <1>4, Z3
<1>9. Y * h * ((A * w) * st) + X * (w * st) * h + u * (w * st) + v * st = ((Y * A + X) * (h * w) + (u * w + v)) * st
  BY <1>1, <1>2, <1>4, Z3
<1> QED  BY <1>4, <1>5, <1>6, <1>7, <1>8, <1>9 DEF st


LEMMA SameCopy ==
  ASSUME NEW pl, WholeMegaBlocks(pl), NEW n \in Copies(pl), NEW m \in Copies(pl),
         CopyAt(pl, n).block_x = CopyAt(pl, m).block_x, CopyAt(pl, n).block_y = CopyAt(pl, m).block_y,
         CopyAt(pl, n).x = CopyAt(pl, m).x, CopyAt(pl, n).y = CopyAt(pl, m).y
  PROVE  n = m
  BY BlockOfCopy

LEMMA LinearBlocks ==
  ASSUME NEW pl, WholeMegaBlocks(pl), pl.line_stride \in Nat
  PROVE  /\ \A n \in Copies(pl) : LinearBlock(pl, n) \in 0 .. Blocks(pl) - 1
         /\ \A n, m \in Copies(pl) : LinearBlock(pl, n) = LinearBlock(pl, m) => n = m
         /\ \A k \in 0 .. Blocks(pl) - 1 : \E n \in Copies(pl) : LinearBlock(pl, n) = k
<1> DEFINE A == Across(pl)
           D == Down(pl)
           w == MegaW(pl)
           h == MegaH(pl)
           aw == A * w
           dh == D * h
           row(n) == CopyAt(pl, n).block_y * h + CopyAt(pl, n).y
           col(n) == CopyAt(pl, n).block_x * w + CopyAt(pl, n).x
<1>1. /\ A \in Nat /\ D \in Nat /\ w \in Nat \ {0} /\ h \in Nat \ {0} /\ aw \in Nat /\ dh \in Nat
      /\ Blocks(pl) = dh * aw
  BY MegaNumbers, PlaneOfBlocks
<1>2. ASSUME NEW n \in Copies(pl)
      PROVE  /\ row(n) \in 0 .. dh - 1 /\ col(n) \in 0 .. aw - 1 /\ row(n) \in Nat /\ col(n) \in Nat
             /\ row(n) \div h = CopyAt(pl, n).block_y /\ row(n) % h = CopyAt(pl, n).y
             /\ col(n) \div w = CopyAt(pl, n).block_x /\ col(n) % w = CopyAt(pl, n).x
  <2> DEFINE Y == CopyAt(pl, n).block_y
             X == CopyAt(pl, n).block_x
             y == CopyAt(pl, n).y
             x == CopyAt(pl, n).x
  <2>1. Y \in 0 .. D - 1 /\ X \in 0 .. A - 1 /\ y \in 0 .. h - 1 /\ x \in 0 .. w - 1 /\ Y \in Nat /\ X \in Nat
    BY BlockOfCopy
  <2> HIDE DEF Y, X, y, x, A, D, w, h
  <2>2. Y * h + y \in 0 .. D * h - 1 /\ X * w + x \in 0 .. A * w - 1
    BY <1>1, <2>1, FirstDigitDecides
  <2>3. (Y * h + y) \div h = Y /\ (Y * h + y) % h = y /\ Y * h + y \in Nat
    BY <1>1, <2>1, TwoDigits
  <2>4. (X * w + x) \div w = X /\ (X * w + x) % w = x /\ X * w + x \in Nat
    BY <1>1, <2>1, TwoDigits
  <2> QED  BY <2>2, <2>3, <2>4 DEF Y, X, y, x
<1>3. ASSUME NEW n \in Copies(pl)
      PROVE  LinearBlock(pl, n) = row(n) * aw + col(n)
  BY DEF LinearBlock
<1> HIDE DEF row, col, aw, dh
<1>4. \A n \in Copies(pl) : aw \in Nat \ {0}
  BY <1>1, <1>2
<1>5. ASSUME NEW n \in Copies(pl)
      PROVE  /\ LinearBlock(pl, n) \in 0 .. Blocks(pl) - 1
             /\ LinearBlock(pl, n) \div aw = row(n) /\ LinearBlock(pl, n) % aw = col(n)
  <2>1. row(n) * aw + col(n) \in 0 .. dh * aw - 1
    BY <1>1, <1>2, <1>4, FirstDigitDecides
  <2>2. (row(n) * aw + col(n)) \div aw = row(n) /\ (row(n) * aw + col(n)) % aw = col(n)
    BY <1>2, <1>4, TwoDigits, ZenonT(40)
  <2> QED  BY <1>1, <1>3, <2>1, <2>2
<1>6. ASSUME NEW n \in Copies(pl), NEW m \in Copies(pl), LinearBlock(pl, n) = LinearBlock(pl, m)
      PROVE  n = m
  <2>1. row(n) = row(m) /\ col(n) = col(m)
    BY <1>5, <1>6
  <2> QED  BY <1>2, <2>1, SameCopy
<1>7. ASSUME NEW k \in 0 .. Blocks(pl) - 1
      PROVE  \E n \in Copies(pl) : LinearBlock(pl, n) = k
  <2>1. aw \in Nat \ {0}
    <3>1. aw = 0 => dh * aw = 0
      BY <1>1
    <3> QED  BY <1>1, <3>1
  <2> DEFINE r == k \div aw
             cl == k % aw
  <2>2. r \in 0 .. dh - 1 /\ cl \in 0 .. aw - 1 /\ k = r * aw + cl
    BY <1>1, <2>1, DigitsOf
  <2> HIDE DEF r, cl
  <2> DEFINE Y == r \div h
             y == r % h
             X == cl \div w
             x == cl % w
  <2>3. Y \in 0 .. D - 1 /\ y \in 0 .. h - 1 /\ r = Y * h + y
    <3> HIDE DEF D, h
    <3> QED  BY <1>1, <2>2, DigitsOf DEF dh
  <2>4. X \in 0 .. A - 1 /\ x \in 0 .. w - 1 /\ cl = X * w + x
    <3> HIDE DEF A, w
    <3> QED  BY <1>1, <2>2, DigitsOf DEF aw
  <2> HIDE DEF X, Y, x, y
  <2> DEFINE n == (Y * A + X) * (h * w) + (y * w + x)
  <2>5. n \in Copies(pl) /\ CopyAt(pl, n) = [block_x |-> X, block_y |-> Y, x |-> x, y |-> y]
    BY <2>3, <2>4, CopyOfBlock
  <2> HIDE DEF n
  <2>6. row(n) = r /\ col(n) = cl
    BY <2>3, <2>4, <2>5 DEF row, col
  <2> QED  BY <1>3, <2>2, <2>5, <2>6
<1> QED  BY <1>5, <1>6, <1>7

LEMMA BlockedBlocks ==
  ASSUME NEW pl, WholeMegaBlocks(pl), pl.line_stride \in Nat
  PROVE  /\ \A n \in Copies(pl) : BlockedBlock(pl, n) \in 0 .. Blocks(pl) - 1
         /\ \A n, m \in Copies(pl) : BlockedBlock(pl, n) = BlockedBlock(pl, m) => n = m
         /\ \A k \in 0 .. Blocks(pl) - 1 : \E n \in Copies(pl) : BlockedBlock(pl, n) = k
<1> DEFINE A == Across(pl)
           D == Down(pl)
           w == MegaW(pl)
           h == MegaH(pl)
           bo == pl.block_order
           B == h * w
           da == D * A
           big(n) == CopyAt(pl, n).block_y * A + CopyAt(pl, n).block_x
           xy(n) == <<CopyAt(pl, n).x, CopyAt(pl, n).y>>
           off(n) == OffsetAt(bo, xy(n))
<1>1. /\ A \in Nat /\ D \in Nat /\ w \in Nat \ {0} /\ h \in Nat \ {0} /\ B \in Nat \ {0} /\ da \in Nat
      /\ Blocks(pl) = da * B /\ MegaBlockBlocks(bo) = B
  BY MegaNumbers DEF Blocks
<1>2. /\ MegaCoords(bo) = (0 .. w - 1) \X (0 .. h - 1)
      /\ \A p \in MegaCoords(bo) : OffsetAt(bo, p) \in 0 .. B - 1
      /\ \A p, q \in MegaCoords(bo) : OffsetAt(bo, p) = OffsetAt(bo, q) => p = q
  BY <1>1 DEF WholeMegaBlocks, MegaCoords, MegaW, MegaH
<1>3. ASSUME NEW n \in Copies(pl)
      PROVE  /\ big(n) \in 0 .. da - 1 /\ big(n) \in Nat /\ off(n) \in 0 .. B - 1 /\ xy(n) \in MegaCoords(bo)
             /\ big(n) \div A = CopyAt(pl, n).block_y /\ big(n) % A = CopyAt(pl, n).block_x
  <2> DEFINE Y == CopyAt(pl, n).block_y
             X == CopyAt(pl, n).block_x
  <2>1. /\ Y \in 0 .. D - 1 /\ X \in 0 .. A - 1 /\ Y \in Nat
        /\ CopyAt(pl, n).y \in 0 .. h - 1 /\ CopyAt(pl, n).x \in 0 .. w - 1
    BY BlockOfCopy
  <2>2. A \in Nat \ {0}
    BY <1>1, <2>1, SMTT(40)
  <2>3. xy(n) \in MegaCoords(bo)
    BY <1>2, <2>1
  <2>4. off(n) \in 0 .. B - 1
    BY <1>2, <2>3
  <2> HIDE DEF Y, X, A, D
  <2>5. Y * A + X \in 0 .. D * A - 1
    BY <1>1, <2>1, <2>2, FirstDigitDecides
  <2>6. (Y * A + X) \div A = Y /\ (Y * A + X) % A = X /\ Y * A + X \in Nat
    BY <1>1, <2>1, <2>2, TwoDigits
  <2> QED  BY <2>3, <2>4, <2>5, <2>6 DEF Y, X
<1>4. ASSUME NEW n \in Copies(pl)
      PROVE  BlockedBlock(pl, n) = big(n) * B + off(n)
  BY DEF BlockedBlock
<1> HIDE DEF big, xy, off, B, da
<1>5. ASSUME NEW n \in Copies(pl)
      PROVE  /\ BlockedBlock(pl, n) \in 0 .. Blocks(pl) - 1
             /\ BlockedBlock(pl, n) \div B = big(n) /\ BlockedBlock(pl, n) % B = off(n)
  <2>1. big(n) * B + off(n) \in 0 .. da * B - 1
    BY <1>1, <1>3, FirstDigitDecides
  <2>2. (big(n) * B + off(n)) \div B = big(n) /\ (big(n) * B + off(n)) % B = off(n)
    BY <1>1, <1>3, TwoDigits, ZenonT(40)
  <2> QED  BY <1>1, <1>4, <2>1, <2>2
<1>6. ASSUME NEW n \in Copies(pl), NEW m \in Copies(pl), BlockedBlock(pl, n) = BlockedBlock(pl, m)
      PROVE  n = m
  <2>1. big(n) = big(m) /\ off(n) = off(m)
    BY <1>5, <1>6
  <2>2. xy(n) = xy(m)
    BY <1>2, <1>3, <2>1 DEF off
  <2>3. CopyAt(pl, n).x = CopyAt(pl, m).x /\ CopyAt(pl, n).y = CopyAt(pl, m).y
    BY <2>2 DEF xy
  <2> QED  BY <1>3, <2>1, <2>3, SameCopy
<1>7. ASSUME NEW k \in 0 .. Blocks(pl) - 1
      PROVE  \E n \in Copies(pl) : BlockedBlock(pl, n) = k
  <2> DEFINE r == k \div B
             o == k % B
  <2>1. r \in 0 .. da - 1 /\ o \in 0 .. B - 1 /\ k = r * B + o
    <3>1. k \in 0 .. da * B - 1
      BY <1>1
    <3> QED  BY <1>1, <3>1, DigitsOf
  <2> HIDE DEF r, o
  <2>2. A \in Nat \ {0}
    <3>1. A = 0 => D * A = 0
      BY <1>1
    <3> QED  BY <1>1, <2>1, <3>1 DEF da
  <2> DEFINE Y == r \div A
             X == r % A
  <2>3. Y \in 0 .. D - 1 /\ X \in 0 .. A - 1 /\ r = Y * A + X
    <3> HIDE DEF A, D
    <3> QED  BY <1>1, <2>1, <2>2, DigitsOf DEF da
  <2>4. PICK p \in MegaCoords(bo) : OffsetAt(bo, p) = o
    <3> DEFINE f == [p \in MegaCoords(bo) |-> OffsetAt(bo, p)]
    <3>1. f \in Injection(MegaCoords(bo), 0 .. B - 1)
      BY <1>2 DEF Injection, IsInjective
    <3>2. IsFiniteSet(0 .. B - 1) /\ Cardinality(0 .. B - 1) = B
      BY <1>1, CountFromZero
    <3>3. IsFiniteSet(MegaCoords(bo)) /\ Cardinality(MegaCoords(bo)) = B
      <4>1. IsFiniteSet(0 .. w - 1) /\ Cardinality(0 .. w - 1) = w
        BY <1>1, CountFromZero
      <4>2. IsFiniteSet(0 .. h - 1) /\ Cardinality(0 .. h - 1) = h
        BY <1>1, CountFromZero
      <4>3. /\ IsFiniteSet((0 .. w - 1) \X (0 .. h - 1))
            /\ Cardinality((0 .. w - 1) \X (0 .. h - 1)) = Cardinality(0 .. w - 1) * Cardinality(0 .. h - 1)
        BY <4>1, <4>2, FS_Product
      <4>4. w * h = h * w
        BY <1>1, Z3
      <4> QED  BY <1>2, <4>1, <4>2, <4>3, <4>4 DEF B
    <3>4. f \in Surjection(MegaCoords(bo), 0 .. B - 1)
      <4> HIDE DEF f
      <4> QED  BY <3>1, <3>2, <3>3, FS_Injection
    <3> QED  BY <2>1, <3>4 DEF Surjection
  <2> DEFINE x == p[1]
             y == p[2]
  <2>5. x \in 0 .. w - 1 /\ y \in 0 .. h - 1 /\ p = <<x, y>>
    BY <1>2
  <2> HIDE DEF X, Y, x, y
  <2> DEFINE n == (Y * A + X) * (h * w) + (y * w + x)
  <2>6. n \in Copies(pl) /\ CopyAt(pl, n) = [block_x |-> X, block_y |-> Y, x |-> x, y |-> y]
    BY <2>3, <2>5, CopyOfBlock
  <2> HIDE DEF n
  <2>7. big(n) = r /\ off(n) = o
    BY <2>3, <2>4, <2>5, <2>6 DEF big, off, xy
  <2> QED  BY <1>4, <2>1, <2>6, <2>7
<1> QED  BY <1>5, <1>6, <1>7

(* Both cut the plane into blocks, so that moving the blocks of one to     *)
(* those of the other loses nothing and leaves nothing out.                *)
LEMMA OrdersTile ==
  ASSUME NEW pl, WholeMegaBlocks(pl), pl.line_stride \in Nat
  PROVE  /\ Tiles(Copies(pl), LinearBits(pl), pl.block_stride, 8 * pl.size)
         /\ Tiles(Copies(pl), BlockedBits(pl), pl.block_stride, 8 * pl.size)
<1>1. pl.block_stride \in Nat \ {0} /\ Blocks(pl) \in Nat /\ 8 * pl.size = Blocks(pl) * pl.block_stride
  BY PlaneOfBlocks DEF WholeMegaBlocks
<1>2. Tiles(Copies(pl), LinearBits(pl), pl.block_stride, 8 * pl.size)
  <2> DEFINE at == [n \in Copies(pl) |-> LinearBlock(pl, n)]
  <2>1. /\ at \in [Copies(pl) -> 0 .. Blocks(pl) - 1]
        /\ \A n, m \in Copies(pl) : at[n] = at[m] => n = m
        /\ \A k \in 0 .. Blocks(pl) - 1 : \E n \in Copies(pl) : at[n] = k
    BY LinearBlocks
  <2>2. \A n \in Copies(pl) : LinearBits(pl)[n] = at[n] * pl.block_stride
    BY LinearBitOfBlock DEF LinearBits
  <2> HIDE DEF at
  <2> QED  BY <1>1, <2>1, <2>2, BlocksTile
<1>3. Tiles(Copies(pl), BlockedBits(pl), pl.block_stride, 8 * pl.size)
  <2> DEFINE at == [n \in Copies(pl) |-> BlockedBlock(pl, n)]
  <2>1. /\ at \in [Copies(pl) -> 0 .. Blocks(pl) - 1]
        /\ \A n, m \in Copies(pl) : at[n] = at[m] => n = m
        /\ \A k \in 0 .. Blocks(pl) - 1 : \E n \in Copies(pl) : at[n] = k
    BY BlockedBlocks
  <2>2. \A n \in Copies(pl) : BlockedBits(pl)[n] = at[n] * pl.block_stride
    BY BlockedBitOfBlock DEF BlockedBits
  <2> HIDE DEF at
  <2> QED  BY <1>1, <2>1, <2>2, BlocksTile
<1> QED  BY <1>2, <1>3

=============================================================================
