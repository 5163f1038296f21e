-------------------------- MODULE PixelPackerProofs -------------------------
(***************************************************************************)
(* Proofs about the packer, for formats of every size: the two ways it     *)
(* counts blocks agree, it stays inside its surfaces and buffers, and it   *)
(* writes no bit twice.                                                    *)
(***************************************************************************)
EXTENDS PixelPacker, LayoutProofs, FiniteSetTheorems, SequenceTheorems, WellFoundedInduction

(* The samples among the first n that end a group: one for each pixel.     *)
EndsTo(smps, n) == {i \in 1 .. n : ~ smps[i].has_continuation}

(* A block of whole pixels, as many as it has room for.                    *)
WholePixels(blk) ==
  /\ blk.w \in Nat \ {0} /\ blk.h \in Nat \ {0}
  /\ Len(blk.samples) \in Nat \ {0} /\ DOMAIN blk.samples = 1 .. Len(blk.samples)
  /\ ~ blk.samples[Len(blk.samples)].has_continuation
  /\ Cardinality(EndsTo(blk.samples, Len(blk.samples))) = blk.w * blk.h

(* An image of whole blocks in every channel.                              *)
WholeBlocks(f) ==
  \A c \in Channels : f.channel_blocks[c].samples # <<>> =>
    /\ WholePixels(f.channel_blocks[c])
    /\ SurfaceW(f, c) \in Nat /\ SurfaceH(f, c) \in Nat
    /\ SurfaceW(f, c) % f.channel_blocks[c].w = 0

Positions == [ch : Channels, line : Nat, b : Nat, g : Nat]

(* p is a position of the packing loops.                                   *)
AtPixel(f, p) ==
  /\ p \in Positions
  /\ f.channel_blocks[p.ch].samples # <<>>
  /\ p.line < NBlockLines(f, p.ch) /\ p.b < NBlocksInLine(f, p.ch)
  /\ p.g \in DOMAIN f.channel_blocks[p.ch].samples

EndOf(f, p) == GroupEnd(f.channel_blocks[p.ch].samples, p.g)

(* The iterator i is at the pixel p.                                       *)
InStep(f, p, i) ==
  LET blk == f.channel_blocks[p.ch]
  IN  /\ i \in [block_x : Nat, block_y : Nat, x : 0 .. blk.w - 1, y : 0 .. blk.h - 1]
      /\ i.block_x = p.b * blk.w
      /\ i.block_y = p.line * blk.h
      /\ i.y * blk.w + i.x = Cardinality(EndsTo(blk.samples, p.g - 1))

-----------------------------------------------------------------------------
(* Groups and pixels.                                                      *)

LEMMA Least ==
  ASSUME NEW m \in Int, NEW n \in Int, NEW T, T \subseteq m .. n, T # {}
  PROVE  \E e \in T : \A d \in T : d >= e
<1> DEFINE U == {m .. d : d \in T}
<1>1. IsWellFoundedOn(StrictSubsetOrdering(m .. n), SUBSET (m .. n))
  <2>1. IsFiniteSet(m .. n)
    BY FS_Interval
  <2>2. FiniteSubsetsOf(m .. n) = SUBSET (m .. n)
    BY <2>1, FS_FiniteSubsetsOfFinite
  <2> QED  BY <2>2, FS_StrictSubsetOrderingWellFounded
<1>2. U \subseteq SUBSET (m .. n) /\ U # {}
  <2>1. ASSUME NEW d \in T
        PROVE  m .. d \subseteq m .. n
    BY <2>1
  <2>2. U # {}
    OBVIOUS
  <2> QED  BY <2>1, <2>2
<1>3. PICK u \in U : \A v \in U : ~ (<<v, u>> \in StrictSubsetOrdering(m .. n))
  <2> HIDE DEF U
  <2> QED  BY <1>1, <1>2, WFMin
<1>4. PICK e \in T : u = m .. e
  OBVIOUS
<1>5. ASSUME NEW d \in T, ~ (d >= e)
      PROVE  FALSE
  <2>1. (m .. d) \subseteq (m .. e) /\ e \in m .. e /\ e \notin m .. d
    BY <1>5
  <2>2. m .. d \in U
    BY <1>5
  <2>3. <<m .. d, m .. e>> \in StrictSubsetOrdering(m .. n)
    BY <1>2, <1>4, <2>1, <2>2 DEF StrictSubsetOrdering
  <2> QED  BY <1>3, <1>4, <2>2, <2>3
<1> QED  BY <1>5

(* Every sample belongs to a group that ends.                              *)
LEMMA GroupsEnd ==
  ASSUME NEW blk, WholePixels(blk), NEW g \in DOMAIN blk.samples
  PROVE  LET e == GroupEnd(blk.samples, g)
         IN  /\ e \in g .. Len(blk.samples) /\ ~ blk.samples[e].has_continuation
             /\ \A i \in g .. e - 1 : blk.samples[i].has_continuation
<1> DEFINE n == Len(blk.samples)
           T == {e \in g .. n : ~ blk.samples[e].has_continuation}
<1>1. n \in Nat /\ g \in 1 .. n /\ n \in T
  BY DEF WholePixels
<1>2. PICK e \in T : \A d \in T : d >= e
  <2>1. T \subseteq g .. n /\ T # {} /\ g \in Int /\ n \in Int
    BY <1>1
  <2> HIDE DEF T, n
  <2> QED  BY <2>1, Least
<1>3. \A i \in g .. e - 1 : blk.samples[i].has_continuation
  BY <1>1, <1>2
<1>4. \E d \in g .. n : /\ ~ blk.samples[d].has_continuation
                        /\ \A i \in g .. d - 1 : blk.samples[i].has_continuation
  BY <1>3
<1> QED  BY <1>4 DEF GroupEnd

LEMMA EndsFinite ==
  ASSUME NEW smps, NEW n \in Nat
  PROVE  IsFiniteSet(EndsTo(smps, n)) /\ Cardinality(EndsTo(smps, n)) \in Nat
<1>1. IsFiniteSet(1 .. n)
  BY FS_Interval
<1>2. EndsTo(smps, n) \in SUBSET (1 .. n)
  BY DEF EndsTo
<1> QED  BY <1>1, <1>2, FS_Subset, FS_CardinalityType

(* A group adds one pixel, and before the last group not all are there.    *)
LEMMA GroupIsOnePixel ==
  ASSUME NEW blk, WholePixels(blk), NEW g \in DOMAIN blk.samples
  PROVE  LET e == GroupEnd(blk.samples, g)
             before == Cardinality(EndsTo(blk.samples, g - 1))
         IN  /\ before \in Nat
             /\ Cardinality(EndsTo(blk.samples, e)) = before + 1
             /\ e < Len(blk.samples) => before + 1 < blk.w * blk.h
             /\ e = Len(blk.samples) => before + 1 = blk.w * blk.h
<1> DEFINE e == GroupEnd(blk.samples, g)
           n == Len(blk.samples)
           Ends(m) == EndsTo(blk.samples, m)
<1>1. /\ n \in Nat /\ g \in 1 .. n
      /\ e \in g .. n /\ ~ blk.samples[e].has_continuation
      /\ \A i \in g .. e - 1 : blk.samples[i].has_continuation
      /\ ~ blk.samples[n].has_continuation /\ Cardinality(Ends(n)) = blk.w * blk.h
  BY GroupsEnd DEF WholePixels
<1> HIDE DEF e, n
<1>2. Ends(e) = Ends(g - 1) \cup {e} /\ e \notin Ends(g - 1)
  BY <1>1 DEF EndsTo
<1>3. IsFiniteSet(Ends(g - 1)) /\ Cardinality(Ends(g - 1)) \in Nat
  BY <1>1, EndsFinite
<1>4. IsFiniteSet(Ends(n)) /\ Cardinality(Ends(n)) \in Nat
  BY <1>1, EndsFinite
<1> HIDE DEF Ends
<1>5. Cardinality(Ends(e)) = Cardinality(Ends(g - 1)) + 1
  BY <1>2, <1>3, FS_AddElement
<1>6. e < n => Cardinality(Ends(e)) < Cardinality(Ends(n))
  <2> SUFFICES ASSUME e < n
               PROVE  Cardinality(Ends(e)) < Cardinality(Ends(n))
    OBVIOUS
  <2>1. Ends(e) \in SUBSET Ends(n) /\ Ends(e) # Ends(n)
    <3>1. n \in Ends(n) /\ n \notin Ends(e)
      BY <1>1 DEF Ends, EndsTo
    <3>2. Ends(e) \subseteq Ends(n)
      BY <1>1 DEF Ends, EndsTo
    <3> QED  BY <3>1, <3>2
  <2>2. Cardinality(Ends(e)) <= Cardinality(Ends(n)) /\ Cardinality(Ends(e)) # Cardinality(Ends(n))
    BY <1>4, <2>1, FS_Subset
  <2> QED  BY <1>3, <1>4, <1>5, <2>2
<1>7. e = n => Cardinality(Ends(e)) = Cardinality(Ends(n))
  OBVIOUS
<1> QED  BY <1>1, <1>3, <1>5, <1>6, <1>7 DEF e, n, Ends

-----------------------------------------------------------------------------
(* The iterator.                                                           *)

(* Surfaces of whole blocks, counted.                                      *)
LEMMA BlocksCounted ==
  ASSUME NEW f, WholeBlocks(f), NEW c \in Channels, f.channel_blocks[c].samples # <<>>
  PROVE  LET blk == f.channel_blocks[c]
         IN  /\ blk.w \in Nat \ {0} /\ blk.h \in Nat \ {0}
             /\ NBlocksInLine(f, c) \in Nat /\ NBlocksInLine(f, c) * blk.w = SurfaceW(f, c)
             /\ NBlockLines(f, c) \in Nat /\ NBlockLines(f, c) * blk.h <= SurfaceH(f, c)
             /\ SurfaceW(f, c) \in Nat /\ SurfaceH(f, c) \in Nat
<1> DEFINE w == f.channel_blocks[c].w
           h == f.channel_blocks[c].h
           W == SurfaceW(f, c)
           H == SurfaceH(f, c)
<1>1. w \in Nat \ {0} /\ h \in Nat \ {0} /\ W \in Nat /\ H \in Nat /\ W % w = 0
  BY DEF WholeBlocks, WholePixels
<1>2. NBlocksInLine(f, c) = W \div w /\ NBlockLines(f, c) = H \div h
  BY DEF NBlocksInLine, NBlockLines
<1> HIDE DEF w, h, W, H
<1>3. W \div w \in Nat /\ (W \div w) * w = W
  BY <1>1, Z3
<1>4. H \div h \in Nat /\ (H \div h) * h <= H
  BY <1>1, Z3
<1> QED  BY <1>1, <1>2, <1>3, <1>4 DEF w, h, W, H

(* The last pixel of a block is in its corner, and no other is.            *)
LEMMA Corner ==
  ASSUME NEW w \in Nat \ {0}, NEW h \in Nat \ {0}, NEW x \in 0 .. w - 1, NEW y \in 0 .. h - 1
  PROVE  /\ y * w \in Nat
         /\ (y + 1) * w = y * w + w
         /\ y * w + x + 1 = w * h => x + 1 = w /\ y + 1 = h
         /\ x + 1 = w /\ y + 1 = h => y * w + x + 1 = w * h
<1>1. y * w \in Nat /\ (y + 1) * w = y * w + w /\ w * h \in Nat
  BY Z3
<1>2. y + 1 < h => (y + 1) * w + w <= w * h
  BY Z3
<1>3. y + 1 = h => (y + 1) * w = w * h
  BY Z3
<1> QED  BY <1>1, <1>2, <1>3

(* FirstFrom finds the start of the first channel at or after c that has   *)
(* anything in it, or nothing.                                             *)
LEMMA FirstFromVisits ==
  ASSUME NEW c \in 1 .. ChannelA + 1
  PROVE  \/ FirstFrom(c) = NoChannel /\ \A j \in c .. ChannelA : ~ Visits(j)
         \/ \E k \in c .. ChannelA :
              Visits(k) /\ FirstFrom(c) = AtChannel(k) /\ \A j \in c .. k - 1 : ~ Visits(j)
<1> DEFINE T == {k \in c .. ChannelA : Visits(k)}
<1>1. CASE T = {}
  BY <1>1 DEF FirstFrom
<1>2. CASE T # {}
  <2>1. PICK e \in T : \A d \in T : d >= e
    <3>1. T \subseteq c .. ChannelA /\ c \in Int /\ ChannelA \in Int
      BY DEF ChannelA
    <3> HIDE DEF T
    <3> QED  BY <1>2, <3>1, Least
  <2>2. e \in c .. ChannelA /\ Visits(e) /\ \A j \in c .. e - 1 : ~ Visits(j)
    BY <2>1 DEF ChannelA
  <2>3. \E k \in c .. ChannelA : Visits(k) /\ \A j \in c .. k - 1 : ~ Visits(j)
    BY <2>2
  <2> DEFINE first == CHOOSE k \in c .. ChannelA : Visits(k) /\ \A j \in c .. k - 1 : ~ Visits(j)
  <2>4. first \in c .. ChannelA /\ Visits(first) /\ \A j \in c .. first - 1 : ~ Visits(j)
    BY <2>3
  <2>5. FirstFrom(c) = AtChannel(first)
    BY <2>2 DEF FirstFrom
  <2> HIDE DEF first
  <2> QED  BY <2>4, <2>5
<1> QED  BY <1>1, <1>2

(* A fresh iterator is at the first pixel of a channel.                    *)
LEMMA StartsInStep ==
  ASSUME WholeBlocks(fmt), NEW c \in Channels, Visits(c)
  PROVE  AtPixel(fmt, AtChannel(c)) /\ InStep(fmt, AtChannel(c), IteratorStart)
<1> DEFINE blk == fmt.channel_blocks[c]
<1>1. /\ blk.samples # <<>> /\ NBlocksInLine(fmt, c) > 0 /\ NBlockLines(fmt, c) > 0
      /\ WholePixels(blk)
  BY DEF Visits, Samples, WholeBlocks
<1>2. AtPixel(fmt, AtChannel(c))
  BY <1>1 DEF AtPixel, AtChannel, WholePixels, Positions
<1>3. Cardinality(EndsTo(blk.samples, 0)) = 0
  <2>1. EndsTo(blk.samples, 0) = {}
    BY DEF EndsTo
  <2> QED  BY <2>1, FS_EmptySet
<1>4. InStep(fmt, AtChannel(c), IteratorStart)
  <2>1. blk.w \in Nat \ {0} /\ blk.h \in Nat \ {0} /\ 0 * blk.w = 0 /\ 0 * blk.h = 0
    BY <1>1 DEF WholePixels
  <2> QED  BY <1>3, <2>1 DEF InStep, AtChannel, IteratorStart
<1> QED  BY <1>2, <1>4

IsPos(p, c, line, b, g) == p \in Positions /\ p.ch = c /\ p.line = line /\ p.b = b /\ p.g = g

LEMMA Moved ==
  ASSUME NEW p \in Positions, NEW x \in Nat
  PROVE  /\ IsPos([p EXCEPT !.g = x], p.ch, p.line, p.b, x)
         /\ IsPos([p EXCEPT !.g = 1, !.b = x], p.ch, p.line, x, 1)
         /\ IsPos([AtChannel(p.ch) EXCEPT !.line = x], p.ch, x, 0, 1)
<1>1. IsPos([p EXCEPT !.g = x], p.ch, p.line, p.b, x)
  BY DEF IsPos, Positions
<1>2. IsPos([[p EXCEPT !.g = 1] EXCEPT !.b = x], p.ch, p.line, x, 1)
  <2>1. [p EXCEPT !.g = 1] \in Positions
    BY DEF Positions
  <2> QED  BY <2>1 DEF IsPos, Positions
<1>3. IsPos([AtChannel(p.ch) EXCEPT !.line = x], p.ch, x, 0, 1)
  <2>1. AtChannel(p.ch) \in Positions
    BY DEF AtChannel, Positions
  <2> QED  BY <2>1 DEF IsPos, Positions, AtChannel
<1> QED  BY <1>1, <1>2, <1>3

(* What NextPos does at the end of a group, of a block, of a line, and of  *)
(* a channel.                                                              *)
LEMMA NextPosIs ==
  ASSUME WholeBlocks(fmt), AtPixel(fmt, pos)
  PROVE  LET e == EndOf(fmt, pos)
             next == NextPos(e)
             n == Len(Samples(pos.ch))
         IN  /\ e \in pos.g .. n /\ n \in Nat /\ WholePixels(Block(pos.ch))
             /\ \/ e < n /\ IsPos(next, pos.ch, pos.line, pos.b, e + 1)
                \/ e = n /\ pos.b + 1 < NBlocksInLine(fmt, pos.ch) /\ IsPos(next, pos.ch, pos.line, pos.b + 1, 1)
                \/ /\ e = n /\ pos.b + 1 = NBlocksInLine(fmt, pos.ch)
                   /\ pos.line + 1 < NBlockLines(fmt, pos.ch)
                   /\ IsPos(next, pos.ch, pos.line + 1, 0, 1)
                \/ /\ e = n /\ pos.b + 1 = NBlocksInLine(fmt, pos.ch)
                   /\ pos.line + 1 = NBlockLines(fmt, pos.ch)
                   /\ next = NextChannel
<1> DEFINE e == EndOf(fmt, pos)
           n == Len(Samples(pos.ch))
           across == NBlocksInLine(fmt, pos.ch)
           down == NBlockLines(fmt, pos.ch)
<1>1. /\ pos.ch \in Channels /\ pos.line \in Nat /\ pos.b \in Nat /\ pos.line < down /\ pos.b < across
      /\ fmt.channel_blocks[pos.ch].samples # <<>> /\ pos.g \in DOMAIN fmt.channel_blocks[pos.ch].samples
  BY DEF AtPixel, Positions
<1>2. WholePixels(Block(pos.ch)) /\ across \in Nat /\ down \in Nat
  BY <1>1, BlocksCounted DEF WholeBlocks, Block
<1>3. e \in pos.g .. n /\ n \in Nat
  BY <1>1, <1>2, GroupsEnd DEF EndOf, Block, Samples, WholePixels
<1> HIDE DEF e, n, across, down
<1>4. pos \in Positions /\ e \in Nat /\ e + 1 \in Nat /\ pos.b + 1 \in Nat /\ pos.line + 1 \in Nat
  <2>1. pos.g \in Nat
    BY DEF AtPixel, Positions
  <2> QED  BY <1>1, <1>3, <2>1 DEF AtPixel
<1>5. CASE e < n
  <2>1. NextPos(e) = [pos EXCEPT !.g = e + 1]
    BY <1>3, <1>4, <1>5 DEF NextPos, n
  <2> QED  BY <1>2, <1>3, <1>4, <1>5, <2>1, Moved DEF e, n
<1>6. CASE e = n /\ pos.b + 1 < across
  <2>1. NextPos(e) = [pos EXCEPT !.g = 1, !.b = pos.b + 1]
    <3>1. ~ (e < Len(Samples(pos.ch))) /\ e = Len(Samples(pos.ch))
      BY <1>3, <1>6 DEF n
    <3>2. pos.b + 1 < NBlocksInLine(fmt, pos.ch) /\ ~ (pos.b + 1 >= NBlocksInLine(fmt, pos.ch))
      BY <1>1, <1>2, <1>6 DEF across
    <3> QED  BY <3>1, <3>2, Zenon DEF NextPos
  <2> QED  BY <1>2, <1>3, <1>4, <1>6, <2>1, Moved DEF e, n, across
<1>7. CASE e = n /\ pos.b + 1 >= across /\ pos.line + 1 < down
  <2>1. pos.b + 1 = across
    BY <1>1, <1>2, <1>7
  <2>2. NextPos(e) = [AtChannel(pos.ch) EXCEPT !.line = pos.line + 1]
    <3>1. ~ (e < Len(Samples(pos.ch))) /\ e = Len(Samples(pos.ch))
      BY <1>3, <1>7 DEF n
    <3>2. pos.b + 1 >= NBlocksInLine(fmt, pos.ch) /\ ~ (pos.b + 1 < NBlocksInLine(fmt, pos.ch))
      BY <1>1, <1>2, <1>7 DEF across
    <3>3. pos.line + 1 < NBlockLines(fmt, pos.ch)
      BY <1>7 DEF down
    <3> QED  BY <3>1, <3>2, <3>3, Zenon DEF NextPos
  <2> QED  BY <1>2, <1>3, <1>4, <1>7, <2>1, <2>2, Moved DEF e, n, across, down
<1>8. CASE e = n /\ pos.b + 1 >= across /\ ~ (pos.line + 1 < down)
  <2>1. NextPos(e) = NextChannel
    <3>1. ~ (e < Len(Samples(pos.ch)))
      BY <1>3, <1>8 DEF n
    <3>2. ~ (pos.b + 1 < NBlocksInLine(fmt, pos.ch))
      BY <1>1, <1>2, <1>8 DEF across
    <3>3. ~ (pos.line + 1 < NBlockLines(fmt, pos.ch))
      BY <1>8 DEF down
    <3> QED  BY <3>1, <3>2, <3>3, Zenon DEF NextPos
  <2>2. pos.b + 1 = across /\ pos.line + 1 = down
    BY <1>1, <1>2, <1>8
  <2> QED  BY <1>2, <1>3, <1>8, <2>1, <2>2 DEF e, n, across, down
<1>9. \/ e < n
      \/ e = n /\ pos.b + 1 < across
      \/ e = n /\ pos.b + 1 >= across /\ pos.line + 1 < down
      \/ e = n /\ pos.b + 1 >= across /\ ~ (pos.line + 1 < down)
  BY <1>1, <1>2, <1>3
<1> QED  BY <1>5, <1>6, <1>7, <1>8, <1>9

(* The position after a pixel is a pixel again, of this channel or the     *)
(* first one of a later channel, or there are no more.                     *)
LEMMA NextIsPixel ==
  ASSUME WholeBlocks(fmt), AtPixel(fmt, pos), NEW next, next = NextPos(EndOf(fmt, pos)), next # NoChannel
  PROVE  /\ AtPixel(fmt, next)
         /\ next.ch # pos.ch => InStep(fmt, next, IteratorStart)
<1> DEFINE e == EndOf(fmt, pos)
           n == Len(Samples(pos.ch))
<1>1. /\ pos.ch \in Channels /\ pos.line \in Nat /\ pos.b \in Nat /\ pos.g \in Nat
      /\ Samples(pos.ch) # <<>> /\ pos.g \in DOMAIN Samples(pos.ch)
      /\ pos.line < NBlockLines(fmt, pos.ch) /\ pos.b < NBlocksInLine(fmt, pos.ch)
  BY DEF AtPixel, Samples, Positions
<1>2. /\ e \in pos.g .. n /\ n \in Nat \ {0} /\ DOMAIN Samples(pos.ch) = 1 .. n
      /\ NBlockLines(fmt, pos.ch) \in Nat /\ NBlocksInLine(fmt, pos.ch) \in Nat
  BY <1>1, NextPosIs, BlocksCounted DEF WholePixels, Block, Samples
<1> HIDE DEF e, n
<1>3. CASE e < n /\ IsPos(next, pos.ch, pos.line, pos.b, e + 1)
  BY <1>1, <1>2, <1>3 DEF AtPixel, Samples, IsPos
<1>4. CASE pos.b + 1 < NBlocksInLine(fmt, pos.ch) /\ IsPos(next, pos.ch, pos.line, pos.b + 1, 1)
  BY <1>1, <1>2, <1>4 DEF AtPixel, Samples, IsPos
<1>5. CASE pos.line + 1 < NBlockLines(fmt, pos.ch) /\ IsPos(next, pos.ch, pos.line + 1, 0, 1)
  <2>1. 0 < NBlocksInLine(fmt, pos.ch)
    BY <1>1, <1>2
  <2> QED  BY <1>1, <1>2, <1>5, <2>1 DEF AtPixel, Samples, IsPos
<1>6. CASE next = NextChannel
  <2>1. pos.ch + 1 \in 1 .. ChannelA + 1
    BY <1>1 DEF Channels, ChannelY, ChannelA
  <2>2. PICK k \in pos.ch + 1 .. ChannelA : Visits(k) /\ next = AtChannel(k)
    BY <1>6, <2>1, FirstFromVisits DEF NextChannel
  <2>3. k \in Channels
    BY <1>1, <2>2 DEF Channels, ChannelY, ChannelA
  <2> QED  BY <2>2, <2>3, StartsInStep
<1>7. \/ e < n /\ IsPos(next, pos.ch, pos.line, pos.b, e + 1)
      \/ pos.b + 1 < NBlocksInLine(fmt, pos.ch) /\ IsPos(next, pos.ch, pos.line, pos.b + 1, 1)
      \/ pos.line + 1 < NBlockLines(fmt, pos.ch) /\ IsPos(next, pos.ch, pos.line + 1, 0, 1)
      \/ next = NextChannel
  BY NextPosIs DEF e, n
<1>8. next = NextChannel \/ next.ch = pos.ch
  BY <1>7 DEF IsPos
<1> QED  BY <1>3, <1>4, <1>5, <1>6, <1>7, <1>8

(* advance() takes the iterator from a pixel to the next one of the        *)
(* channel, though it looks at the surface and the loops at the counts.    *)
LEMMA AdvanceKeepsStep ==
  ASSUME WholeBlocks(fmt), AtPixel(fmt, pos), InStep(fmt, pos, it),
         NEW next, next = NextPos(EndOf(fmt, pos)), next.ch = pos.ch, next # NoChannel
  PROVE  InStep(fmt, next, Advance(pos.ch))
<1> DEFINE blk == Block(pos.ch)
           w == blk.w
           h == blk.h
           n == Len(blk.samples)
           e == EndOf(fmt, pos)
           across == NBlocksInLine(fmt, pos.ch)
           k == Cardinality(EndsTo(blk.samples, pos.g - 1))
<1>1. /\ pos.ch \in Channels /\ pos.line \in Nat /\ pos.b \in Nat /\ pos.g \in DOMAIN blk.samples
      /\ pos.b < across /\ blk.samples # <<>>
  BY DEF AtPixel, Positions, Block
<1>2. /\ WholePixels(blk) /\ w \in Nat \ {0} /\ h \in Nat \ {0}
      /\ across \in Nat /\ across * w = SurfaceW(fmt, pos.ch)
  BY <1>1, BlocksCounted DEF WholeBlocks, Block
<1>3. /\ it \in [block_x : Nat, block_y : Nat, x : 0 .. w - 1, y : 0 .. h - 1]
      /\ it.block_x = pos.b * w /\ it.block_y = pos.line * h /\ it.y * w + it.x = k
  BY DEF InStep, Block
<1>4. it.x \in 0 .. w - 1 /\ it.y \in 0 .. h - 1 /\ it.block_x \in Nat /\ it.block_y \in Nat
  BY <1>3
<1>5. /\ e = GroupEnd(blk.samples, pos.g)
      /\ k \in Nat /\ Cardinality(EndsTo(blk.samples, e)) = k + 1
      /\ e < n => k + 1 < w * h
      /\ e = n => k + 1 = w * h
  <2>1. e = GroupEnd(blk.samples, pos.g)
    BY DEF EndOf, Block
  <2> HIDE DEF e
  <2> QED  BY <1>1, <1>2, <2>1, GroupIsOnePixel
<1>6. /\ it.y * w \in Nat /\ (it.y + 1) * w = it.y * w + w
      /\ k + 1 = w * h <=> it.x + 1 = w /\ it.y + 1 = h
  <2> DEFINE x == it.x
             y == it.y
  <2>1. x \in 0 .. w - 1 /\ y \in 0 .. h - 1 /\ w \in Nat \ {0} /\ h \in Nat \ {0} /\ y * w + x = k
    BY <1>2, <1>3, <1>4
  <2> HIDE DEF x, y, w, h, k
  <2>2. /\ y * w \in Nat /\ (y + 1) * w = y * w + w
        /\ y * w + x + 1 = w * h => x + 1 = w /\ y + 1 = h
        /\ x + 1 = w /\ y + 1 = h => y * w + x + 1 = w * h
    BY <2>1, Corner
  <2>3. y * w + x + 1 = k + 1
    BY <2>1
  <2> QED  BY <2>2, <2>3 DEF x, y
<1>7. e \in pos.g .. n /\ n \in Nat
  BY NextPosIs DEF Block, Samples
<1>8. CASE e < n /\ IsPos(next, pos.ch, pos.line, pos.b, e + 1)
  <2>1. ~ (it.x + 1 = w /\ it.y + 1 = h)
    BY <1>5, <1>6, <1>8
  <2>2. Cardinality(EndsTo(blk.samples, next.g - 1)) = k + 1 /\ next.ch = pos.ch /\ next.line = pos.line /\ next.b = pos.b
    <3>1. next.g - 1 = e
      BY <1>7, <1>8 DEF IsPos
    <3> QED  BY <1>5, <1>8, <3>1 DEF IsPos
  <2>3. CASE it.x + 1 # w
    <3>1. Advance(pos.ch) = [it EXCEPT !.x = it.x + 1]
      BY <2>3 DEF Advance
    <3> DEFINE i == [it EXCEPT !.x = it.x + 1]
    <3>2. /\ i \in [block_x : Nat, block_y : Nat, x : 0 .. w - 1, y : 0 .. h - 1]
          /\ i.block_x = it.block_x /\ i.block_y = it.block_y /\ i.x = it.x + 1 /\ i.y = it.y
      BY <1>2, <1>3, <1>4, <2>3
    <3>3. i.y * w + i.x = k + 1
      BY <1>3, <1>4, <1>6, <3>2
    <3> HIDE DEF i
    <3>4. InStep(fmt, next, i)
      BY <1>3, <2>2, <3>2, <3>3 DEF InStep, Block
    <3> QED  BY <3>1, <3>4 DEF i
  <2>4. CASE it.x + 1 = w /\ it.y + 1 # h
    <3>1. Advance(pos.ch) = [it EXCEPT !.x = 0, !.y = it.y + 1]
      BY <2>4 DEF Advance
    <3> DEFINE i0 == [it EXCEPT !.x = 0]
               i == [i0 EXCEPT !.y = it.y + 1]
    <3>2. /\ i0 \in [block_x : Nat, block_y : Nat, x : 0 .. w - 1, y : 0 .. h - 1]
          /\ i0.block_x = it.block_x /\ i0.block_y = it.block_y /\ i0.x = 0 /\ i0.y = it.y
      BY <1>2, <1>3, <1>4
    <3> HIDE DEF i0
    <3>3. /\ i \in [block_x : Nat, block_y : Nat, x : 0 .. w - 1, y : 0 .. h - 1]
          /\ i.block_x = it.block_x /\ i.block_y = it.block_y /\ i.x = 0 /\ i.y = it.y + 1
      BY <1>2, <1>4, <2>4, <3>2
    <3>4. i.y * w + i.x = k + 1
      BY <1>3, <1>4, <1>6, <2>4, <3>3
    <3>5. Advance(pos.ch) = i
      BY <3>1 DEF i0
    <3> HIDE DEF i
    <3>6. InStep(fmt, next, i)
      BY <1>3, <2>2, <3>3, <3>4 DEF InStep, Block
    <3> QED  BY <3>5, <3>6
  <2> QED  BY <2>1, <2>3, <2>4
<1>9. /\ 0 * w + 0 = 0 /\ (pos.b + 1) * w = it.block_x + w /\ (pos.line + 1) * h = it.block_y + h
      /\ 0 * w = 0
      /\ pos.b + 1 < across => it.block_x + w < SurfaceW(fmt, pos.ch)
      /\ pos.b + 1 = across => it.block_x + w = SurfaceW(fmt, pos.ch)
  <2> DEFINE b == pos.b
             l == pos.line
             a == across
  <2>1. b \in Nat /\ l \in Nat /\ a \in Nat /\ w \in Nat \ {0} /\ h \in Nat \ {0}
    BY <1>1, <1>2
  <2> HIDE DEF b, l, a, w, h
  <2>2. (b + 1) * w = b * w + w /\ (l + 1) * h = l * h + h /\ 0 * w = 0
    BY <2>1, Z3
  <2>3. b + 1 < a => (b + 1) * w < a * w
    BY <2>1, Z3
  <2>4. it.block_x = b * w /\ it.block_y = l * h /\ a * w = SurfaceW(fmt, pos.ch)
    BY <1>2, <1>3 DEF b, l, a, w, h
  <2> QED  BY <2>1, <2>2, <2>3, <2>4 DEF b, l, a
<1>10. Cardinality(EndsTo(blk.samples, 0)) = 0
  <2>1. EndsTo(blk.samples, 0) = {}
    BY DEF EndsTo
  <2> QED  BY <2>1, FS_EmptySet
<1>11. CASE e = n /\ pos.b + 1 < across /\ IsPos(next, pos.ch, pos.line, pos.b + 1, 1)
  <2> DEFINE i0 == [IteratorStart EXCEPT !.block_x = it.block_x + w]
             i == [i0 EXCEPT !.block_y = it.block_y]
  <2>1. Advance(pos.ch) = i
    <3>1. it.x + 1 = w /\ it.y + 1 = h /\ it.block_x + w < SurfaceW(fmt, pos.ch)
      BY <1>5, <1>6, <1>9, <1>11
    <3> QED  BY <3>1, Zenon DEF Advance
  <2>2. /\ i0 \in [block_x : Nat, block_y : Nat, x : 0 .. w - 1, y : 0 .. h - 1]
        /\ i0.block_x = it.block_x + w /\ i0.x = 0 /\ i0.y = 0
    BY <1>2, <1>4 DEF IteratorStart
  <2> HIDE DEF i0
  <2>3. /\ i \in [block_x : Nat, block_y : Nat, x : 0 .. w - 1, y : 0 .. h - 1]
        /\ i.block_x = it.block_x + w /\ i.block_y = it.block_y /\ i.x = 0 /\ i.y = 0
    BY <1>4, <2>2
  <2> HIDE DEF i
  <2>4. /\ next.ch = pos.ch /\ next.g - 1 = 0
        /\ i.block_x = next.b * w /\ i.block_y = next.line * h /\ i.y * w + i.x = 0
    BY <1>3, <1>9, <1>11, <2>3 DEF IsPos
  <2> QED  BY <1>10, <2>1, <2>3, <2>4 DEF InStep, Block
<1>12. CASE e = n /\ pos.b + 1 = across /\ IsPos(next, pos.ch, pos.line + 1, 0, 1)
  <2> DEFINE i == [IteratorStart EXCEPT !.block_y = it.block_y + h]
  <2>1. Advance(pos.ch) = i
    <3>1. it.x + 1 = w /\ it.y + 1 = h /\ ~ (it.block_x + w < SurfaceW(fmt, pos.ch))
      BY <1>4, <1>5, <1>6, <1>9, <1>12
    <3> QED  BY <3>1, Zenon DEF Advance
  <2>2. /\ i \in [block_x : Nat, block_y : Nat, x : 0 .. w - 1, y : 0 .. h - 1]
        /\ i.block_x = 0 /\ i.block_y = it.block_y + h /\ i.x = 0 /\ i.y = 0
    BY <1>2, <1>4 DEF IteratorStart
  <2> HIDE DEF i
  <2>3. /\ next.ch = pos.ch /\ next.g - 1 = 0
        /\ i.block_x = next.b * w /\ i.block_y = next.line * h /\ i.y * w + i.x = 0
    BY <1>3, <1>9, <1>12, <2>2 DEF IsPos
  <2> QED  BY <1>10, <2>1, <2>2, <2>3 DEF InStep, Block
<1>13. CASE next = NextChannel
  <2>1. pos.ch + 1 \in 1 .. ChannelA + 1 /\ pos.ch \in Int
    BY <1>1 DEF Channels, ChannelY, ChannelA
  <2>2. PICK c \in pos.ch + 1 .. ChannelA : Visits(c) /\ next = AtChannel(c)
    BY <1>13, <2>1, FirstFromVisits DEF NextChannel
  <2>3. next.ch # pos.ch
    BY <2>1, <2>2 DEF AtChannel, ChannelA
  <2> QED  BY <2>3
<1> QED  BY <1>8, <1>11, <1>12, <1>13, NextPosIs DEF Block, Samples

-----------------------------------------------------------------------------
(* The loops and the iterator, in every state.                             *)

AtPixelInStep(f, p, i) == AtPixel(f, p) /\ InStep(f, p, i)

(* While a group is written the iterator is ahead of the loops, at the     *)
(* next pixel of the channel.                                              *)
Ahead(f, p, next, i) == AtPixel(f, p) /\ (next # NoChannel /\ next.ch = p.ch => InStep(f, next, i))

StepInv ==
  /\ fmt \in Formats
  /\ pc \in {"load", "write", "transform", "inverse", "read", "store", "done", "aborted"}
  /\ pc \in {"load", "read", "store"} => AtPixelInStep(fmt, pos, it)
  /\ pc = "write" => Ahead(fmt, pos, NextPos(EndOf(fmt, pos)), it) /\ s \in pos.g .. EndOf(fmt, pos)
  /\ pc = "inverse" /\ pos # NoChannel => AtPixelInStep(fmt, pos, it) /\ s = pos.g
  /\ pc = "read" => s \in pos.g .. EndOf(fmt, pos)
  /\ pc = "store" => s = EndOf(fmt, pos)

LEMMA FirstPixel ==
  ASSUME WholeBlocks(fmt), FirstFrom(ChannelY) # NoChannel
  PROVE  AtPixelInStep(fmt, FirstFrom(ChannelY), IteratorStart) /\ FirstFrom(ChannelY).g = 1
<1>1. PICK c \in ChannelY .. ChannelA : Visits(c) /\ FirstFrom(ChannelY) = AtChannel(c)
  <2>1. ChannelY \in 1 .. ChannelA + 1
    BY DEF ChannelY, ChannelA
  <2> QED  BY <2>1, FirstFromVisits
<1>2. c \in Channels
  BY DEF Channels
<1> QED  BY <1>1, <1>2, StartsInStep DEF AtPixelInStep, AtChannel

LEMMA EndOfGroup ==
  ASSUME WholeBlocks(fmt), AtPixel(fmt, pos)
  PROVE  LET smps == Samples(pos.ch)
             e == EndOf(fmt, pos)
         IN  /\ pos.ch \in Channels /\ pos.g \in Nat
             /\ e = GroupEnd(smps, pos.g) /\ e \in pos.g .. Len(smps) /\ e \in DOMAIN smps
             /\ ~ smps[e].has_continuation
             /\ \A i \in pos.g .. e - 1 : smps[i].has_continuation
<1> DEFINE blk == fmt.channel_blocks[pos.ch]
<1>1. pos.ch \in Channels /\ pos.g \in Nat /\ pos.g \in DOMAIN blk.samples /\ blk.samples # <<>>
  BY DEF AtPixel, Positions
<1>2. WholePixels(blk)
  BY <1>1 DEF WholeBlocks
<1>3. EndOf(fmt, pos) = GroupEnd(blk.samples, pos.g) /\ Samples(pos.ch) = blk.samples
  BY DEF EndOf, Samples
<1> HIDE DEF blk
<1>4. LET e == GroupEnd(blk.samples, pos.g)
      IN  /\ e \in pos.g .. Len(blk.samples) /\ ~ blk.samples[e].has_continuation
          /\ \A i \in pos.g .. e - 1 : blk.samples[i].has_continuation
  BY <1>1, <1>2, GroupsEnd
<1>5. DOMAIN blk.samples = 1 .. Len(blk.samples) /\ Len(blk.samples) \in Nat
  BY <1>2 DEF WholePixels
<1> QED  BY <1>1, <1>3, <1>4, <1>5

LEMMA StepInductive ==
  ASSUME \A f \in Formats : WholeBlocks(f), StepInv, [Next]_vars
  PROVE  StepInv'
<1>1. WholeBlocks(fmt) /\ fmt \in Formats
  BY DEF StepInv
<1>2. CASE LoadPixel
  <2>1. /\ pc = "load" /\ pc' = "write" /\ fmt' = fmt /\ pos' = pos
        /\ it' = Advance(pos.ch) /\ s' = EndOf(fmt, pos) /\ AtPixel(fmt, pos) /\ InStep(fmt, pos, it)
    BY <1>2, Zenon DEF LoadPixel, StepInv, AtPixelInStep, EndOf, Samples
  <2>2. s' \in pos.g .. EndOf(fmt, pos)
    BY <1>1, <2>1, EndOfGroup
  <2>3. Ahead(fmt, pos, NextPos(EndOf(fmt, pos)), it')
    BY <1>1, <2>1, AdvanceKeepsStep DEF Ahead
  <2>4. NextPos(EndOf(fmt, pos))' = NextPos(EndOf(fmt, pos))
    BY <2>1 DEF NextPos, NextChannel, FirstFrom, Visits, Samples
  <2> QED  BY <1>1, <2>1, <2>2, <2>3, <2>4 DEF StepInv
<1>3. CASE WriteSample
  <2> DEFINE next == NextPos(EndOf(fmt, pos))
  <2>1. /\ pc = "write" /\ fmt' = fmt /\ AtPixel(fmt, pos) /\ s \in pos.g .. EndOf(fmt, pos)
        /\ next # NoChannel /\ next.ch = pos.ch => InStep(fmt, next, it)
    BY <1>3 DEF WriteSample, StepInv, Ahead
  <2>2. CASE MoreToWrite /\ s' = s - 1 /\ UNCHANGED <<pc, pos, it>>
    <3>1. s' \in pos.g .. EndOf(fmt, pos)
      BY <1>1, <2>1, <2>2, EndOfGroup DEF MoreToWrite
    <3>2. NextPos(EndOf(fmt, pos))' = NextPos(EndOf(fmt, pos))
      BY <2>1, <2>2 DEF NextPos, NextChannel, FirstFrom, Visits, Samples
    <3> QED  BY <1>1, <2>1, <2>2, <3>1, <3>2 DEF StepInv, Ahead
  <2>3. CASE pos' = next /\ it' = IteratorFor(next, it) /\ pc' = IF next = NoChannel THEN "transform" ELSE "load"
    <3>1. CASE next = NoChannel
      BY <1>1, <2>1, <2>3, <3>1 DEF StepInv
    <3>2. CASE next # NoChannel
      <4>1. AtPixel(fmt, next) /\ (next.ch # pos.ch => InStep(fmt, next, IteratorStart))
        BY <1>1, <2>1, <3>2, NextIsPixel
      <4>2. InStep(fmt, next, it')
        BY <2>1, <2>3, <3>2, <4>1 DEF IteratorFor
      <4> QED  BY <1>1, <2>1, <2>3, <3>2, <4>1, <4>2 DEF StepInv, AtPixelInStep
    <3> QED  BY <3>1, <3>2
  <2>4. EndOf(fmt, pos) = GroupEnd(Samples(pos.ch), pos.g)
    BY DEF EndOf, Samples
  <2> QED  BY <1>3, <2>2, <2>3, <2>4 DEF WriteSample
<1>4. CASE TransformPlane
  BY <1>1, <1>4 DEF TransformPlane, StepInv
<1>5. CASE StartDecode
  <2>1. /\ fmt' = fmt /\ pos' = FirstFrom(ChannelY) /\ it' = IteratorStart /\ s' = 1
        /\ pc' \in {"inverse", "read", "done"} /\ (pc' = "read" => pos' # NoChannel)
    BY <1>5, Zenon DEF StartDecode
  <2>2. pos' # NoChannel => AtPixelInStep(fmt, pos', it') /\ s' = pos'.g
    BY <1>1, <2>1, FirstPixel
  <2>3. pos' # NoChannel => s' \in pos'.g .. EndOf(fmt, pos')
    <3>1. SUFFICES ASSUME pos' # NoChannel
                   PROVE  pos'.g \in pos'.g .. EndOf(fmt, pos')
      BY <2>2
    <3>2. AtPixel(fmt, pos')
      BY <2>2, <3>1 DEF AtPixelInStep
    <3>3. EndOf(fmt, pos') = GroupEnd(fmt.channel_blocks[pos'.ch].samples, pos'.g) /\ pos'.g \in Nat
      BY <3>2 DEF EndOf, AtPixel, Positions
    <3>4. WholePixels(fmt.channel_blocks[pos'.ch]) /\ pos'.g \in DOMAIN fmt.channel_blocks[pos'.ch].samples
      BY <1>1, <3>2 DEF WholeBlocks, AtPixel, Positions
    <3> QED  BY <3>3, <3>4, GroupsEnd
  <2>4. NoChannel' = NoChannel
    BY DEF NoChannel, AtChannel
  <2> QED  BY <1>1, <2>1, <2>2, <2>3, <2>4 DEF StepInv
<1>6. CASE InversePlane
  <2>1. /\ pc = "inverse" /\ fmt' = fmt /\ pos' = pos /\ it' = it /\ s' = s
        /\ pc' \in {"inverse", "read", "done"} /\ (pc' = "read" => pos # NoChannel)
    BY <1>6, Zenon DEF InversePlane
  <2>2. pos # NoChannel => AtPixelInStep(fmt, pos, it) /\ s = pos.g
    BY <2>1 DEF StepInv
  <2>3. pos # NoChannel => s \in pos.g .. EndOf(fmt, pos)
    BY <1>1, <2>2, EndOfGroup DEF AtPixelInStep
  <2>4. NoChannel' = NoChannel
    BY DEF NoChannel, AtChannel
  <2> QED  BY <1>1, <2>1, <2>2, <2>3, <2>4 DEF StepInv
<1>7. CASE ReadSample
  <2>1. /\ pc = "read" /\ fmt' = fmt /\ pos' = pos /\ it' = it
        /\ AtPixelInStep(fmt, pos, it) /\ s \in pos.g .. EndOf(fmt, pos)
    BY <1>7 DEF ReadSample, StepInv
  <2>2. CASE Samples(pos.ch)[s].has_continuation /\ s' = s + 1 /\ pc' = pc
    <3>1. s # EndOf(fmt, pos)
      BY <1>1, <2>1, <2>2, EndOfGroup DEF AtPixelInStep
    <3>2. s' \in pos.g .. EndOf(fmt, pos)
      BY <1>1, <2>1, <2>2, <3>1, EndOfGroup DEF AtPixelInStep
    <3> QED  BY <1>1, <2>1, <2>2, <3>2 DEF StepInv
  <2>3. CASE ~ Samples(pos.ch)[s].has_continuation /\ pc' = "store" /\ s' = s
    <3>1. s = EndOf(fmt, pos)
      <4>1. ~ (s \in pos.g .. EndOf(fmt, pos) - 1)
        BY <1>1, <2>1, <2>3, EndOfGroup DEF AtPixelInStep
      <4>2. EndOf(fmt, pos) \in Int /\ pos.g \in Int
        BY <1>1, <2>1, EndOfGroup DEF AtPixelInStep
      <4> QED  BY <2>1, <4>1, <4>2
    <3> QED  BY <1>1, <2>1, <2>3, <3>1 DEF StepInv
  <2> QED  BY <1>7, <2>2, <2>3 DEF ReadSample
<1>8. CASE StorePixel
  <2> DEFINE next == NextPos(s)
  <2>1. /\ pc = "store" /\ fmt' = fmt /\ AtPixel(fmt, pos) /\ InStep(fmt, pos, it) /\ s = EndOf(fmt, pos)
        /\ pos' = next /\ s' = next.g /\ it' = IteratorFor(next, Advance(pos.ch))
        /\ pc' = IF next = NoChannel THEN "done" ELSE "read"
    BY <1>8, Zenon DEF StorePixel, StepInv, AtPixelInStep
  <2>2. CASE next = NoChannel
    BY <1>1, <2>1, <2>2 DEF StepInv
  <2>3. CASE next # NoChannel
    <3>1. AtPixel(fmt, next) /\ (next.ch # pos.ch => InStep(fmt, next, IteratorStart))
      BY <1>1, <2>1, <2>3, NextIsPixel
    <3>2. next.ch = pos.ch => InStep(fmt, next, Advance(pos.ch))
      BY <1>1, <2>1, <2>3, AdvanceKeepsStep
    <3>3. InStep(fmt, next, it')
      BY <2>1, <3>1, <3>2 DEF IteratorFor
    <3>4. next.g \in next.g .. EndOf(fmt, next)
      <4>1. WholePixels(fmt.channel_blocks[next.ch]) /\ next.g \in DOMAIN fmt.channel_blocks[next.ch].samples /\ next.g \in Nat
        BY <1>1, <3>1 DEF WholeBlocks, AtPixel, Positions
      <4>2. EndOf(fmt, next) \in next.g .. Len(fmt.channel_blocks[next.ch].samples)
        BY <4>1, GroupsEnd DEF EndOf
      <4> QED  BY <4>1, <4>2
    <3> QED  BY <1>1, <2>1, <2>3, <3>1, <3>3, <3>4 DEF StepInv, AtPixelInStep
  <2> QED  BY <2>2, <2>3
<1>9. CASE UNCHANGED vars
  <2>1. NextPos(EndOf(fmt, pos))' = NextPos(EndOf(fmt, pos))
    BY <1>9 DEF vars, NextPos, NextChannel, FirstFrom, Visits, Samples
  <2> QED  BY <1>9, <2>1 DEF vars, StepInv, NoChannel, AtChannel
<1> QED  BY <1>2, <1>3, <1>4, <1>5, <1>6, <1>7, <1>8, <1>9 DEF Next, Stopped

(* The loops of encode_channel and decode_channel and the block_iterator   *)
(* run in step, for every format whose channels are made of whole blocks   *)
(* of whole pixels: interleaved, bottom up, split over planes or in mega   *)
(* blocks.                                                                 *)
THEOREM LoopsAndIteratorAgree ==
  ASSUME \A f \in Formats : WholeBlocks(f)
  PROVE  Spec => []IteratorInStep
<1>1. Init => StepInv
  <2> SUFFICES ASSUME Init
               PROVE  StepInv
    OBVIOUS
  <2>1. fmt \in Formats /\ pos = FirstFrom(ChannelY) /\ it = IteratorStart /\ pc = IF pos = NoChannel THEN "transform" ELSE "load"
    BY DEF Init
  <2> QED  BY <2>1, FirstPixel DEF StepInv
<1>2. StepInv /\ [Next]_vars => StepInv'
  BY StepInductive
<1>3. StepInv => IteratorInStep
  BY DEF StepInv, AtPixelInStep, InStep, IteratorInStep, Block, Samples, EndsTo
<1> QED  BY <1>1, <1>2, <1>3, PTL DEF Spec

-----------------------------------------------------------------------------
(* Inside the surfaces and buffers.                                        *)

(* What the validator establishes of the places, and a block order inside  *)
(* its plane.                                                              *)
Fits(f) ==
  /\ WellFormed(f) /\ f.size \in Nat
  /\ PlacesInPlane(f)
  /\ \A i \in DOMAIN f.planes : ~ ReorderOverruns(f.planes[i])

(* The place the loops are at with sample i.                               *)
Place(i) == <<pos.ch, pos.line, pos.b, i>>

LEMMA PixelInSurface ==
  ASSUME WholeBlocks(fmt), AtPixelInStep(fmt, pos, it)
  PROVE  SurfaceIndex(pos.ch) \in 1 .. SurfaceSize(pos.ch)
<1> DEFINE w == fmt.channel_blocks[pos.ch].w
           h == fmt.channel_blocks[pos.ch].h
           across == NBlocksInLine(fmt, pos.ch)
           down == NBlockLines(fmt, pos.ch)
           W == SurfaceW(fmt, pos.ch)
           H == SurfaceH(fmt, pos.ch)
           col == it.block_x + it.x
           row == it.block_y + it.y
           l == pos.line
           b == pos.b
<1>1. /\ pos.ch \in Channels /\ l \in Nat /\ b \in Nat /\ l < down /\ b < across
      /\ fmt.channel_blocks[pos.ch].samples # <<>>
  BY DEF AtPixelInStep, AtPixel, Positions
<1>2. /\ w \in Nat \ {0} /\ h \in Nat \ {0} /\ across \in Nat /\ down \in Nat /\ W \in Nat /\ H \in Nat
      /\ across * w = W /\ down * h <= H
  BY <1>1, BlocksCounted
<1>3. /\ it \in [block_x : Nat, block_y : Nat, x : 0 .. w - 1, y : 0 .. h - 1]
      /\ it.block_x = b * w /\ it.block_y = l * h
  BY DEF AtPixelInStep, InStep
<1>4. it.x \in 0 .. w - 1 /\ it.y \in 0 .. h - 1 /\ it.block_x \in Nat /\ it.block_y \in Nat
  BY <1>3
<1>5. SurfaceIndex(pos.ch) = row * W + col + 1 /\ SurfaceSize(pos.ch) = W * H
  <2>1. SurfaceIndex(pos.ch) = row * W + it.block_x + it.x + 1
    BY DEF SurfaceIndex
  <2>2. row * W \in Int
    BY <1>2, <1>4
  <2> QED  BY <1>4, <2>1, <2>2 DEF SurfaceSize
<1>6. b * w + w <= across * w /\ l * h + h <= down * h
  <2> HIDE DEF w, h, across, down, l, b
  <2> QED  BY <1>1, <1>2, StridesApart
<1>7. col \in 0 .. W - 1 /\ row \in 0 .. H - 1
  <2> DEFINE bw == b * w
             lh == l * h
             dh == down * h
  <2>1. bw \in Nat /\ lh \in Nat /\ dh \in Int /\ bw + w <= W /\ lh + h <= dh /\ dh <= H
    BY <1>2, <1>3, <1>4, <1>6
  <2>2. it.block_x = bw /\ it.block_y = lh
    BY <1>3
  <2> HIDE DEF bw, lh, dh, w, h, W, H
  <2> QED  BY <1>2, <1>4, <2>1, <2>2
<1> HIDE DEF w, h, across, down, W, H, col, row, l, b
<1>8. row * W + W <= W * H /\ row * W \in Nat
  <2>1. row \in Nat /\ H \in Nat /\ W \in Nat /\ row < H
    BY <1>2, <1>7
  <2>2. row * W \in Nat /\ row * W + W <= H * W
    BY <2>1, StridesApart
  <2>3. H * W = W * H
    BY <2>1
  <2> QED  BY <2>2, <2>3
<1>9. W * H \in Nat
  BY <1>2, Z3
<1> QED  BY <1>2, <1>5, <1>7, <1>8, <1>9

LEMMA SampleInFrame ==
  ASSUME WholeBlocks(fmt), Fits(fmt), AtPixel(fmt, pos), NEW i \in pos.g .. EndOf(fmt, pos)
  PROVE  /\ Place(i) \in Places(fmt)
         /\ AddressesOf(Samples(pos.ch)[i]) = BitsAt(fmt, Place(i))
         /\ AddressesOf(Samples(pos.ch)[i]) \subseteq 0 .. 8 * fmt.size - 1
         /\ i \in DOMAIN Samples(pos.ch)
<1> DEFINE q == Place(i)
           pl == fmt.planes[SampleOf(fmt, q).plane]
<1>1. /\ pos.ch \in Channels /\ pos.line \in Nat /\ pos.b \in Nat
      /\ pos.line < NBlockLines(fmt, pos.ch) /\ pos.b < NBlocksInLine(fmt, pos.ch)
      /\ fmt.channel_blocks[pos.ch].samples # <<>> /\ pos.g \in DOMAIN fmt.channel_blocks[pos.ch].samples
  BY DEF AtPixel, Positions
<1>2. NBlockLines(fmt, pos.ch) \in Nat /\ NBlocksInLine(fmt, pos.ch) \in Nat
  BY <1>1, BlocksCounted
<1>3. i \in DOMAIN fmt.channel_blocks[pos.ch].samples
  <2>1. DOMAIN fmt.channel_blocks[pos.ch].samples = 1 .. Len(fmt.channel_blocks[pos.ch].samples)
    BY <1>1 DEF WholeBlocks, WholePixels
  <2>2. EndOf(fmt, pos) \in pos.g .. Len(fmt.channel_blocks[pos.ch].samples)
        /\ EndOf(fmt, pos) \in DOMAIN fmt.channel_blocks[pos.ch].samples
    BY EndOfGroup DEF Samples
  <2>3. pos.g \in 1 .. Len(fmt.channel_blocks[pos.ch].samples)
    BY <1>1, <2>1
  <2> QED  BY <2>1, <2>2, <2>3
<1>4. q \in Places(fmt)
  BY <1>1, <1>2, <1>3 DEF Places, Place
<1>5. AddressesOf(Samples(pos.ch)[i]) = BitsAt(fmt, q)
  BY DEF AddressesOf, BitsAt, SampleOf, Samples, Place
<1>6. SampleOf(fmt, q).plane \in DOMAIN fmt.planes
  BY <1>1, <1>3 DEF Fits, WellFormed, WellFormedBlock, SampleOf, Place
<1>7. WellFormedPlane(pl) /\ pl.base_offset + pl.size <= fmt.size
  BY <1>6 DEF Fits, WellFormed, PlacesInPlane
<1>8. BitsAt(fmt, q) \subseteq 8 * pl.base_offset .. 8 * (pl.base_offset + pl.size) - 1
  BY <1>4 DEF Fits, PlacesInPlane
<1>9. (8 * pl.base_offset .. 8 * (pl.base_offset + pl.size) - 1) \subseteq 0 .. 8 * fmt.size - 1
  <2>1. pl.base_offset \in Nat /\ pl.size \in Nat /\ fmt.size \in Nat
    BY <1>7 DEF WellFormedPlane, Fits
  <2> HIDE DEF pl
  <2> QED  BY <1>7, <2>1
<1> QED  BY <1>3, <1>4, <1>5, <1>8, <1>9 DEF Samples

LEMMA ReorderKeepsDomain ==
  ASSUME NEW buf, NEW pl
  PROVE  /\ DOMAIN ReorderTransform(buf, pl, INDET) = DOMAIN buf
         /\ DOMAIN ReorderInverse(buf, pl, INDET) = DOMAIN buf
  BY DEF ReorderTransform, ReorderInverse, MoveBlocks

BoundsInv ==
  /\ StepInv
  /\ DOMAIN data = 0 .. 8 * fmt.size - 1
  /\ pc \in {"inverse", "read", "store"} => DOMAIN raw = DOMAIN data
  /\ in_bounds

LEMMA BoundsInductive ==
  ASSUME \A f \in Formats : WholeBlocks(f) /\ Fits(f), BoundsInv, [Next]_vars
  PROVE  BoundsInv'
<1>1. WholeBlocks(fmt) /\ Fits(fmt) /\ StepInv
  BY DEF BoundsInv, StepInv
<1>2. StepInv'
  BY StepInductive DEF BoundsInv
<1>3. CASE LoadPixel
  <2>1. SurfaceIndex(pos.ch) \in 1 .. SurfaceSize(pos.ch)
    BY <1>1, <1>3, PixelInSurface DEF LoadPixel, StepInv
  <2>2. in_bounds'
    BY <1>3, <2>1, Zenon DEF LoadPixel, BoundsInv
  <2>3. fmt' = fmt /\ data' = data /\ pc' = "write"
    BY <1>3, Zenon DEF LoadPixel
  <2> QED  BY <1>2, <2>2, <2>3 DEF BoundsInv
<1>4. CASE WriteSample
  <2>1. AddressesOf(Samples(pos.ch)[s]) \subseteq DOMAIN data
    BY <1>1, <1>4, SampleInFrame DEF WriteSample, StepInv, Ahead, BoundsInv
  <2>2. in_bounds'
    BY <1>4, <2>1, Zenon DEF WriteSample, BoundsInv
  <2>3. fmt' = fmt /\ DOMAIN data' = DOMAIN data /\ pc' \in {"write", "transform", "load"}
    BY <1>4 DEF WriteSample
  <2> QED  BY <1>2, <2>2, <2>3 DEF BoundsInv
<1>5. CASE TransformPlane
  <2>1. plane \in DOMAIN fmt.planes /\ ~ ReorderOverruns(fmt.planes[plane])
    BY <1>1, <1>5 DEF TransformPlane, Fits
  <2>2. in_bounds'
    BY <1>5, <2>1, Zenon DEF TransformPlane, BoundsInv
  <2>3. fmt' = fmt /\ DOMAIN data' = DOMAIN data /\ pc' \in {"transform", "aborted"}
    BY <1>5, ReorderKeepsDomain DEF TransformPlane
  <2> QED  BY <1>2, <2>2, <2>3 DEF BoundsInv
<1>6. CASE StartDecode
  <2>1. fmt' = fmt /\ data' = data /\ raw' = data /\ in_bounds' = in_bounds
    BY <1>6, Zenon DEF StartDecode
  <2> QED  BY <1>2, <2>1 DEF BoundsInv
<1>7. CASE InversePlane
  <2>1. plane \in DOMAIN fmt.planes /\ ~ ReorderOverruns(fmt.planes[plane])
    BY <1>1, <1>7 DEF InversePlane, Fits
  <2>2. in_bounds'
    BY <1>7, <2>1, Zenon DEF InversePlane, BoundsInv
  <2>3. fmt' = fmt /\ data' = data /\ DOMAIN raw' = DOMAIN raw /\ pc = "inverse"
    BY <1>7, ReorderKeepsDomain DEF InversePlane
  <2> QED  BY <1>2, <2>2, <2>3 DEF BoundsInv
<1>8. CASE ReadSample
  <2>1. AddressesOf(Samples(pos.ch)[s]) \subseteq DOMAIN raw
    BY <1>1, <1>8, SampleInFrame DEF ReadSample, StepInv, AtPixelInStep, BoundsInv
  <2>2. in_bounds'
    BY <1>8, <2>1, Zenon DEF ReadSample, BoundsInv
  <2>3. fmt' = fmt /\ data' = data /\ raw' = raw /\ pc = "read"
    BY <1>8, Zenon DEF ReadSample
  <2> QED  BY <1>2, <2>2, <2>3 DEF BoundsInv
<1>9. CASE StorePixel
  <2>1. SurfaceIndex(pos.ch) \in 1 .. SurfaceSize(pos.ch)
    BY <1>1, <1>9, PixelInSurface DEF StorePixel, StepInv
  <2>2. in_bounds'
    BY <1>9, <2>1, Zenon DEF StorePixel, BoundsInv
  <2>3. fmt' = fmt /\ data' = data /\ raw' = raw /\ pc = "store"
    BY <1>9, Zenon DEF StorePixel
  <2> QED  BY <1>2, <2>2, <2>3 DEF BoundsInv
<1>10. CASE UNCHANGED vars
  BY <1>2, <1>10 DEF vars, BoundsInv
<1> QED  BY <1>3, <1>4, <1>5, <1>6, <1>7, <1>8, <1>9, <1>10 DEF Next, Stopped

(* Neither packing nor unpacking touches anything outside the surfaces and *)
(* the frame's buffer, if the places fit their planes and the planes the   *)
(* frame: surface::at, set_bit and get_bit check nothing.                  *)
THEOREM NothingOutside ==
  ASSUME \A f \in Formats : WholeBlocks(f) /\ Fits(f)
  PROVE  Spec => []InBounds
<1>1. Init => BoundsInv
  <2> SUFFICES ASSUME Init
               PROVE  BoundsInv
    OBVIOUS
  <2>1. /\ fmt \in Formats /\ pos = FirstFrom(ChannelY) /\ it = IteratorStart
        /\ pc = IF pos = NoChannel THEN "transform" ELSE "load"
        /\ DOMAIN data = 0 .. 8 * fmt.size - 1 /\ in_bounds
    BY DEF Init
  <2>2. StepInv
    BY <2>1, FirstPixel DEF StepInv
  <2> QED  BY <2>1, <2>2 DEF BoundsInv
<1>2. BoundsInv /\ [Next]_vars => BoundsInv'
  BY BoundsInductive
<1>3. BoundsInv => InBounds
  BY DEF BoundsInv, InBounds
<1> QED  BY <1>1, <1>2, <1>3, PTL DEF Spec

-----------------------------------------------------------------------------
(* No bit is written twice.                                                *)

(* Place q comes before position p in the order of the loops.              *)
Done(q, p) ==
  \/ q[1] < p.ch
  \/ q[1] = p.ch /\ q[2] < p.line
  \/ q[1] = p.ch /\ q[2] = p.line /\ q[3] < p.b
  \/ q[1] = p.ch /\ q[2] = p.line /\ q[3] = p.b /\ q[4] < p.g

(* Place q is one of the samples from..to of the block at p.               *)
Among(q, p, from, to) == q[1] = p.ch /\ q[2] = p.line /\ q[3] = p.b /\ q[4] \in from .. to

(* What has been written: the places the loops have passed, and of the     *)
(* current group, written last to first, the samples after s.              *)
PaintInv ==
  /\ BoundsInv
  /\ pc = "load" => \A a \in DOMAIN data : data[a] # POISON =>
       \E q \in Places(fmt) : a \in BitsAt(fmt, q) /\ Done(q, pos)
  /\ pc = "write" => \A a \in DOMAIN data : data[a] # POISON =>
       \E q \in Places(fmt) : a \in BitsAt(fmt, q) /\ (Done(q, pos) \/ Among(q, pos, s + 1, EndOf(fmt, pos)))

LEMMA PlacesAreNumbers ==
  ASSUME WholeBlocks(fmt), NEW q \in Places(fmt)
  PROVE  q[1] \in Int /\ q[2] \in Int /\ q[3] \in Int /\ q[4] \in Int
<1>1. /\ q[1] \in Channels /\ fmt.channel_blocks[q[1]].samples # <<>>
      /\ q[2] \in 0 .. NBlockLines(fmt, q[1]) - 1 /\ q[3] \in 0 .. NBlocksInLine(fmt, q[1]) - 1
      /\ q[4] \in DOMAIN fmt.channel_blocks[q[1]].samples
  BY DEF Places
<1>2. DOMAIN fmt.channel_blocks[q[1]].samples = 1 .. Len(fmt.channel_blocks[q[1]].samples)
  BY <1>1 DEF WholeBlocks, WholePixels
<1> QED  BY <1>1, <1>2 DEF Channels, ChannelY, ChannelA

(* Moving on to the next pixel puts the group just written behind.         *)
LEMMA GroupIsDone ==
  ASSUME WholeBlocks(fmt), AtPixel(fmt, pos), NEW next, next = NextPos(EndOf(fmt, pos)), next # NoChannel,
         NEW q \in Places(fmt), Done(q, pos) \/ Among(q, pos, pos.g, EndOf(fmt, pos))
  PROVE  Done(q, next)
<1> DEFINE e == EndOf(fmt, pos)
<1>1. pos.ch \in Int /\ pos.line \in Int /\ pos.b \in Int /\ pos.g \in Int /\ e \in pos.g .. Len(Samples(pos.ch))
  BY NextPosIs DEF AtPixel, Positions, Channels, ChannelY, ChannelA
<1>2. q[1] \in Int /\ q[2] \in Int /\ q[3] \in Int /\ q[4] \in Int
  BY PlacesAreNumbers
<1> HIDE DEF e
<1>3. CASE IsPos(next, pos.ch, pos.line, pos.b, e + 1)
  BY <1>1, <1>2, <1>3 DEF Done, Among, IsPos, e
<1>4. CASE IsPos(next, pos.ch, pos.line, pos.b + 1, 1)
  BY <1>1, <1>2, <1>4 DEF Done, Among, IsPos
<1>5. CASE IsPos(next, pos.ch, pos.line + 1, 0, 1)
  BY <1>1, <1>2, <1>5 DEF Done, Among, IsPos
<1>6. CASE next = NextChannel
  <2>1. pos.ch + 1 \in 1 .. ChannelA + 1
    BY DEF AtPixel, Positions, Channels, ChannelY, ChannelA
  <2>2. PICK c \in pos.ch + 1 .. ChannelA : next = AtChannel(c)
    BY <1>6, <2>1, FirstFromVisits DEF NextChannel
  <2>3. next.ch \in Int /\ pos.ch < next.ch
    BY <1>1, <2>2 DEF AtChannel, ChannelA
  <2> QED  BY <1>1, <1>2, <2>3, SMTT(40) DEF Done, Among
<1> QED  BY <1>3, <1>4, <1>5, <1>6, NextPosIs DEF e

(* The sample about to be written is at a place nothing was written to.    *)
LEMMA FreshPlace ==
  ASSUME WholeBlocks(fmt), Fits(fmt), PlacesDisjoint(fmt), PaintInv, pc = "write",
         NEW a \in AddressesOf(Samples(pos.ch)[s]), a \in DOMAIN data
  PROVE  data[a] = POISON
<1> SUFFICES ASSUME data[a] # POISON
             PROVE  FALSE
  OBVIOUS
<1>1. AtPixel(fmt, pos) /\ s \in pos.g .. EndOf(fmt, pos)
  BY DEF PaintInv, BoundsInv, StepInv, Ahead
<1>2. Place(s) \in Places(fmt) /\ a \in BitsAt(fmt, Place(s))
  BY <1>1, SampleInFrame
<1>3. PICK q \in Places(fmt) : a \in BitsAt(fmt, q) /\ (Done(q, pos) \/ Among(q, pos, s + 1, EndOf(fmt, pos)))
  BY DEF PaintInv
<1>4. q = Place(s)
  BY <1>2, <1>3 DEF PlacesDisjoint
<1>5. q[1] = pos.ch /\ q[2] = pos.line /\ q[3] = pos.b /\ q[4] = s
  BY <1>4 DEF Place
<1>6. pos.ch \in Int /\ pos.line \in Int /\ pos.b \in Int /\ pos.g \in Int /\ s \in Int /\ s >= pos.g
  BY <1>1 DEF AtPixel, Positions, Channels, ChannelY, ChannelA
<1> QED  BY <1>3, <1>5, <1>6 DEF Done, Among

LEMMA PaintInductive ==
  ASSUME \A f \in Formats : WholeBlocks(f) /\ Fits(f), PaintInv, [Next]_vars
  PROVE  PaintInv'
<1>1. WholeBlocks(fmt) /\ Fits(fmt) /\ StepInv /\ BoundsInv
  BY DEF PaintInv, BoundsInv, StepInv
<1>2. BoundsInv'
  BY BoundsInductive DEF PaintInv
<1>3. CASE LoadPixel
  <2>1. pc = "load" /\ pc' = "write" /\ fmt' = fmt /\ pos' = pos /\ data' = data
    BY <1>3, Zenon DEF LoadPixel
  <2> QED  BY <1>2, <2>1 DEF PaintInv
<1>4. CASE WriteSample
  <2> DEFINE smp == Samples(pos.ch)[s]
             e == EndOf(fmt, pos)
             next == NextPos(e)
  <2>1. pc = "write" /\ fmt' = fmt /\ AtPixel(fmt, pos) /\ s \in pos.g .. e /\ s \in Int /\ pos.g \in Int /\ e \in Int
    BY <1>1, <1>4, EndOfGroup DEF WriteSample, StepInv, Ahead
  <2>2. DOMAIN data' = DOMAIN data /\ \A a \in DOMAIN data : a \in AddressesOf(smp) \/ data'[a] = data[a]
    BY <1>4 DEF WriteSample
  <2>3. Place(s) \in Places(fmt) /\ AddressesOf(smp) = BitsAt(fmt, Place(s)) /\ Among(Place(s), pos, s, e)
    BY <1>1, <2>1, SampleInFrame DEF Among, Place
  <2>4. ASSUME NEW a \in DOMAIN data', data'[a] # POISON
        PROVE  \E q \in Places(fmt) : a \in BitsAt(fmt, q) /\ (Done(q, pos) \/ Among(q, pos, s, e))
    <3>1. CASE a \in AddressesOf(smp)
      BY <2>3, <3>1
    <3>2. CASE a \notin AddressesOf(smp)
      <4>1. PICK q \in Places(fmt) : a \in BitsAt(fmt, q) /\ (Done(q, pos) \/ Among(q, pos, s + 1, e))
        BY <2>1, <2>2, <2>4, <3>2 DEF PaintInv
      <4>2. Among(q, pos, s + 1, e) => Among(q, pos, s, e)
        BY <2>1 DEF Among
      <4> QED  BY <4>1, <4>2
    <3> QED  BY <3>1, <3>2
  <2>5. CASE MoreToWrite /\ s' = s - 1 /\ UNCHANGED <<pc, pos, it>>
    <3>1. s' + 1 = s
      BY <2>1, <2>5
    <3> QED  BY <1>2, <2>1, <2>4, <2>5, <3>1 DEF PaintInv
  <2>6. CASE ~ MoreToWrite /\ pos' = next /\ pc' = IF next = NoChannel THEN "transform" ELSE "load"
    <3>1. CASE next = NoChannel
      BY <1>2, <2>6, <3>1 DEF PaintInv
    <3>2. CASE next # NoChannel
      <4>1. s = pos.g
        BY <2>1, <2>6 DEF MoreToWrite
      <4>2. ASSUME NEW a \in DOMAIN data', data'[a] # POISON
            PROVE  \E q \in Places(fmt) : a \in BitsAt(fmt, q) /\ Done(q, next)
        <5>1. PICK q \in Places(fmt) : a \in BitsAt(fmt, q) /\ (Done(q, pos) \/ Among(q, pos, pos.g, e))
          BY <2>4, <4>1, <4>2
        <5> QED  BY <1>1, <2>1, <3>2, <5>1, GroupIsDone
      <4> QED  BY <1>2, <2>1, <2>6, <3>2, <4>2 DEF PaintInv
    <3> QED  BY <3>1, <3>2
  <2>7. e = GroupEnd(Samples(pos.ch), pos.g)
    BY DEF EndOf, Samples
  <2> QED  BY <1>4, <2>5, <2>6, <2>7 DEF WriteSample
<1>5. CASE TransformPlane \/ StartDecode \/ InversePlane \/ ReadSample \/ StorePixel
  <2>1. pc' \notin {"load", "write"}
    BY <1>5 DEF TransformPlane, StartDecode, InversePlane, ReadSample, StorePixel
  <2> QED  BY <1>2, <2>1 DEF PaintInv
<1>6. CASE UNCHANGED vars
  BY <1>2, <1>6 DEF vars, PaintInv
<1> QED  BY <1>3, <1>4, <1>5, <1>6 DEF Next, Stopped

(* A bit that holds part of a pixel is not overwritten while packing, if   *)
(* no two places share a bit: no order of channels, blocks and groups, and *)
(* no split of a sample, visits a place twice.                             *)
THEOREM NothingWrittenTwice ==
  ASSUME \A f \in Formats : WholeBlocks(f) /\ Fits(f) /\ PlacesDisjoint(f)
  PROVE  Spec => NoClobber
<1>1. Init => PaintInv
  <2> SUFFICES ASSUME Init
               PROVE  PaintInv
    OBVIOUS
  <2>1. /\ fmt \in Formats /\ pos = FirstFrom(ChannelY) /\ it = IteratorStart
        /\ pc = IF pos = NoChannel THEN "transform" ELSE "load"
        /\ DOMAIN data = 0 .. 8 * fmt.size - 1 /\ in_bounds
        /\ \A a \in DOMAIN data : data[a] = POISON
    BY DEF Init
  <2>2. StepInv
    BY <2>1, FirstPixel DEF StepInv
  <2> QED  BY <2>1, <2>2 DEF PaintInv, BoundsInv
<1>2. PaintInv /\ [Next]_vars => PaintInv'
  BY PaintInductive
<1>3. PaintInv /\ [Next]_vars
        => [pc = "write" => \A a \in DOMAIN data : data[a] # POISON => data'[a] = data[a]]_vars
  <2> SUFFICES ASSUME PaintInv, Next, pc = "write", NEW a \in DOMAIN data, data[a] # POISON
               PROVE  data'[a] = data[a]
    BY DEF vars
  <2>1. CASE WriteSample
    <3>1. WholeBlocks(fmt) /\ Fits(fmt) /\ PlacesDisjoint(fmt)
      BY DEF PaintInv, BoundsInv, StepInv
    <3>2. a \notin AddressesOf(Samples(pos.ch)[s])
      BY <3>1, FreshPlace
    <3> QED  BY <2>1, <3>2 DEF WriteSample
  <2>2. CASE ~ WriteSample
    BY <2>2 DEF Next, LoadPixel, TransformPlane, StartDecode, InversePlane, ReadSample, StorePixel, Stopped, vars
  <2> QED  BY <2>1, <2>2
<1> QED  BY <1>1, <1>2, <1>3, PTL DEF Spec, NoClobber

-----------------------------------------------------------------------------
(* Everything arrives.                                                     *)

Reorderable(f) ==
  /\ Len(f.planes) \in Nat /\ DOMAIN f.planes = 1 .. Len(f.planes)
  /\ \A i \in DOMAIN f.planes : HasMegaBlocks(f.planes[i]) => WholeMegaBlocks(f.planes[i])
  /\ \A i, j \in DOMAIN f.planes :
       i # j /\ HasMegaBlocks(f.planes[i]) /\ HasMegaBlocks(f.planes[j])
         => ~ PlanesOverlap(f.planes[i], f.planes[j])

SamplesOf(f, q) == f.channel_blocks[q[1]].samples

(* The index of the pixel that place q holds a part of, the first sample   *)
(* of its group, and the bits of the pixel below those of q.               *)
PixelOf(f, q) ==
  LET blk == f.channel_blocks[q[1]]
      n == Cardinality(EndsTo(blk.samples, q[4] - 1))
  IN  (q[2] * blk.h + n \div blk.w) * SurfaceW(f, q[1]) + (q[3] * blk.w + (n % blk.w)) + 1
Below(f, q) == BitsOfSamples(SamplesOf(f, q), q[4] + 1, GroupEnd(SamplesOf(f, q), q[4]))

StartsGroup(smps, g) == g = 1 \/ ~ smps[g - 1].has_continuation

SourceBit(alpha, c, i, k) == IF c = ChannelA /\ ~ alpha THEN <<ChannelA, OPAQUE, k>> ELSE <<c, i, k>>

(* The bit of the image, with or without an alpha plane, that belongs at   *)
(* bit a of place q.                                                       *)
FirstBit(f, q) == SampleBit(f, q[1], q[2], q[3], SampleOf(f, q))
BitFor(f, alpha, q, a) == SourceBit(alpha, q[1], PixelOf(f, q), Below(f, q) + (a - FirstBit(f, q)) + 1)
Holds(f, alpha, buf, q) == \A a \in BitsAt(f, q) : buf[a] = BitFor(f, alpha, q, a)

(* Bit a of the buffer is in plane i, whose blocks are reordered.          *)
InMega(f, i, a) ==
  HasMegaBlocks(f.planes[i]) /\ a - 8 * f.planes[i].base_offset \in 0 .. 8 * f.planes[i].size - 1

(* Moving the blocks of a plane from one order to another takes bit a of   *)
(* the buffer to bit b.                                                    *)
Takes(pl, from, to, a, b) ==
  \E n \in Copies(pl), k \in 0 .. pl.block_stride - 1 :
    /\ a = 8 * pl.base_offset + from[n] + k
    /\ b = 8 * pl.base_offset + to[n] + k
Sends(pl, a, b) == Takes(pl, LinearBits(pl), BlockedBits(pl), a, b)

(* With the planes from..to in block order, bit b is where bit a was.      *)
Reordered(f, from, to, a, b) ==
  \/ b = a /\ \A i \in from .. to : ~ InMega(f, i, a)
  \/ \E i \in from .. to : InMega(f, i, a) /\ Sends(f.planes[i], a, b)
HoldsReordered(f, alpha, buf, from, to, q) ==
  \A a \in BitsAt(f, q) : \E b \in DOMAIN buf :
    Reordered(f, from, to, a, b) /\ buf[b] = BitFor(f, alpha, q, a)

(* The n bits of the pixel of place q from those of q up.                  *)
Part(alpha, c, i, m, n)  == [k \in 1 .. n |-> SourceBit(alpha, c, i, m + k)]
PartFrom(f, alpha, q, n) == Part(alpha, q[1], PixelOf(f, q), Below(f, q), n)

(* Where the loops are with sample i, for a position p.                    *)
PlaceAt(p, i) == <<p.ch, p.line, p.b, i>>
BitsFrom(f, p, i) == BitsOfSamples(f.channel_blocks[p.ch].samples, p.g, i)

(* v is the value with sample i of the group, and those before it, in it.  *)
ValueIs(f, alpha, v, p, i) == v = PartFrom(f, alpha, PlaceAt(p, i), BitsFrom(f, p, i))

Stored(f, p, c, i) == \E q \in Places(f) : q[1] = c /\ PixelOf(f, q) = i /\ Done(q, p)

-----------------------------------------------------------------------------
(* Blocks on the move.                                                     *)

(* The blocks of a plane of buf in some order.                             *)
Cuts(pl, order, buf) ==
  /\ pl.base_offset \in Int /\ pl.size \in Int /\ pl.block_stride \in Nat /\ Copies(pl) \subseteq Int
  /\ Tiles(Copies(pl), order, pl.block_stride, 8 * pl.size)
  /\ \A a \in 8 * pl.base_offset .. 8 * pl.base_offset + 8 * pl.size - 1 : a \in DOMAIN buf

InPlane(pl, a) == a - 8 * pl.base_offset \in 0 .. 8 * pl.size - 1
Carries(buf, pl, from, to, a, b) == MoveBlocks(buf, pl, from, to, INDET)[b] = buf[a]

(* Moving blocks from one order to another takes every bit along with its  *)
(* block.                                                                  *)
LEMMA BlocksMove ==
  ASSUME NEW buf, NEW pl, NEW from, NEW to, Cuts(pl, from, buf), Cuts(pl, to, buf),
         NEW a, NEW b, Takes(pl, from, to, a, b)
  PROVE  /\ a \in DOMAIN buf /\ b \in DOMAIN buf
         /\ InPlane(pl, b) /\ Carries(buf, pl, from, to, a, b)
<1> DEFINE base == 8 * pl.base_offset
           size == 8 * pl.size
           Writers(e) == {m \in Copies(pl) : e - to[m] \in 0 .. pl.block_stride - 1}
           Arrived(e) == IF Writers(e) = {} THEN INDET
                       ELSE LET m == Max(Writers(e))
                                src == base + from[m] + e - to[m]
                            IN  IF src \in DOMAIN buf THEN buf[src] ELSE INDET
<1>1. PICK n \in Copies(pl), k \in 0 .. pl.block_stride - 1 : a = base + from[n] + k /\ b = base + to[n] + k
  BY DEF Takes
<1> DEFINE d == to[n] + k
<1>2. /\ base \in Int /\ size \in Int /\ to[n] \in Nat /\ from[n] \in Nat /\ k \in Nat /\ k < pl.block_stride
      /\ pl.block_stride \in Nat
      /\ to[n] + pl.block_stride <= size /\ from[n] + pl.block_stride <= size
  BY DEF Tiles, Cuts
<1>3. d \in 0 .. size - 1 /\ b - base = d /\ d - to[n] = k /\ d \in Int
  <2> HIDE DEF base, size
  <2> QED  BY <1>1, <1>2
<1>4. a \in DOMAIN buf /\ b \in DOMAIN buf
  <2>1. a \in base .. base + size - 1 /\ b \in base .. base + size - 1
    <3> HIDE DEF base, size
    <3> QED  BY <1>1, <1>2
  <2> QED  BY <2>1 DEF Cuts
<1>5. Writers(d) = {n}
  <2>1. n \in Writers(d)
    BY <1>3
  <2>2. ASSUME NEW m \in Writers(d)
        PROVE  m = n
    BY <1>3, <2>2 DEF Tiles, Cuts
  <2> QED  BY <2>1, <2>2
<1>6. Max({n}) = n
  BY DEF Max
<1>7. base + from[n] + d - to[n] = a
  <2> HIDE DEF base
  <2> QED  BY <1>1, <1>2
<1>8. Arrived(d) = buf[a]
  <2> HIDE DEF d, base, Writers
  <2> QED  BY <1>4, <1>5, <1>6, <1>7
<1>9. MoveBlocks(buf, pl, from, to, INDET)[b] = IF b - base \in 0 .. size - 1 THEN Arrived(b - base) ELSE buf[b]
  <2>1. MoveBlocks(buf, pl, from, to, INDET)
          = [e \in DOMAIN buf |-> IF e - base \in 0 .. size - 1 THEN Arrived(e - base) ELSE buf[e]]
    BY DEF MoveBlocks
  <2> HIDE DEF base, size, Arrived
  <2> QED  BY <1>4, <2>1
<1>10. b - 8 * pl.base_offset \in 0 .. 8 * pl.size - 1
  BY <1>3
<1> HIDE DEF d, base, size, Arrived
<1>11. MoveBlocks(buf, pl, from, to, INDET)[b] = buf[a]
  BY <1>3, <1>8, <1>9
<1>12. InPlane(pl, b)
  BY <1>10 DEF InPlane
<1>13. Carries(buf, pl, from, to, a, b)
  BY <1>11 DEF Carries
<1> QED  BY <1>4, <1>12, <1>13

LEMMA OthersStay ==
  ASSUME NEW buf, NEW pl, NEW from, NEW to, NEW a \in DOMAIN buf,
         a - 8 * pl.base_offset \notin 0 .. 8 * pl.size - 1
  PROVE  MoveBlocks(buf, pl, from, to, INDET)[a] = buf[a]
  BY DEF MoveBlocks

LEMMA PlaneInFrame ==
  ASSUME NEW f, Fits(f), Reorderable(f), NEW i \in DOMAIN f.planes, HasMegaBlocks(f.planes[i]),
         NEW buf, DOMAIN buf = 0 .. 8 * f.size - 1
  PROVE  Cuts(f.planes[i], LinearBits(f.planes[i]), buf) /\ Cuts(f.planes[i], BlockedBits(f.planes[i]), buf)
<1> DEFINE pl == f.planes[i]
<1>1. WellFormedPlane(pl) /\ WholeMegaBlocks(pl) /\ pl.base_offset + pl.size <= f.size /\ f.size \in Nat
  BY DEF Fits, WellFormed, PlacesInPlane, Reorderable
<1>2. pl.base_offset \in Nat /\ pl.size \in Nat /\ pl.block_stride \in Nat /\ pl.line_stride \in Nat
  BY <1>1 DEF WellFormedPlane
<1> HIDE DEF pl
<1>3. Copies(pl) \subseteq Int
  <2> DEFINE last == (Down(pl) * Across(pl)) * (MegaH(pl) * MegaW(pl)) - 1
  <2>1. Copies(pl) = 0 .. last
    BY <1>1, MegaNumbers
  <2> HIDE DEF last
  <2> QED  BY <2>1
<1>4. \A a \in 8 * pl.base_offset .. 8 * pl.base_offset + 8 * pl.size - 1 : a \in DOMAIN buf
  BY <1>1, <1>2, SMTT(40)
<1>5. /\ Tiles(Copies(pl), LinearBits(pl), pl.block_stride, 8 * pl.size)
      /\ Tiles(Copies(pl), BlockedBits(pl), pl.block_stride, 8 * pl.size)
  BY <1>1, <1>2, OrdersTile
<1>6. Cuts(pl, LinearBits(pl), buf) /\ Cuts(pl, BlockedBits(pl), buf)
  BY <1>2, <1>3, <1>4, <1>5 DEF Cuts
<1> QED  BY <1>6 DEF pl

(* Every bit of a plane is in a block of any order.                        *)
LEMMA IsTaken ==
  ASSUME NEW buf, NEW pl, NEW from, NEW to, Cuts(pl, from, buf),
         NEW a \in Int, a - 8 * pl.base_offset \in 0 .. 8 * pl.size - 1
  PROVE  \E b : Takes(pl, from, to, a, b)
<1> DEFINE d == a - 8 * pl.base_offset
<1>1. PICK n \in Copies(pl) : d - from[n] \in 0 .. pl.block_stride - 1
  BY DEF Tiles, Cuts
<1> DEFINE k == d - from[n]
<1>2. k \in 0 .. pl.block_stride - 1
  BY <1>1
<1>3. a = 8 * pl.base_offset + from[n] + k
  <2>1. from[n] \in Nat /\ pl.base_offset \in Int
    BY DEF Tiles, Cuts
  <2> QED  BY <2>1
<1> HIDE DEF k
<1>4. Takes(pl, from, to, a, 8 * pl.base_offset + to[n] + k)
  BY <1>2, <1>3 DEF Takes
<1> QED  BY <1>4

LEMMA TakesBack ==
  ASSUME NEW pl, NEW from, NEW to, NEW a, NEW b, Takes(pl, from, to, a, b)
  PROVE  Takes(pl, to, from, b, a)
  BY DEF Takes

Transformed(f, i, buf, moved) == moved = ReorderTransform(buf, f.planes[i], INDET)
Arrives(buf, a, moved, b)     == moved[b] = buf[a]
Inverted(f, i, buf, moved)    == moved = ReorderInverse(buf, f.planes[i], INDET)

(* What reorder_transform does to the bits of the plane, ...               *)
LEMMA TransformSends ==
  ASSUME NEW f, Fits(f), Reorderable(f), NEW i \in DOMAIN f.planes,
         NEW buf, DOMAIN buf = 0 .. 8 * f.size - 1,
         NEW moved, Transformed(f, i, buf, moved), NEW a \in Int, InMega(f, i, a)
  PROVE  \E b \in DOMAIN buf : Sends(f.planes[i], a, b) /\ Arrives(buf, a, moved, b)
<1> DEFINE pl == f.planes[i]
<1>1. HasMegaBlocks(pl) /\ a - 8 * pl.base_offset \in 0 .. 8 * pl.size - 1
  BY DEF InMega
<1>2. Cuts(pl, LinearBits(pl), buf) /\ Cuts(pl, BlockedBits(pl), buf)
  BY <1>1, PlaneInFrame
<1> HIDE DEF pl
<1>3. PICK b : Takes(pl, LinearBits(pl), BlockedBits(pl), a, b)
  BY <1>1, <1>2, IsTaken
<1>4. b \in DOMAIN buf /\ Carries(buf, pl, LinearBits(pl), BlockedBits(pl), a, b)
  BY <1>2, <1>3, BlocksMove
<1>5. ReorderTransform(buf, pl, INDET) = MoveBlocks(buf, pl, LinearBits(pl), BlockedBits(pl), INDET)
  BY <1>1 DEF ReorderTransform
<1>6. moved = ReorderTransform(buf, pl, INDET)
  BY DEF Transformed, pl
<1>7. Sends(pl, a, b) /\ b \in DOMAIN buf /\ Arrives(buf, a, moved, b)
  BY <1>3, <1>4, <1>5, <1>6 DEF Sends, Carries, Arrives
<1> QED  BY <1>7 DEF pl

LEMMA SendsInside ==
  ASSUME NEW f, Fits(f), Reorderable(f), NEW i \in DOMAIN f.planes,
         NEW buf, DOMAIN buf = 0 .. 8 * f.size - 1, NEW a \in Int, InMega(f, i, a),
         NEW b, Sends(f.planes[i], a, b)
  PROVE  a \in DOMAIN buf /\ b \in DOMAIN buf /\ InMega(f, i, b)
<1> DEFINE pl == f.planes[i]
<1>1. HasMegaBlocks(pl)
  BY DEF InMega
<1>2. Cuts(pl, LinearBits(pl), buf) /\ Cuts(pl, BlockedBits(pl), buf)
  BY <1>1, PlaneInFrame
<1>3. Takes(pl, LinearBits(pl), BlockedBits(pl), a, b)
  BY DEF Sends
<1> HIDE DEF pl
<1>4. a \in DOMAIN buf /\ b \in DOMAIN buf /\ InPlane(pl, b)
  BY <1>2, <1>3, BlocksMove
<1>5. InMega(f, i, b)
  BY <1>1, <1>4 DEF InMega, InPlane, pl
<1> QED  BY <1>4, <1>5

(* ... and how reorder_inverse undoes it.                                  *)
LEMMA InverseReturns ==
  ASSUME NEW f, Fits(f), Reorderable(f), NEW i \in DOMAIN f.planes,
         NEW buf, DOMAIN buf = 0 .. 8 * f.size - 1,
         NEW moved, Inverted(f, i, buf, moved), NEW a \in Int, InMega(f, i, a),
         NEW b, Sends(f.planes[i], a, b)
  PROVE  Arrives(buf, b, moved, a)
<1> DEFINE pl == f.planes[i]
<1>1. HasMegaBlocks(pl) /\ moved = ReorderInverse(buf, pl, INDET)
  BY DEF InMega, Inverted
<1>2. Cuts(pl, LinearBits(pl), buf) /\ Cuts(pl, BlockedBits(pl), buf)
  BY <1>1, PlaneInFrame
<1>3. Takes(pl, LinearBits(pl), BlockedBits(pl), a, b)
  BY DEF Sends
<1> HIDE DEF pl
<1>4. Takes(pl, BlockedBits(pl), LinearBits(pl), b, a)
  BY <1>3, TakesBack
<1>5. Carries(buf, pl, BlockedBits(pl), LinearBits(pl), b, a)
  BY <1>2, <1>4, BlocksMove
<1>6. moved = MoveBlocks(buf, pl, BlockedBits(pl), LinearBits(pl), INDET)
  BY <1>1 DEF ReorderInverse
<1> QED  BY <1>5, <1>6 DEF Carries, Arrives

(* What is not in the plane stays.                                         *)
LEMMA ReorderLeaves ==
  ASSUME NEW f, NEW i, NEW buf, NEW a \in DOMAIN buf, ~ InMega(f, i, a), NEW moved,
         Transformed(f, i, buf, moved) \/ Inverted(f, i, buf, moved)
  PROVE  Arrives(buf, a, moved, a)
<1>1. CASE ~ HasMegaBlocks(f.planes[i])
  BY <1>1 DEF Arrives, Transformed, Inverted, ReorderTransform, ReorderInverse
<1>2. CASE HasMegaBlocks(f.planes[i])
  <2>1. a - 8 * f.planes[i].base_offset \notin 0 .. 8 * f.planes[i].size - 1
    BY <1>2 DEF InMega
  <2> QED  BY <1>2, <2>1, OthersStay DEF Arrives, Transformed, Inverted, ReorderTransform, ReorderInverse
<1> QED  BY <1>1, <1>2

(* Reordered planes have no bit in common.                                 *)
LEMMA MegaApart ==
  ASSUME NEW f, Fits(f), Reorderable(f), NEW i \in DOMAIN f.planes, NEW j \in DOMAIN f.planes, i # j,
         NEW a \in Int, InMega(f, i, a)
  PROVE  ~ InMega(f, j, a)
<1> SUFFICES ASSUME InMega(f, j, a)
             PROVE  FALSE
  OBVIOUS
<1> DEFINE p == f.planes[i]
           r == f.planes[j]
<1>1. WellFormedPlane(p) /\ WellFormedPlane(r) /\ ~ PlanesOverlap(p, r)
  BY DEF Fits, WellFormed, Reorderable, InMega
<1>2. a - 8 * p.base_offset \in 0 .. 8 * p.size - 1 /\ a - 8 * r.base_offset \in 0 .. 8 * r.size - 1
  BY DEF InMega
<1> HIDE DEF p, r
<1>3. p.base_offset \in Nat /\ p.size \in Nat /\ r.base_offset \in Nat /\ r.size \in Nat
  BY <1>1 DEF WellFormedPlane
<1> QED  BY <1>1, <1>2, <1>3 DEF PlanesOverlap

LEMMA PlaceInFrame ==
  ASSUME NEW f, Fits(f), NEW q \in Places(f)
  PROVE  BitsAt(f, q) \subseteq 0 .. 8 * f.size - 1
<1> DEFINE pl == f.planes[SampleOf(f, q).plane]
<1>1. q[1] \in Channels /\ f.channel_blocks[q[1]].samples # <<>> /\ q[4] \in DOMAIN f.channel_blocks[q[1]].samples
  BY DEF Places
<1>2. SampleOf(f, q).plane \in DOMAIN f.planes
  BY <1>1 DEF Fits, WellFormed, WellFormedBlock, SampleOf
<1>3. WellFormedPlane(pl) /\ pl.base_offset + pl.size <= f.size
  BY <1>2 DEF Fits, WellFormed, PlacesInPlane
<1>4. BitsAt(f, q) \subseteq 8 * pl.base_offset .. 8 * (pl.base_offset + pl.size) - 1
  BY DEF Fits, PlacesInPlane
<1>5. pl.base_offset \in Nat /\ pl.size \in Nat /\ f.size \in Nat
  BY <1>3 DEF WellFormedPlane, Fits
<1> HIDE DEF pl
<1>6. (8 * pl.base_offset .. 8 * (pl.base_offset + pl.size) - 1) \subseteq 0 .. 8 * f.size - 1
  BY <1>3, <1>5
<1> QED  BY <1>4, <1>6

(* With one plane more in block order, every bit of a place is again where *)
(* that order has it.                                                      *)
LEMMA TransformMoves ==
  ASSUME NEW f, Fits(f), Reorderable(f), NEW p \in DOMAIN f.planes,
         NEW buf, DOMAIN buf = 0 .. 8 * f.size - 1,
         NEW alpha, NEW q \in Places(f), HoldsReordered(f, alpha, buf, 1, p - 1, q)
  PROVE  HoldsReordered(f, alpha, ReorderTransform(buf, f.planes[p], INDET), 1, p, q)
<1> DEFINE moved == ReorderTransform(buf, f.planes[p], INDET)
<1>1. DOMAIN moved = DOMAIN buf /\ p \in Nat \ {0}
  BY ReorderKeepsDomain DEF Reorderable
<1>2. \A a \in BitsAt(f, q) : a \in Int /\ a \in DOMAIN buf
  BY PlaceInFrame
<1>9. Transformed(f, p, buf, moved)
  BY DEF Transformed
<1> HIDE DEF moved
<1> SUFFICES ASSUME NEW a \in BitsAt(f, q)
             PROVE  \E b \in DOMAIN moved : Reordered(f, 1, p, a, b) /\ moved[b] = BitFor(f, alpha, q, a)
  BY DEF HoldsReordered, moved
<1>3. PICK b \in DOMAIN buf : Reordered(f, 1, p - 1, a, b) /\ buf[b] = BitFor(f, alpha, q, a)
  BY DEF HoldsReordered
<1>4. a \in Int /\ a \in DOMAIN buf
  BY <1>2
<1>5. \A i \in 1 .. p : i \in DOMAIN f.planes
  BY DEF Reorderable
<1>6. \A i \in 1 .. p - 1 : i \in 1 .. p /\ i # p
  BY <1>1
<1>7. CASE b = a /\ \A i \in 1 .. p - 1 : ~ InMega(f, i, a)
  <2>1. CASE InMega(f, p, a)
    <3>1. PICK e \in DOMAIN buf : Sends(f.planes[p], a, e) /\ Arrives(buf, a, moved, e)
      BY <1>4, <2>1, <1>9, TransformSends
    <3>2. Reordered(f, 1, p, a, e)
      <4>1. p \in 1 .. p
        BY <1>1
      <4> QED  BY <2>1, <3>1, <4>1 DEF Reordered
    <3> QED  BY <1>1, <1>3, <1>7, <3>1, <3>2 DEF Arrives
  <2>2. CASE ~ InMega(f, p, a)
    <3>1. Arrives(buf, a, moved, a)
      BY <1>4, <2>2, <1>9, ReorderLeaves
    <3>2. \A i \in 1 .. p : i \in 1 .. p - 1 \/ i = p
      BY <1>1
    <3>3. Reordered(f, 1, p, a, a)
      BY <1>7, <2>2, <3>2 DEF Reordered
    <3> QED  BY <1>1, <1>3, <1>4, <1>7, <3>1, <3>3 DEF Arrives
  <2> QED  BY <2>1, <2>2
<1>8. CASE \E i \in 1 .. p - 1 : InMega(f, i, a) /\ Sends(f.planes[i], a, b)
  <2>1. PICK i \in 1 .. p - 1 : InMega(f, i, a) /\ Sends(f.planes[i], a, b)
    BY <1>8
  <2>2. i \in DOMAIN f.planes /\ i # p /\ i \in 1 .. p
    BY <1>5, <1>6
  <2>3. InMega(f, i, b)
    BY <1>4, <2>1, <2>2, SendsInside
  <2>4. b \in Int
    OBVIOUS
  <2>5. ~ InMega(f, p, b)
    BY <2>2, <2>3, <2>4, MegaApart
  <2>6. Arrives(buf, b, moved, b)
    BY <2>5, <1>9, ReorderLeaves
  <2>7. Reordered(f, 1, p, a, b)
    BY <2>1, <2>2 DEF Reordered
  <2> QED  BY <1>1, <1>3, <2>6, <2>7 DEF Arrives
<1> QED  BY <1>3, <1>7, <1>8 DEF Reordered

(* With one plane less, too.                                               *)
LEMMA InverseMoves ==
  ASSUME NEW f, Fits(f), Reorderable(f), NEW p \in DOMAIN f.planes,
         NEW buf, DOMAIN buf = 0 .. 8 * f.size - 1,
         NEW alpha, NEW q \in Places(f), HoldsReordered(f, alpha, buf, p, Len(f.planes), q)
  PROVE  HoldsReordered(f, alpha, ReorderInverse(buf, f.planes[p], INDET), p + 1, Len(f.planes), q)
<1> DEFINE moved == ReorderInverse(buf, f.planes[p], INDET)
           n == Len(f.planes)
<1>1. DOMAIN moved = DOMAIN buf /\ p \in 1 .. n /\ n \in Nat
  BY ReorderKeepsDomain DEF Reorderable
<1>2. \A a \in BitsAt(f, q) : a \in Int /\ a \in DOMAIN buf
  BY PlaceInFrame
<1>12. Inverted(f, p, buf, moved)
  BY DEF Inverted
<1> HIDE DEF moved
<1> SUFFICES ASSUME NEW a \in BitsAt(f, q)
             PROVE  \E b \in DOMAIN moved : Reordered(f, p + 1, n, a, b) /\ moved[b] = BitFor(f, alpha, q, a)
  BY DEF HoldsReordered, moved
<1>3. PICK b \in DOMAIN buf : Reordered(f, p, n, a, b) /\ buf[b] = BitFor(f, alpha, q, a)
  BY DEF HoldsReordered
<1>4. a \in Int /\ a \in DOMAIN buf /\ b \in Int
  BY <1>2
<1>5. \A i \in p .. n : i \in DOMAIN f.planes
  BY <1>1 DEF Reorderable
<1>6. \A i \in p + 1 .. n : i \in p .. n /\ i # p
  BY <1>1
<1>7. p \in p .. n
  BY <1>1
<1>8. CASE b = a /\ \A i \in p .. n : ~ InMega(f, i, a)
  <2>1. Arrives(buf, a, moved, a)
    BY <1>4, <1>7, <1>8, <1>12, ReorderLeaves
  <2>2. Reordered(f, p + 1, n, a, a)
    BY <1>6, <1>8 DEF Reordered
  <2> QED  BY <1>1, <1>3, <1>4, <1>8, <2>1, <2>2 DEF Arrives
<1>9. CASE InMega(f, p, a) /\ Sends(f.planes[p], a, b)
  <2>1. Arrives(buf, b, moved, a)
    BY <1>4, <1>9, <1>12, InverseReturns
  <2>2. \A i \in p + 1 .. n : ~ InMega(f, i, a)
    <3> SUFFICES ASSUME NEW i \in p + 1 .. n
                 PROVE  ~ InMega(f, i, a)
      OBVIOUS
    <3>1. i \in DOMAIN f.planes /\ i # p
      BY <1>5, <1>6
    <3> QED  BY <1>4, <1>9, <3>1, MegaApart
  <2>3. Reordered(f, p + 1, n, a, a)
    BY <2>2 DEF Reordered
  <2> QED  BY <1>1, <1>3, <1>4, <2>1, <2>3 DEF Arrives
<1>10. CASE \E i \in p + 1 .. n : InMega(f, i, a) /\ Sends(f.planes[i], a, b)
  <2>1. PICK i \in p + 1 .. n : InMega(f, i, a) /\ Sends(f.planes[i], a, b)
    BY <1>10
  <2>2. i \in DOMAIN f.planes /\ i # p
    BY <1>5, <1>6
  <2>3. InMega(f, i, b)
    BY <1>4, <2>1, <2>2, SendsInside
  <2>4. ~ InMega(f, p, b)
    BY <1>4, <2>2, <2>3, MegaApart
  <2>5. Arrives(buf, b, moved, b)
    BY <2>4, <1>12, ReorderLeaves
  <2>6. Reordered(f, p + 1, n, a, b)
    BY <2>1 DEF Reordered
  <2> QED  BY <1>1, <1>3, <2>5, <2>6 DEF Arrives
<1>11. \A i \in p .. n : i = p \/ i \in p + 1 .. n
  BY <1>1
<1> QED  BY <1>3, <1>8, <1>9, <1>10, <1>11 DEF Reordered

(* With no plane in block order, every bit is where it belongs.            *)
LEMMA NothingReordered ==
  ASSUME NEW f, Fits(f), NEW alpha, NEW q \in Places(f), NEW buf, DOMAIN buf = 0 .. 8 * f.size - 1,
         NEW from \in Int, NEW to \in Int
  PROVE  /\ to < from /\ HoldsReordered(f, alpha, buf, from, to, q) => Holds(f, alpha, buf, q)
         /\ to < from /\ Holds(f, alpha, buf, q) => HoldsReordered(f, alpha, buf, from, to, q)
<1>1. \A a \in BitsAt(f, q) : a \in DOMAIN buf
  BY PlaceInFrame
<1>2. to < from => from .. to = {}
  OBVIOUS
<1>3. ASSUME to < from, HoldsReordered(f, alpha, buf, from, to, q)
      PROVE  Holds(f, alpha, buf, q)
  BY <1>2, <1>3 DEF HoldsReordered, Holds, Reordered
<1>4. ASSUME to < from, Holds(f, alpha, buf, q)
      PROVE  HoldsReordered(f, alpha, buf, from, to, q)
  <2> SUFFICES ASSUME NEW a \in BitsAt(f, q)
               PROVE  a \in DOMAIN buf /\ Reordered(f, from, to, a, a) /\ buf[a] = BitFor(f, alpha, q, a)
    BY DEF HoldsReordered
  <2> QED  BY <1>1, <1>2, <1>4 DEF Holds, Reordered
<1> QED  BY <1>3, <1>4

LEMMA NoMegaBlocks ==
  ASSUME NEW f, Fits(f), Reorderable(f), ~ NeedsReorder(f), NEW alpha, NEW q \in Places(f),
         NEW buf, HoldsReordered(f, alpha, buf, 1, Len(f.planes), q)
  PROVE  Holds(f, alpha, buf, q)
<1>1. \A i \in 1 .. Len(f.planes) : \A a : ~ InMega(f, i, a)
  BY DEF NeedsReorder, InMega, Reorderable
<1> QED  BY <1>1 DEF HoldsReordered, Holds, Reordered

-----------------------------------------------------------------------------
(* What comes next.                                                        *)

LEMMA PlacesVisited ==
  ASSUME WholeBlocks(fmt), NEW q \in Places(fmt)
  PROVE  /\ q[1] \in Channels /\ Visits(q[1]) /\ q[2] \in Nat /\ q[3] \in Nat
         /\ q[2] < NBlockLines(fmt, q[1]) /\ q[3] < NBlocksInLine(fmt, q[1])
         /\ q[4] \in 1 .. Len(Samples(q[1])) /\ Len(Samples(q[1])) \in Nat
         /\ q = <<q[1], q[2], q[3], q[4]>> /\ WholePixels(fmt.channel_blocks[q[1]])
         /\ fmt.channel_blocks[q[1]].samples # <<>>
<1>1. /\ q[1] \in Channels /\ fmt.channel_blocks[q[1]].samples # <<>>
      /\ q[2] \in 0 .. NBlockLines(fmt, q[1]) - 1 /\ q[3] \in 0 .. NBlocksInLine(fmt, q[1]) - 1
      /\ q[4] \in DOMAIN fmt.channel_blocks[q[1]].samples /\ q = <<q[1], q[2], q[3], q[4]>>
  BY DEF Places
<1>2. WholePixels(fmt.channel_blocks[q[1]])
  BY <1>1 DEF WholeBlocks
<1>3. NBlockLines(fmt, q[1]) \in Nat /\ NBlocksInLine(fmt, q[1]) \in Nat
  BY <1>1, BlocksCounted
<1> QED  BY <1>1, <1>2, <1>3, SMTT(40) DEF Visits, Samples, WholePixels

(* Nothing comes before the first pixel.                                   *)
LEMMA NothingBefore ==
  ASSUME WholeBlocks(fmt), NEW q \in Places(fmt)
  PROVE  FirstFrom(ChannelY) # NoChannel /\ ~ Done(q, FirstFrom(ChannelY))
<1>1. /\ q[1] \in Channels /\ Visits(q[1]) /\ q[2] \in Nat /\ q[3] \in Nat
      /\ q[4] \in 1 .. Len(Samples(q[1])) /\ Len(Samples(q[1])) \in Nat
  BY PlacesVisited
<1>2. ChannelY \in 1 .. ChannelA + 1 /\ q[1] \in ChannelY .. ChannelA /\ q[1] \in Int
  BY <1>1 DEF Channels, ChannelY, ChannelA
<1>3. PICK k \in ChannelY .. ChannelA : FirstFrom(ChannelY) = AtChannel(k) /\ \A j \in ChannelY .. k - 1 : ~ Visits(j)
  BY <1>1, <1>2, FirstFromVisits
<1>4. k \in Int /\ k <= ChannelA /\ ChannelA \in Int
  BY <1>2, <1>3 DEF ChannelY, ChannelA
<1>5. ~ (q[1] < k)
  BY <1>1, <1>2, <1>3, <1>4 DEF ChannelY
<1>6. ~ Done(q, AtChannel(k))
  BY <1>1, <1>2, <1>4, <1>5 DEF Done, AtChannel
<1>7. AtChannel(k) # NoChannel
  <2>1. AtChannel(k).ch = k /\ NoChannel.ch = ChannelA + 1
    BY DEF AtChannel, NoChannel
  <2> QED  BY <1>4, <2>1
<1> QED  BY <1>3, <1>6, <1>7

(* What is done at the next pixel was done, or belongs to this one.        *)
LEMMA NextCovers ==
  ASSUME WholeBlocks(fmt), AtPixel(fmt, pos), NEW next, next = NextPos(EndOf(fmt, pos)),
         NEW q \in Places(fmt), next # NoChannel => Done(q, next)
  PROVE  Done(q, pos) \/ Among(q, pos, pos.g, EndOf(fmt, pos))
<1> DEFINE e == EndOf(fmt, pos)
           n == Len(Samples(pos.ch))
           across == NBlocksInLine(fmt, pos.ch)
           down == NBlockLines(fmt, pos.ch)
<1>1. /\ q[1] \in Channels /\ Visits(q[1]) /\ q[2] \in Nat /\ q[3] \in Nat
      /\ q[2] < NBlockLines(fmt, q[1]) /\ q[3] < NBlocksInLine(fmt, q[1])
      /\ q[4] \in 1 .. Len(Samples(q[1]))
  BY PlacesVisited
<1>2. /\ pos.ch \in Channels /\ pos.line \in Nat /\ pos.b \in Nat /\ pos.g \in Nat
      /\ pos.line < down /\ pos.b < across /\ fmt.channel_blocks[pos.ch].samples # <<>>
  BY DEF AtPixel, Positions
<1>3. down \in Nat /\ across \in Nat
  BY <1>2, BlocksCounted
<1>4. /\ e \in pos.g .. n /\ n \in Nat
      /\ \/ e < n /\ IsPos(next, pos.ch, pos.line, pos.b, e + 1)
         \/ e = n /\ IsPos(next, pos.ch, pos.line, pos.b + 1, 1)
         \/ e = n /\ pos.b + 1 = across /\ IsPos(next, pos.ch, pos.line + 1, 0, 1)
         \/ e = n /\ pos.b + 1 = across /\ pos.line + 1 = down /\ next = NextChannel
  BY NextPosIs
<1>5. q[1] \in Int /\ q[4] \in Int /\ pos.ch \in Int /\ q[1] \in 1 .. 4 /\ pos.ch \in 1 .. 4
  BY <1>1, <1>2 DEF Channels, ChannelY, ChannelA
<1>6. q[1] = pos.ch => q[2] < down /\ q[3] < across /\ q[4] \in 1 .. n
  BY <1>1
<1> HIDE DEF e, n, across, down
<1> SUFFICES Done(q, pos) \/ Among(q, pos, pos.g, e)
  BY DEF e
<1>7. IsPos(next, pos.ch, next.line, next.b, next.g) => next # NoChannel
  <2>1. NoChannel.ch = 5
    BY DEF NoChannel, AtChannel, ChannelA
  <2> QED  BY <1>5, <2>1 DEF IsPos
<1>12. ASSUME q[1] < pos.ch \/ (q[1] = pos.ch /\ q[2] <= pos.line), e = n, pos.b + 1 = across
      PROVE  Done(q, pos) \/ Among(q, pos, pos.g, e)
  <2>1. q[1] = pos.ch => q[3] <= pos.b
    BY <1>1, <1>2, <1>3, <1>6, <1>12
  <2>2. q[1] = pos.ch => q[4] < pos.g \/ q[4] \in pos.g .. e
    BY <1>2, <1>4, <1>6, <1>12
  <2>3. q[2] <= pos.line => q[2] < pos.line \/ q[2] = pos.line
    BY <1>1, <1>2
  <2>4. q[1] = pos.ch => q[3] < pos.b \/ q[3] = pos.b
    BY <1>1, <1>2, <2>1
  <2>5. CASE q[1] < pos.ch
    BY <2>5 DEF Done
  <2>6. CASE q[1] = pos.ch /\ q[2] <= pos.line
    <3>1. CASE q[2] < pos.line
      BY <2>6, <3>1 DEF Done
    <3>2. CASE q[2] = pos.line /\ q[3] < pos.b
      BY <2>6, <3>2 DEF Done
    <3>3. CASE q[2] = pos.line /\ q[3] = pos.b
      BY <2>2, <2>6, <3>3 DEF Done, Among
    <3> QED  BY <2>3, <2>4, <2>6, <3>1, <3>2, <3>3
  <2> QED  BY <1>12, <2>5, <2>6
<1>8. CASE e < n /\ IsPos(next, pos.ch, pos.line, pos.b, e + 1)
  BY <1>1, <1>2, <1>4, <1>5, <1>7, <1>8 DEF Done, Among, IsPos
<1>9. CASE e = n /\ IsPos(next, pos.ch, pos.line, pos.b + 1, 1)
  BY <1>1, <1>2, <1>4, <1>5, <1>6, <1>7, <1>9, SMTT(40) DEF Done, Among, IsPos
<1>10. CASE e = n /\ pos.b + 1 = across /\ IsPos(next, pos.ch, pos.line + 1, 0, 1)
  <2>1. next.ch = pos.ch /\ next.line = pos.line + 1 /\ next.b = 0 /\ next.g = 1 /\ Done(q, next)
    BY <1>7, <1>10 DEF IsPos
  <2>2. q[1] < pos.ch \/ (q[1] = pos.ch /\ q[2] <= pos.line)
    BY <1>1, <1>2, <1>5, <2>1 DEF Done
  <2> QED  BY <1>10, <1>12, <2>2
<1>11. CASE e = n /\ pos.b + 1 = across /\ pos.line + 1 = down /\ next = NextChannel
  <2>1. q[1] <= pos.ch
    <3> SUFFICES ASSUME q[1] > pos.ch
                 PROVE  FALSE
      BY <1>5
    <3>1. pos.ch + 1 \in 1 .. ChannelA + 1 /\ q[1] \in pos.ch + 1 .. ChannelA
      BY <1>5 DEF ChannelA
    <3>2. PICK k \in pos.ch + 1 .. ChannelA :
            next = AtChannel(k) /\ \A j \in pos.ch + 1 .. k - 1 : ~ Visits(j)
      BY <1>1, <1>11, <3>1, FirstFromVisits DEF NextChannel
    <3>3. k \in Int /\ k <= 4
      BY <1>5, <3>2 DEF ChannelA
    <3>4. next # NoChannel
      <4>1. NoChannel.ch = 5 /\ next.ch = k
        BY <3>2 DEF NoChannel, AtChannel, ChannelA
      <4> QED  BY <3>3, <4>1
    <3>5. q[1] < k
      BY <1>1, <1>5, <3>2, <3>3, <3>4 DEF Done, AtChannel
    <3>6. q[1] \in pos.ch + 1 .. k - 1
      BY <1>5, <3>1, <3>3, <3>5
    <3> QED  BY <1>1, <3>2, <3>6
  <2>2. q[1] = pos.ch => q[2] <= pos.line
    BY <1>1, <1>2, <1>3, <1>6, <1>11
  <2>3. q[1] < pos.ch \/ (q[1] = pos.ch /\ q[2] <= pos.line)
    BY <1>5, <2>1, <2>2
  <2> QED  BY <1>11, <1>12, <2>3
<1> QED  BY <1>4, <1>8, <1>9, <1>10, <1>11 DEF e

(* The next pixel starts a group.                                          *)
LEMMA NextStartsGroup ==
  ASSUME WholeBlocks(fmt), AtPixel(fmt, pos), NEW next, next = NextPos(EndOf(fmt, pos)), next # NoChannel
  PROVE  StartsGroup(Samples(next.ch), next.g)
<1> DEFINE e == EndOf(fmt, pos)
<1>1. ~ Samples(pos.ch)[e].has_continuation /\ e \in Int
  BY EndOfGroup
<1> HIDE DEF e
<1>2. CASE IsPos(next, pos.ch, pos.line, pos.b, e + 1)
  <2>1. next.g - 1 = e /\ next.ch = pos.ch
    BY <1>1, <1>2 DEF IsPos
  <2> QED  BY <1>1, <2>1, Zenon DEF StartsGroup
<1>3. CASE next.g = 1
  BY <1>3, Zenon DEF StartsGroup
<1>4. next = NextChannel => next.g = 1
  <2>1. pos.ch + 1 \in 1 .. ChannelA + 1
    BY DEF AtPixel, Positions, Channels, ChannelY, ChannelA
  <2> QED  BY <2>1, FirstFromVisits DEF NextChannel, AtChannel
<1> QED  BY <1>2, <1>3, <1>4, NextPosIs DEF IsPos, e

-----------------------------------------------------------------------------
(* Pixels.                                                                 *)

LEMMA GroupEndIs ==
  ASSUME NEW smps, NEW g \in Int, Len(smps) \in Nat, NEW e \in g .. Len(smps), ~ smps[e].has_continuation,
         \A i \in g .. e - 1 : smps[i].has_continuation
  PROVE  GroupEnd(smps, g) = e
<1>1. \A d \in g .. Len(smps) :
        ~ smps[d].has_continuation /\ (\A i \in g .. d - 1 : smps[i].has_continuation) => d = e
  <2> SUFFICES ASSUME NEW d \in g .. Len(smps), ~ smps[d].has_continuation,
                      \A i \in g .. d - 1 : smps[i].has_continuation, d # e
               PROVE  FALSE
    OBVIOUS
  <2>1. d < e \/ e < d
    OBVIOUS
  <2>2. d < e => d \in g .. e - 1
    OBVIOUS
  <2>3. e < d => e \in g .. d - 1
    OBVIOUS
  <2> QED  BY <2>1, <2>2, <2>3
<1> QED  BY <1>1 DEF GroupEnd

(* The samples of a group are all of the same pixel.                       *)
LEMMA InGroup ==
  ASSUME NEW blk, WholePixels(blk), NEW g \in DOMAIN blk.samples,
         NEW i \in g .. GroupEnd(blk.samples, g)
  PROVE  /\ GroupEnd(blk.samples, i) = GroupEnd(blk.samples, g)
         /\ EndsTo(blk.samples, i - 1) = EndsTo(blk.samples, g - 1)
         /\ i \in DOMAIN blk.samples
<1> DEFINE e == GroupEnd(blk.samples, g)
           n == Len(blk.samples)
<1>1. /\ e \in g .. n /\ ~ blk.samples[e].has_continuation
      /\ \A j \in g .. e - 1 : blk.samples[j].has_continuation
      /\ n \in Nat /\ DOMAIN blk.samples = 1 .. n /\ g \in 1 .. n
  BY GroupsEnd DEF WholePixels
<1> HIDE DEF e
<1>2. i \in g .. e
  BY DEF e
<1>3. i \in Int /\ e \in i .. n /\ (\A j \in i .. e - 1 : j \in g .. e - 1)
  BY <1>1, <1>2
<1>4. GroupEnd(blk.samples, i) = e
  BY <1>1, <1>3, GroupEndIs
<1>5. EndsTo(blk.samples, i - 1) = EndsTo(blk.samples, g - 1)
  <2>1. \A j \in 1 .. i - 1 : j \in 1 .. g - 1 \/ j \in g .. e - 1
    BY <1>1, <1>2
  <2>2. \A j \in 1 .. g - 1 : j \in 1 .. i - 1
    BY <1>1, <1>2
  <2> QED  BY <1>1, <2>1, <2>2 DEF EndsTo
<1> QED  BY <1>1, <1>2, <1>4, <1>5 DEF e

(* Every end counts.                                                       *)
LEMMA MoreEnds ==
  ASSUME NEW smps, NEW m \in Nat, NEW n \in Nat, NEW j \in m + 1 .. n, ~ smps[j].has_continuation
  PROVE  Cardinality(EndsTo(smps, m)) # Cardinality(EndsTo(smps, n))
<1>1. IsFiniteSet(EndsTo(smps, n))
  BY EndsFinite
<1>2. EndsTo(smps, m) \in SUBSET EndsTo(smps, n)
  BY DEF EndsTo
<1>3. j \in EndsTo(smps, n) /\ j \notin EndsTo(smps, m)
  BY DEF EndsTo
<1> QED  BY <1>1, <1>2, <1>3, FS_Subset

(* The place of a sample and the iterator name the same pixel.             *)
LEMMA PixelAtPlace ==
  ASSUME WholeBlocks(fmt), AtPixelInStep(fmt, pos, it), NEW i \in pos.g .. EndOf(fmt, pos)
  PROVE  PixelOf(fmt, PlaceAt(pos, i)) = SurfaceIndex(pos.ch)
<1> DEFINE blk == fmt.channel_blocks[pos.ch]
           k == Cardinality(EndsTo(blk.samples, pos.g - 1))
<1>1. /\ pos.ch \in Channels /\ pos.line \in Nat /\ pos.b \in Nat /\ blk.samples # <<>> /\ pos.g \in DOMAIN blk.samples
      /\ EndOf(fmt, pos) = GroupEnd(blk.samples, pos.g)
  BY DEF AtPixelInStep, AtPixel, Positions, EndOf
<1>2. WholePixels(blk) /\ blk.w \in Nat \ {0} /\ blk.h \in Nat \ {0} /\ SurfaceW(fmt, pos.ch) \in Nat
  BY <1>1 DEF WholeBlocks, WholePixels
<1>3. /\ it \in [block_x : Nat, block_y : Nat, x : 0 .. blk.w - 1, y : 0 .. blk.h - 1]
      /\ it.block_x = pos.b * blk.w /\ it.block_y = pos.line * blk.h /\ it.y * blk.w + it.x = k
  BY DEF AtPixelInStep, InStep
<1>4. k \div blk.w = it.y /\ k % blk.w = it.x /\ it.x \in Nat /\ it.y \in Nat
  <2> DEFINE y == it.y
             x == it.x
             w == blk.w
  <2>1. y \in Nat /\ x \in 0 .. w - 1 /\ w \in Nat \ {0} /\ y * w + x = k
    BY <1>2, <1>3
  <2> HIDE DEF y, x, w, k
  <2>2. (y * w + x) \div w = y /\ (y * w + x) % w = x
    BY <2>1, TwoDigits
  <2> QED  BY <2>1, <2>2 DEF y, x, w
<1>5. Cardinality(EndsTo(blk.samples, i - 1)) = k
  <2> HIDE DEF blk
  <2>1. EndsTo(blk.samples, i - 1) = EndsTo(blk.samples, pos.g - 1)
    BY <1>1, <1>2, InGroup
  <2> QED  BY <2>1
<1>6. PixelOf(fmt, PlaceAt(pos, i))
        = (pos.line * blk.h + it.y) * SurfaceW(fmt, pos.ch) + (pos.b * blk.w + it.x) + 1
  BY <1>4, <1>5 DEF PixelOf, PlaceAt
<1>7. PixelOf(fmt, PlaceAt(pos, i))
        = (it.block_y + it.y) * SurfaceW(fmt, pos.ch) + (it.block_x + it.x) + 1
  BY <1>3, <1>6
<1> DEFINE row == (it.block_y + it.y) * SurfaceW(fmt, pos.ch)
<1>8. row \in Int /\ it.block_x \in Int
  <2>1. it.block_y \in Nat /\ it.block_x \in Nat
    BY <1>3
  <2> DEFINE r == it.block_y + it.y
             W == SurfaceW(fmt, pos.ch)
  <2>2. r \in Nat /\ W \in Nat
    BY <1>2, <1>4, <2>1
  <2> HIDE DEF r, W
  <2>3. r * W \in Nat
    BY <2>2, Z3
  <2> QED  BY <2>1, <2>3 DEF r, W
<1>9. SurfaceIndex(pos.ch) = row + it.block_x + it.x + 1 /\ PixelOf(fmt, PlaceAt(pos, i)) = row + (it.block_x + it.x) + 1
  BY <1>7 DEF SurfaceIndex
<1> HIDE DEF row
<1> QED  BY <1>4, <1>8, <1>9

(* The bits of a group below, from and up to a sample of it.               *)
LEMMA BitsOfGroup ==
  ASSUME WholeBlocks(fmt), Fits(fmt), AtPixel(fmt, pos), NEW i \in pos.g .. EndOf(fmt, pos)
  PROVE  /\ Below(fmt, PlaceAt(pos, i)) = BitsOfSamples(Samples(pos.ch), i + 1, EndOf(fmt, pos))
         /\ Below(fmt, PlaceAt(pos, i)) \in Nat
         /\ SampleBits(Samples(pos.ch)[i]) \in Nat
         /\ BitsFrom(fmt, pos, i - 1) \in Nat
         /\ BitsFrom(fmt, pos, i) = BitsFrom(fmt, pos, i - 1) + SampleBits(Samples(pos.ch)[i])
         /\ i = pos.g => BitsFrom(fmt, pos, i - 1) = 0
         /\ i = EndOf(fmt, pos) => Below(fmt, PlaceAt(pos, i)) = 0
         /\ i > pos.g =>
              Below(fmt, PlaceAt(pos, i - 1)) = Below(fmt, PlaceAt(pos, i)) + SampleBits(Samples(pos.ch)[i])
<1> DEFINE blk == fmt.channel_blocks[pos.ch]
           smps == blk.samples
           g == pos.g
           e == GroupEnd(smps, g)
<1>1. pos.ch \in Channels /\ smps # <<>> /\ g \in DOMAIN smps /\ EndOf(fmt, pos) = e /\ Samples(pos.ch) = smps
  BY DEF AtPixel, Positions, EndOf, Samples
<1>2. WholePixels(blk)
  BY <1>1 DEF WholeBlocks
<1>3. DOMAIN smps = 1 .. Len(smps) /\ Len(smps) \in Nat /\ e \in g .. Len(smps)
  <2> HIDE DEF blk
  <2> QED  BY <1>1, <1>2, GroupsEnd DEF WholePixels
<1>4. \A j \in g .. e : SampleBits(smps[j]) \in Nat
  <2>1. WellFormedBlock(blk, DOMAIN fmt.planes)
    BY <1>1 DEF Fits, WellFormed
  <2>2. \A j \in DOMAIN smps : smps[j].integer_bits \in Nat /\ smps[j].fractional_bits \in Nat
    <3> HIDE DEF blk
    <3> QED  BY <2>1 DEF WellFormedBlock
  <2>3. \A j \in DOMAIN smps : SampleBits(smps[j]) \in Nat
    BY <2>2 DEF SampleBits
  <2> QED  BY <1>1, <1>3, <2>3
<1>5. \A j \in g .. e : GroupEnd(smps, j) = e
  <2> HIDE DEF blk
  <2> QED  BY <1>1, <1>2, InGroup
<1>6. \A j : Below(fmt, PlaceAt(pos, j)) = BitsOfSamples(smps, j + 1, GroupEnd(smps, j)) /\ BitsFrom(fmt, pos, j) = BitsOfSamples(smps, g, j)
  BY DEF Below, SamplesOf, PlaceAt, BitsFrom
<1> HIDE DEF smps, g, e
<1>7. g \in Int /\ e \in Int /\ i \in g .. e /\ i \in Int
  BY <1>1, <1>3 DEF g
<1>8. SampleBits(smps[i]) \in Nat /\ Below(fmt, PlaceAt(pos, i)) = BitsOfSamples(smps, i + 1, e)
  BY <1>4, <1>5, <1>6, <1>7
<1>9. BitsOfSamples(smps, i, i) = SampleBits(smps[i])
  BY <1>7, <1>8, BitsOfOne
<1>10. BitsOfSamples(smps, i + 1, e) \in Nat /\ BitsOfSamples(smps, g, i - 1) \in Nat
  <2>1. i + 1 \in Int /\ i - 1 \in Int /\ (\A j \in i + 1 .. e : j \in g .. e) /\ (\A j \in g .. i - 1 : j \in g .. e)
    BY <1>7
  <2> QED  BY <1>4, <1>7, <2>1, BitsFinite
<1>11. BitsOfSamples(smps, g, i) = BitsOfSamples(smps, g, i - 1) + BitsOfSamples(smps, i, i)
  <2> DEFINE m == i - 1
  <2>1. m \in g - 1 .. i /\ m + 1 = i /\ \A j \in g .. i : j \in g .. e
    BY <1>7
  <2> HIDE DEF m
  <2>2. BitsOfSamples(smps, g, i) = BitsOfSamples(smps, g, m) + BitsOfSamples(smps, m + 1, i)
    BY <1>4, <1>7, <2>1, BitsAdd
  <2> QED  BY <2>1, <2>2 DEF m
<1>12. BitsOfSamples(smps, i, e) = BitsOfSamples(smps, i, i) + BitsOfSamples(smps, i + 1, e)
  <2>1. i \in i - 1 .. e /\ \A j \in i .. e : j \in g .. e
    BY <1>7
  <2> QED  BY <1>4, <1>7, <2>1, BitsAdd
<1>13. i = g => BitsOfSamples(smps, g, i - 1) = 0
  <2>1. i = g => i - 1 < g
    BY <1>7
  <2>2. i - 1 \in Int
    BY <1>7
  <2> QED  BY <1>7, <2>1, <2>2, BitsOfNone
<1>14. i = e => BitsOfSamples(smps, i + 1, e) = 0
  <2>1. i = e => e < i + 1
    BY <1>7
  <2>2. i + 1 \in Int
    BY <1>7
  <2> QED  BY <1>7, <2>1, <2>2, BitsOfNone
<1>15. i > g => Below(fmt, PlaceAt(pos, i - 1)) = BitsOfSamples(smps, i, e)
  <2>1. i > g => i - 1 \in g .. e /\ (i - 1) + 1 = i
    BY <1>7
  <2> QED  BY <1>5, <1>6, <2>1
<1>16. /\ BitsFrom(fmt, pos, i - 1) = BitsOfSamples(smps, g, i - 1)
       /\ BitsFrom(fmt, pos, i) = BitsOfSamples(smps, g, i)
  BY <1>6
<1> QED  BY <1>1, <1>8, <1>9, <1>10, <1>11, <1>12, <1>13, <1>14, <1>15, <1>16 DEF g

-----------------------------------------------------------------------------
(* Parts of a pixel.                                                       *)

PartBits(alpha, c, i) == {SourceBit(alpha, c, i, k) : k \in Nat}

IsPart(p, alpha, c, i, m, n) ==
  /\ p \in Seq(PartBits(alpha, c, i)) /\ Len(p) = n
  /\ \A k \in 1 .. n : p[k] = SourceBit(alpha, c, i, m + k)

LEMMA PartIsSeq ==
  ASSUME NEW alpha, NEW c, NEW i, NEW m \in Nat, NEW n \in Nat
  PROVE  IsPart(Part(alpha, c, i, m, n), alpha, c, i, m, n)
<1> DEFINE S == PartBits(alpha, c, i)
           p == Part(alpha, c, i, m, n)
<1>1. \A k \in 1 .. n : SourceBit(alpha, c, i, m + k) \in S
  BY DEF PartBits
<1>2. p \in [1 .. n -> S]
  BY <1>1 DEF Part
<1>3. \A k \in 1 .. n : p[k] = SourceBit(alpha, c, i, m + k)
  BY DEF Part
<1> HIDE DEF p, S
<1>4. p \in Seq(S) /\ Len(p) = n
  BY <1>2
<1> QED  BY <1>3, <1>4 DEF p, S, IsPart

LEMMA SamePart ==
  ASSUME NEW alpha, NEW c, NEW i, NEW m \in Nat, NEW n \in Nat, NEW p, NEW r,
         IsPart(p, alpha, c, i, m, n), IsPart(r, alpha, c, i, m, n)
  PROVE  p = r
<1> DEFINE S == PartBits(alpha, c, i)
<1>1. p \in Seq(S) /\ r \in Seq(S) /\ Len(p) = n /\ Len(r) = n /\ \A k \in 1 .. n : p[k] = r[k]
  BY DEF IsPart
<1> HIDE DEF S
<1> QED  BY <1>1, SeqEqual

LEMMA PartRest ==
  ASSUME NEW alpha, NEW c, NEW i, NEW m \in Nat, NEW n \in Nat, NEW w \in Nat,
         NEW wn \in Nat, wn = w + n, NEW mw \in Nat, mw = m + w, NEW p, IsPart(p, alpha, c, i, m, wn)
  PROVE  IsPart(SubSeq(p, w + 1, wn), alpha, c, i, mw, n)
<1> DEFINE S == PartBits(alpha, c, i)
           t == SubSeq(p, w + 1, wn)
<1>1. p \in Seq(S) /\ Len(p) = wn /\ \A k \in 1 .. wn : p[k] = SourceBit(alpha, c, i, m + k)
  BY DEF IsPart
<1> HIDE DEF S
<1>2. \A k \in w + 1 .. wn : p[k] \in S
  BY <1>1
<1>3. /\ t \in Seq(S) /\ Len(t) = IF w + 1 <= wn THEN wn - (w + 1) + 1 ELSE 0
      /\ \A k \in 1 .. wn - (w + 1) + 1 : t[k] = p[(w + 1) + k - 1]
  <2>1. w + 1 \in Int /\ wn \in Int
    OBVIOUS
  <2> QED  BY <1>2, <2>1, SubSeqProperties
<1> HIDE DEF t
<1>4. Len(t) = n
  BY <1>3
<1>5. ASSUME NEW k \in 1 .. n
      PROVE  t[k] = SourceBit(alpha, c, i, mw + k)
  <2>1. k \in 1 .. wn - (w + 1) + 1 /\ (w + 1) + k - 1 = k + w /\ k + w \in 1 .. wn /\ m + (k + w) = mw + k
    OBVIOUS
  <2>2. t[k] = p[k + w]
    BY <1>3, <2>1
  <2>3. p[k + w] = SourceBit(alpha, c, i, m + (k + w))
    BY <1>1, <2>1
  <2> QED  BY <2>1, <2>2, <2>3
<1>6. IsPart(t, alpha, c, i, mw, n)
  BY <1>3, <1>4, <1>5 DEF IsPart, S
<1> QED  BY <1>6 DEF t

LEMMA PartsJoin ==
  ASSUME NEW alpha, NEW c, NEW i, NEW m \in Nat, NEW n \in Nat, NEW w \in Nat,
         NEW wn \in Nat, wn = w + n, NEW mw \in Nat, mw = m + w,
         NEW l, IsPart(l, alpha, c, i, m, w), NEW r, IsPart(r, alpha, c, i, mw, n)
  PROVE  IsPart(l \o r, alpha, c, i, m, wn)
<1> DEFINE S == PartBits(alpha, c, i)
           t == l \o r
<1>1. l \in Seq(S) /\ Len(l) = w /\ \A k \in 1 .. w : l[k] = SourceBit(alpha, c, i, m + k)
  BY DEF IsPart
<1>2. r \in Seq(S) /\ Len(r) = n /\ \A k \in 1 .. n : r[k] = SourceBit(alpha, c, i, mw + k)
  BY DEF IsPart
<1> HIDE DEF S
<1>3. t \in Seq(S) /\ Len(t) = wn /\ \A k \in 1 .. w + n : t[k] = IF k <= w THEN l[k] ELSE r[k - w]
  BY <1>1, <1>2, ConcatProperties
<1> HIDE DEF t
<1>4. ASSUME NEW k \in 1 .. wn
      PROVE  t[k] = SourceBit(alpha, c, i, m + k)
  <2>1. CASE k <= w
    BY <1>1, <1>3, <2>1
  <2>2. CASE ~ (k <= w)
    <3>1. k - w \in 1 .. n /\ mw + (k - w) = m + k
      BY <2>2
    <3>2. t[k] = r[k - w]
      BY <1>3, <2>2
    <3>3. r[k - w] = SourceBit(alpha, c, i, mw + (k - w))
      BY <1>2, <3>1
    <3> QED  BY <3>1, <3>2, <3>3
  <2> QED  BY <2>1, <2>2
<1>5. IsPart(t, alpha, c, i, m, wn)
  BY <1>3, <1>4 DEF IsPart, S
<1> QED  BY <1>5 DEF t

LEMMA OnePixel ==
  ASSUME WholeBlocks(fmt), AtPixel(fmt, pos), NEW i \in pos.g .. EndOf(fmt, pos), NEW j \in pos.g .. EndOf(fmt, pos)
  PROVE  PixelOf(fmt, PlaceAt(pos, i)) = PixelOf(fmt, PlaceAt(pos, j))
<1> DEFINE blk == fmt.channel_blocks[pos.ch]
<1>1. /\ pos.ch \in Channels /\ blk.samples # <<>> /\ pos.g \in DOMAIN blk.samples
      /\ EndOf(fmt, pos) = GroupEnd(blk.samples, pos.g)
  BY DEF AtPixel, Positions, EndOf
<1>2. WholePixels(blk)
  BY <1>1 DEF WholeBlocks
<1>3. EndsTo(blk.samples, i - 1) = EndsTo(blk.samples, j - 1)
  <2> HIDE DEF blk
  <2>1. EndsTo(blk.samples, i - 1) = EndsTo(blk.samples, pos.g - 1)
    BY <1>1, <1>2, InGroup
  <2>2. EndsTo(blk.samples, j - 1) = EndsTo(blk.samples, pos.g - 1)
    BY <1>1, <1>2, InGroup
  <2> QED  BY <2>1, <2>2
<1> QED  BY <1>3 DEF PixelOf, PlaceAt

LEMMA PartNow ==
  ASSUME WholeBlocks(fmt), Fits(fmt), AtPixel(fmt, pos), NEW i \in pos.g .. EndOf(fmt, pos), NEW alpha,
         NEW v, v = PartFrom(fmt, alpha, PlaceAt(pos, i), BitsFrom(fmt, pos, i))
  PROVE  IsPart(v, alpha, pos.ch, PixelOf(fmt, PlaceAt(pos, i)), Below(fmt, PlaceAt(pos, i)), BitsFrom(fmt, pos, i))
<1> DEFINE q == PlaceAt(pos, i)
           p == PixelOf(fmt, q)
           m == Below(fmt, q)
           n == BitsFrom(fmt, pos, i)
<1>1. m \in Nat
  BY BitsOfGroup
<1>2. n \in Nat
  <2> DEFINE w == SampleBits(Samples(pos.ch)[i])
             r == BitsFrom(fmt, pos, i - 1)
  <2>1. w \in Nat /\ r \in Nat /\ n = r + w
    BY BitsOfGroup
  <2> HIDE DEF w, r, n
  <2> QED  BY <2>1
<1>3. q[1] = pos.ch
  BY DEF PlaceAt
<1>4. v = Part(alpha, pos.ch, p, m, n)
  BY <1>3 DEF PartFrom
<1> HIDE DEF p, m, n, q
<1>5. IsPart(v, alpha, pos.ch, p, m, n)
  BY <1>1, <1>2, <1>4, PartIsSeq
<1> QED  BY <1>5 DEF p, m, n, q

(* An empty value.                                                         *)
LEMMA NoPart ==
  ASSUME NEW f, NEW alpha, NEW q
  PROVE  PartFrom(f, alpha, q, 0) = <<>>
<1>1. 1 .. 0 = {}
  OBVIOUS
<1>2. \A h \in [{} -> {}] : h = <<>>
  OBVIOUS
<1>3. PartFrom(f, alpha, q, 0) \in [{} -> {}]
  BY <1>1 DEF PartFrom, Part
<1> QED  BY <1>2, <1>3

(* load_pixel takes all bits of the pixel.                                 *)
LEMMA LoadTakesAll ==
  ASSUME WholeBlocks(fmt), Fits(fmt), AtPixelInStep(fmt, pos, it), NEW e, e = EndOf(fmt, pos)
  PROVE  SourceBits(pos.ch, SurfaceIndex(pos.ch), BitsFrom(fmt, pos, e))
           = PartFrom(fmt, has_alpha, PlaceAt(pos, e), BitsFrom(fmt, pos, e))
<1> DEFINE q == PlaceAt(pos, e)
           n == BitsFrom(fmt, pos, e)
           i == SurfaceIndex(pos.ch)
<1>1. AtPixel(fmt, pos) /\ e \in pos.g .. EndOf(fmt, pos)
  BY EndOfGroup DEF AtPixelInStep
<1>2. PixelOf(fmt, q) = i
  BY <1>1, PixelAtPlace
<1>3. Below(fmt, q) = 0
  BY <1>1, BitsOfGroup
<1>4. q[1] = pos.ch
  BY DEF PlaceAt
<1> HIDE DEF q, n, i
<1>5. PartFrom(fmt, has_alpha, q, n) = [k \in 1 .. n |-> SourceBit(has_alpha, pos.ch, i, 0 + k)]
  BY <1>2, <1>3, <1>4 DEF PartFrom, Part
<1>6. \A k \in 1 .. n : 0 + k = k
  OBVIOUS
<1>7. PartFrom(fmt, has_alpha, q, n) = [k \in 1 .. n |-> SourceBit(has_alpha, pos.ch, i, k)]
  BY <1>5, <1>6
<1>8. SourceBits(pos.ch, i, n) = [k \in 1 .. n |-> SourceBit(has_alpha, pos.ch, i, k)]
  <2>1. CASE pos.ch = ChannelA /\ ~ has_alpha
    BY <2>1 DEF SourceBits, SourceBit, Bits
  <2>2. CASE ~ (pos.ch = ChannelA /\ ~ has_alpha)
    BY <2>2 DEF SourceBits, SourceBit, Bits
  <2> QED  BY <2>1, <2>2
<1> QED  BY <1>7, <1>8 DEF q, n, i

LEMMA FirstBitIsNumber ==
  ASSUME WholeBlocks(fmt), Fits(fmt), NEW q \in Places(fmt)
  PROVE  FirstBit(fmt, q) \in Int /\ SampleBits(SampleOf(fmt, q)) \in Nat
<1> DEFINE smp == SampleOf(fmt, q)
           pl == fmt.planes[smp.plane]
           l == GetLine(q[2], pl.interleave_mode, NBlockLines(fmt, q[1]))
<1>1. /\ q[1] \in Channels /\ q[2] \in Nat /\ q[3] \in Nat /\ q[2] < NBlockLines(fmt, q[1])
      /\ q[4] \in DOMAIN fmt.channel_blocks[q[1]].samples /\ fmt.channel_blocks[q[1]].samples # <<>>
      /\ NBlockLines(fmt, q[1]) \in Nat
  <2>1. /\ q[1] \in Channels /\ fmt.channel_blocks[q[1]].samples # <<>> /\ q[2] \in Nat /\ q[3] \in Nat
        /\ q[2] < NBlockLines(fmt, q[1])
    BY PlacesVisited
  <2>2. q[4] \in DOMAIN fmt.channel_blocks[q[1]].samples
    BY DEF Places
  <2> QED  BY <2>1, <2>2, BlocksCounted
<1>2. WellFormedBlock(fmt.channel_blocks[q[1]], DOMAIN fmt.planes)
  BY <1>1, SMTT(40) DEF Fits, WellFormed
<1>3. smp.plane \in DOMAIN fmt.planes /\ smp.integer_bits \in Nat /\ smp.fractional_bits \in Nat /\ smp.offset \in Nat
  BY <1>1, <1>2 DEF WellFormedBlock, SampleOf
<1>4. WellFormedPlane(pl)
  BY <1>3 DEF Fits, WellFormed
<1> HIDE DEF pl, smp
<1>5. /\ pl.base_offset \in Nat /\ pl.size \in Nat /\ pl.line_stride \in Nat /\ pl.block_stride \in Nat
      /\ pl.interleave_mode \in InterleaveModes
  BY <1>4 DEF WellFormedPlane
<1>6. l \in Int
  <2>1. q[2] \in 0 .. NBlockLines(fmt, q[1]) - 1
    BY <1>1
  <2>2. l \in 0 .. NBlockLines(fmt, q[1]) - 1
    BY <1>1, <1>5, <2>1, GetLineInside
  <2> QED  BY <2>2
<1>7. FirstBit(fmt, q) = LineBit(fmt, pl, l) + q[3] * pl.block_stride + smp.offset
  BY DEF FirstBit, SampleBit, smp, pl
<1> HIDE DEF l
<1> DEFINE x == l * pl.line_stride
           y == q[3] * pl.block_stride
<1>8. x \in Int /\ y \in Int
  <2>1. pl.line_stride \in Int /\ pl.block_stride \in Int /\ q[3] \in Int
    BY <1>1, <1>5
  <2> QED  BY <1>6, <2>1, Multiplies
<1>9. LineBit(fmt, pl, l) = 8 * (pl.base_offset + (IF fmt.origin = "lower_left" THEN pl.size - pl.line_stride - x ELSE x))
  BY DEF LineBit
<1> HIDE DEF x
<1>10. LineBit(fmt, pl, l) \in Int
  BY <1>5, <1>8, <1>9
<1>11. FirstBit(fmt, q) = LineBit(fmt, pl, l) + y + smp.offset
  BY <1>7
<1> HIDE DEF y
<1>12. FirstBit(fmt, q) \in Int
  BY <1>3, <1>8, <1>10, <1>11
<1>13. SampleBits(smp) \in Nat
  BY <1>3 DEF SampleBits
<1> QED  BY <1>12, <1>13 DEF smp

(* The bits of the value that a sample takes, or gave, are those that      *)
(* belong there.                                                           *)
LEMMA SampleOfValue ==
  ASSUME WholeBlocks(fmt), Fits(fmt), AtPixel(fmt, pos), NEW i \in pos.g .. EndOf(fmt, pos), NEW alpha,
         NEW a \in BitsAt(fmt, PlaceAt(pos, i))
  PROVE  LET q == PlaceAt(pos, i)
             k == a - FirstBit(fmt, q) + 1
         IN  /\ FirstBit(fmt, q) \in Int /\ a \in Int
             /\ k \in 1 .. SampleBits(Samples(pos.ch)[i])
             /\ BitFor(fmt, alpha, q, a) = SourceBit(alpha, pos.ch, PixelOf(fmt, q), Below(fmt, q) + k)
<1> DEFINE q == PlaceAt(pos, i)
           first == FirstBit(fmt, q)
           w == SampleBits(Samples(pos.ch)[i])
           m == Below(fmt, q)
           k == a - first + 1
<1>1. q \in Places(fmt) /\ q = Place(i)
  BY SampleInFrame DEF PlaceAt, Place
<1>2. first \in Int
  BY <1>1, FirstBitIsNumber
<1>3. w \in Nat /\ m \in Nat
  BY BitsOfGroup
<1>4. q[1] = pos.ch /\ SampleOf(fmt, q) = Samples(pos.ch)[i]
  BY DEF PlaceAt, SampleOf, Samples
<1>5. BitsAt(fmt, q) = first .. first + w - 1
  BY <1>4 DEF BitsAt, FirstBit
<1>6. BitFor(fmt, alpha, q, a) = SourceBit(alpha, pos.ch, PixelOf(fmt, q), m + (a - first) + 1)
  BY <1>4 DEF BitFor
<1> HIDE DEF q, first, w, m
<1>7. a \in first .. first + w - 1
  BY <1>5 DEF q
<1>8. a \in Int /\ k \in 1 .. w /\ m + (a - first) + 1 = m + k
  BY <1>2, <1>3, <1>7
<1> QED  BY <1>2, <1>6, <1>8 DEF q, first, w, m

(* write_bits puts them where they belong.                                 *)
LEMMA WritePuts ==
  ASSUME WholeBlocks(fmt), Fits(fmt), AtPixel(fmt, pos), NEW i \in pos.g .. EndOf(fmt, pos), NEW alpha,
         NEW v, v = PartFrom(fmt, alpha, PlaceAt(pos, i), BitsFrom(fmt, pos, i)),
         NEW a \in BitsAt(fmt, PlaceAt(pos, i))
  PROVE  v[a - FirstBit(fmt, PlaceAt(pos, i)) + 1] = BitFor(fmt, alpha, PlaceAt(pos, i), a)
<1> DEFINE q == PlaceAt(pos, i)
           p == PixelOf(fmt, q)
           m == Below(fmt, q)
           n == BitsFrom(fmt, pos, i)
           r == BitsFrom(fmt, pos, i - 1)
           w == SampleBits(Samples(pos.ch)[i])
           k == a - FirstBit(fmt, q) + 1
<1>1. k \in 1 .. w /\ BitFor(fmt, alpha, q, a) = SourceBit(alpha, pos.ch, p, m + k)
  BY SampleOfValue
<1>2. r \in Nat /\ w \in Nat /\ n = r + w
  BY BitsOfGroup
<1>3. IsPart(v, alpha, pos.ch, p, m, n)
  BY PartNow
<1> HIDE DEF q, p, m, n, r, w, k
<1>4. k \in 1 .. n
  BY <1>1, <1>2
<1>5. v[k] = SourceBit(alpha, pos.ch, p, m + k)
  BY <1>3, <1>4 DEF IsPart
<1> QED  BY <1>1, <1>5 DEF q, k

(* ... and leaves the bits of the samples still to be written.             *)
LEMMA WriteLeaves ==
  ASSUME WholeBlocks(fmt), Fits(fmt), AtPixel(fmt, pos), NEW i \in pos.g .. EndOf(fmt, pos), NEW alpha,
         NEW v, v = PartFrom(fmt, alpha, PlaceAt(pos, i), BitsFrom(fmt, pos, i)),
         NEW rest, rest = SubSeq(v, SampleBits(Samples(pos.ch)[i]) + 1, Len(v))
  PROVE  /\ i > pos.g => rest = PartFrom(fmt, alpha, PlaceAt(pos, i - 1), BitsFrom(fmt, pos, i - 1))
         /\ i = pos.g => rest = <<>>
<1> DEFINE p == PixelOf(fmt, PlaceAt(pos, i))
           m == Below(fmt, PlaceAt(pos, i))
           n == BitsFrom(fmt, pos, i)
           r == BitsFrom(fmt, pos, i - 1)
           w == SampleBits(Samples(pos.ch)[i])
<1>1. r \in Nat /\ w \in Nat /\ n = r + w /\ m \in Nat /\ (i = pos.g => r = 0)
  BY BitsOfGroup
<1>2. IsPart(v, alpha, pos.ch, p, m, n)
  BY PartNow
<1>3. Len(v) = n
  BY <1>2 DEF IsPart
<1> HIDE DEF p, m, n, r, w
<1>4. rest = SubSeq(v, w + 1, n)
  BY <1>3 DEF w
<1>5. ASSUME i > pos.g
      PROVE  rest = PartFrom(fmt, alpha, PlaceAt(pos, i - 1), BitsFrom(fmt, pos, i - 1))
  <2> DEFINE j == i - 1
             v2 == PartFrom(fmt, alpha, PlaceAt(pos, j), BitsFrom(fmt, pos, j))
             mw == Below(fmt, PlaceAt(pos, j))
  <2>1. j \in pos.g .. EndOf(fmt, pos)
    BY <1>5, EndOfGroup
  <2>2. mw = m + w
    BY <1>5, BitsOfGroup DEF m, w
  <2>3. PixelOf(fmt, PlaceAt(pos, j)) = p
    BY <2>1, OnePixel DEF p
  <2>4. BitsFrom(fmt, pos, j) = r
    BY DEF r
  <2> HIDE DEF j
  <2>5. IsPart(v2, alpha, pos.ch, PixelOf(fmt, PlaceAt(pos, j)), Below(fmt, PlaceAt(pos, j)), BitsFrom(fmt, pos, j))
    BY <2>1, PartNow
  <2> HIDE DEF v2
  <2>6. IsPart(v2, alpha, pos.ch, p, mw, r)
    BY <2>3, <2>4, <2>5
  <2> HIDE DEF mw
  <2>7. n \in Nat /\ n = w + r /\ mw \in Nat
    BY <1>1, <2>2
  <2> DEFINE t == SubSeq(v, w + 1, n)
  <2>8. IsPart(t, alpha, pos.ch, p, mw, r)
    BY <1>1, <1>2, <2>2, <2>7, PartRest
  <2> HIDE DEF t
  <2>9. t = v2
    BY <1>1, <2>6, <2>7, <2>8, SamePart
  <2> QED  BY <1>4, <2>9 DEF t, v2, j
<1>6. ASSUME i = pos.g
      PROVE  rest = <<>>
  <2>1. n < w + 1 /\ n \in Int /\ w + 1 \in Int
    BY <1>1, <1>6
  <2> QED  BY <1>4, <2>1, SubSeqEmpty
<1> QED  BY <1>5, <1>6

(* low is the bits of the buffer at sample i of position p.                *)
ReadFrom(f, p, i, buf, low) ==
  LET smp == f.channel_blocks[p.ch].samples[i]
  IN  /\ DOMAIN low = 1 .. SampleBits(smp) /\ low = [k \in DOMAIN low |-> low[k]]
      /\ \A k \in DOMAIN low : low[k] = buf[FirstBit(f, PlaceAt(p, i)) + k - 1]

(* read_bits puts the bits of a sample below those it has.                 *)
LEMMA ReadTakes ==
  ASSUME WholeBlocks(fmt), Fits(fmt), AtPixel(fmt, pos), NEW i \in pos.g .. EndOf(fmt, pos), NEW alpha,
         NEW buf, DOMAIN buf = 0 .. 8 * fmt.size - 1, Holds(fmt, alpha, buf, PlaceAt(pos, i)),
         NEW j, j = i - 1, NEW v, ValueIs(fmt, alpha, v, pos, j),
         NEW low, ReadFrom(fmt, pos, i, buf, low)
  PROVE  ValueIs(fmt, alpha, low \o v, pos, i)
<1> DEFINE q == PlaceAt(pos, i)
           p == PixelOf(fmt, q)
           m == Below(fmt, q)
           n == BitsFrom(fmt, pos, i)
           r == BitsFrom(fmt, pos, i - 1)
           w == SampleBits(Samples(pos.ch)[i])
           first == FirstBit(fmt, q)
           full == PartFrom(fmt, alpha, q, n)
<1>0. /\ v = PartFrom(fmt, alpha, PlaceAt(pos, i - 1), BitsFrom(fmt, pos, i - 1))
      /\ DOMAIN low = 1 .. w /\ low = [k \in DOMAIN low |-> low[k]]
      /\ \A k \in DOMAIN low : low[k] = buf[first + k - 1]
  BY DEF ValueIs, ReadFrom, Samples
<1>1. r \in Nat /\ w \in Nat /\ n = r + w /\ m \in Nat /\ (i = pos.g => r = 0)
  BY BitsOfGroup
<1>2. IsPart(full, alpha, pos.ch, p, m, n)
  BY PartNow
<1>3. first \in Int
  <2>1. q \in Places(fmt)
    BY SampleInFrame DEF PlaceAt, Place
  <2> QED  BY <2>1, FirstBitIsNumber
<1>4. BitsAt(fmt, q) = first .. first + w - 1
  BY DEF BitsAt, FirstBit, PlaceAt, SampleOf, Samples
<1>5. low = Part(alpha, pos.ch, p, m, w)
  <2>1. ASSUME NEW k \in 1 .. w
        PROVE  low[k] = SourceBit(alpha, pos.ch, p, m + k)
    <3> DEFINE a == first + k - 1
    <3>1. a \in BitsAt(fmt, q) /\ a - first + 1 = k
      <4> HIDE DEF first, w
      <4> QED  BY <1>1, <1>3, <1>4
    <3> HIDE DEF a
    <3>2. BitFor(fmt, alpha, q, a) = SourceBit(alpha, pos.ch, p, m + (a - first + 1))
      BY <3>1, SampleOfValue
    <3>3. buf[a] = BitFor(fmt, alpha, q, a)
      BY <3>1 DEF Holds
    <3>4. low[k] = buf[a]
      BY <1>0 DEF a
    <3> QED  BY <3>1, <3>2, <3>3, <3>4
  <2> HIDE DEF p, m, w
  <2>2. low = [k \in 1 .. w |-> low[k]]
    BY <1>0
  <2> QED  BY <2>1, <2>2 DEF Part
<1>6. IsPart(low, alpha, pos.ch, p, m, w)
  <2> HIDE DEF p, m, w
  <2> QED  BY <1>1, <1>5, PartIsSeq
<1> DEFINE mw == m + w
<1>7. IsPart(v, alpha, pos.ch, p, mw, r)
  <2>1. CASE i = pos.g
    <3>1. r = 0 /\ v = <<>>
      BY <1>0, <1>1, <2>1, NoPart
    <3> DEFINE S == PartBits(alpha, pos.ch, p)
    <3>2. v \in Seq(S) /\ Len(v) = 0
      <4> HIDE DEF S
      <4> QED  BY <3>1, EmptySeq
    <3>3. 1 .. 0 = {}
      OBVIOUS
    <3> HIDE DEF p, mw, r
    <3> QED  BY <3>1, <3>2, <3>3 DEF IsPart
  <2>2. CASE i > pos.g
    <3>1. j \in pos.g .. EndOf(fmt, pos)
      BY <2>2, EndOfGroup
    <3>2. Below(fmt, PlaceAt(pos, j)) = mw
      BY <2>2, BitsOfGroup
    <3>3. PixelOf(fmt, PlaceAt(pos, j)) = p
      BY <3>1, OnePixel
    <3>4. v = PartFrom(fmt, alpha, PlaceAt(pos, j), BitsFrom(fmt, pos, j)) /\ r = BitsFrom(fmt, pos, j)
      BY <1>0
    <3> HIDE DEF p, mw, r
    <3>5. IsPart(v, alpha, pos.ch, PixelOf(fmt, PlaceAt(pos, j)), Below(fmt, PlaceAt(pos, j)), BitsFrom(fmt, pos, j))
      BY <3>1, <3>4, PartNow
    <3> QED  BY <3>2, <3>3, <3>4, <3>5
  <2> QED  BY <2>1, <2>2, EndOfGroup
<1> HIDE DEF p, m, n, r, w, full
<1>8. mw \in Nat /\ n \in Nat /\ n = w + r
  BY <1>1
<1>9. mw = m + w
  OBVIOUS
<1> HIDE DEF mw
<1> DEFINE t == low \o v
<1>10. IsPart(t, alpha, pos.ch, p, m, n)
  BY <1>1, <1>6, <1>7, <1>8, <1>9, PartsJoin
<1> HIDE DEF t
<1>11. t = full
  BY <1>1, <1>2, <1>8, <1>10, SamePart
<1> QED  BY <1>11 DEF t, full, n, q, ValueIs

(* A pixel is as wide as the group of its place.                           *)
LEMMA WidthOfPixel ==
  ASSUME WholeBlocks(fmt), AtPixelInStep(fmt, pos, it), StartsGroup(Samples(pos.ch), pos.g)
  PROVE  PixelWidth(pos.ch, SurfaceIndex(pos.ch)) = BitsFrom(fmt, pos, EndOf(fmt, pos))
<1> DEFINE c == pos.ch
           smps == Samples(c)
           n == Len(smps)
           g == pos.g
           W == SurfaceW(fmt, c)
           w == Block(c).w
           h == Block(c).h
           i == SurfaceIndex(c)
           x == ((i - 1) % W) % w
           y == ((i - 1) \div W) % h
           Ends == {d \in DOMAIN smps : ~ smps[d].has_continuation}
           IsEnd(d) == Cardinality({f \in Ends : f < d}) = y * w + x
           last == CHOOSE d \in Ends : IsEnd(d)
           e == EndOf(fmt, pos)
           k == Cardinality(EndsTo(smps, g - 1))
<1>1. /\ c \in Channels /\ pos.line \in Nat /\ pos.b \in Nat /\ smps # <<>> /\ g \in DOMAIN smps
      /\ e = GroupEnd(smps, g) /\ WholePixels(Block(c)) /\ smps = Block(c).samples
      /\ pos.b < NBlocksInLine(fmt, c)
  BY DEF AtPixelInStep, AtPixel, Positions, EndOf, WholeBlocks, Samples, Block
<1>2. /\ w \in Nat \ {0} /\ h \in Nat \ {0} /\ n \in Nat \ {0} /\ DOMAIN smps = 1 .. n
      /\ NBlocksInLine(fmt, c) \in Nat /\ NBlocksInLine(fmt, c) * w = W /\ W \in Nat
  BY <1>1, BlocksCounted DEF WholePixels, Block, Samples
<1>3. /\ e \in g .. n /\ ~ smps[e].has_continuation
      /\ \A j \in g .. e - 1 : smps[j].has_continuation
  BY EndOfGroup DEF AtPixelInStep
<1>4. /\ it \in [block_x : Nat, block_y : Nat, x : 0 .. w - 1, y : 0 .. h - 1]
      /\ it.block_x = pos.b * w /\ it.block_y = pos.line * h /\ it.y * w + it.x = k
  BY DEF AtPixelInStep, InStep, Block, Samples
<1>5. it.x \in 0 .. w - 1 /\ it.y \in 0 .. h - 1 /\ it.block_x \in Nat /\ it.block_y \in Nat
  BY <1>4
<1>6. x = it.x /\ y = it.y
  <2> DEFINE l == pos.line
             b == pos.b
             ix == it.x
             iy == it.y
             col == b * w + ix
             row == l * h + iy
             B == NBlocksInLine(fmt, c)
  <2>1. /\ l \in Nat /\ b \in Nat /\ ix \in 0 .. w - 1 /\ iy \in 0 .. h - 1 /\ ix \in Nat /\ iy \in Nat
        /\ B \in Nat /\ b \in 0 .. B - 1 /\ B * w = W
    BY <1>1, <1>2, <1>5, SMTT(40)
  <2>2. i - 1 = row * W + col
    <3> DEFINE z == (it.block_y + it.y) * W
    <3>1. z \in Int
      <4>1. it.block_y + it.y \in Int /\ W \in Int
        BY <1>2, <1>5
      <4> QED  BY <4>1, Multiplies
    <3>2. i = z + it.block_x + it.x + 1
      BY DEF SurfaceIndex
    <3>3. z = row * W /\ col = it.block_x + it.x
      BY <1>4
    <3> HIDE DEF z, i, row, col
    <3> QED  BY <1>5, <3>1, <3>2, <3>3
  <2> HIDE DEF l, b, ix, iy, B, w, h, W, i
  <2>3. col \in 0 .. W - 1 /\ col \in Nat
    <3>1. col \in 0 .. B * w - 1
      BY <1>2, <2>1, FirstDigitDecides
    <3> QED  BY <2>1, <3>1
  <2>4. col % w = ix
    BY <1>2, <2>1, TwoDigits
  <2>5. row \in Nat /\ row % h = iy
    BY <1>2, <2>1, TwoDigits
  <2> HIDE DEF row, col
  <2>6. W \in Nat \ {0}
    BY <1>2, <2>3
  <2>7. (row * W + col) \div W = row /\ (row * W + col) % W = col
    BY <2>3, <2>5, <2>6, TwoDigits
  <2> QED  BY <2>2, <2>4, <2>5, <2>7 DEF ix, iy
<1>7. y * w + x = k
  BY <1>4, <1>6
<1> HIDE DEF x, y, smps, n, g, e, W, w, h, i, k
<1>8. g \in 1 .. n /\ g \in Int /\ e \in Int
  BY <1>1, <1>2, <1>3
<1>9. \A d \in Ends : {f \in Ends : f < d} = EndsTo(smps, d - 1)
  BY <1>2 DEF EndsTo
<1>10. e \in Ends /\ Cardinality(EndsTo(smps, e - 1)) = k
  <2>1. \A j \in 1 .. e - 1 : j \in 1 .. g - 1 \/ j \in g .. e - 1
    BY <1>3, <1>8
  <2>2. \A j \in 1 .. g - 1 : j \in 1 .. e - 1
    BY <1>3, <1>8
  <2>3. EndsTo(smps, e - 1) = EndsTo(smps, g - 1)
    BY <1>3, <2>1, <2>2 DEF EndsTo
  <2> QED  BY <1>2, <1>3, <1>8, <2>3 DEF k
<1>11. ASSUME NEW d \in Ends, Cardinality(EndsTo(smps, d - 1)) = k
       PROVE  d = e
  <2>1. d \in 1 .. n /\ e \in 1 .. n /\ ~ smps[d].has_continuation /\ ~ smps[e].has_continuation
    BY <1>2, <1>10
  <2>2. CASE d < e
    <3>1. d - 1 \in Nat /\ e - 1 \in Nat /\ d \in (d - 1) + 1 .. e - 1
      BY <2>1, <2>2
    <3> QED  BY <1>10, <1>11, <2>1, <3>1, MoreEnds
  <2>3. CASE e < d
    <3>1. d - 1 \in Nat /\ e - 1 \in Nat /\ e \in (e - 1) + 1 .. d - 1
      BY <2>1, <2>3
    <3> QED  BY <1>10, <1>11, <2>1, <3>1, MoreEnds
  <2> QED  BY <2>1, <2>2, <2>3
<1>12. last = e
  <2>1. IsEnd(e) /\ \A d \in Ends : IsEnd(d) => d = e
    BY <1>7, <1>9, <1>10, <1>11
  <2> HIDE DEF IsEnd, Ends
  <2> QED  BY <1>10, <2>1
<1> DEFINE IsFirst(f) == GroupEnd(smps, f) = e /\ \A j \in 1 .. f - 1 : GroupEnd(smps, j) # e
<1>13. ASSUME NEW j \in 1 .. g - 1
       PROVE  GroupEnd(smps, j) # e
  <2>1. g > 1 /\ ~ smps[g - 1].has_continuation
    <3>1. g > 1
      BY <1>8
    <3>2. g # 1
      BY <3>1
    <3> QED  BY <3>1, <3>2, Zenon DEF StartsGroup, smps, g
  <2>2. j \in DOMAIN smps
    BY <1>2, <1>8
  <2> DEFINE d == GroupEnd(smps, j)
  <2>3. \A m \in j .. d - 1 : smps[m].has_continuation
    BY <1>1, <2>2, GroupsEnd
  <2> HIDE DEF d
  <2>4. d = e => g - 1 \in j .. d - 1
    BY <1>3, <1>8, <2>1
  <2> QED  BY <2>1, <2>3, <2>4 DEF d
<1>14. IsFirst(g) /\ g \in 1 .. e
  BY <1>1, <1>3, <1>8, <1>13
<1>15. \A f \in 1 .. e : IsFirst(f) => f = g
  <2> SUFFICES ASSUME NEW f \in 1 .. e, IsFirst(f), f # g
               PROVE  FALSE
    OBVIOUS
  <2>1. f < g \/ g < f
    BY <1>8
  <2>2. f < g => f \in 1 .. g - 1
    BY <1>8
  <2>3. g < f => g \in 1 .. f - 1
    BY <1>8
  <2> QED  BY <1>1, <1>13, <2>1, <2>2, <2>3
<1> DEFINE first == CHOOSE f \in 1 .. e : IsFirst(f)
<1>16. first = g
  <2> HIDE DEF IsFirst
  <2> QED  BY <1>14, <1>15, SMTT(40)
<1>17. PixelWidth(c, i) = BitsOfSamples(smps, first, e)
  BY <1>12 DEF PixelWidth, smps, x, y, W, w, h
<1>18. BitsFrom(fmt, pos, e) = BitsOfSamples(smps, g, e)
  BY DEF BitsFrom, smps, g, Samples
<1> QED  BY <1>16, <1>17, <1>18 DEF e, i

-----------------------------------------------------------------------------
(* A pixel is stored once.                                                 *)

(* The row and column of the pixel of a place, as digits.                  *)
Ordinal(f, q) == Cardinality(EndsTo(SamplesOf(f, q), q[4] - 1))

LEMMA DigitsAreUnique ==
  ASSUME NEW q \in Nat \ {0}, NEW u \in Nat, NEW v \in 0 .. q - 1, NEW s1 \in Nat, NEW t \in 0 .. q - 1,
         NEW n, n = u * q + v, n = s1 * q + t
  PROVE  u = s1 /\ v = t
<1>1. n \div q = u /\ n % q = v
  BY TwoDigits
<1>2. n \div q = s1 /\ n % q = t
  BY TwoDigits, SMTT(40)
<1> QED  BY <1>1, <1>2

LEMMA PlaceOfPixel ==
  ASSUME WholeBlocks(fmt), NEW q \in Places(fmt)
  PROVE  LET blk == fmt.channel_blocks[q[1]]
             W == SurfaceW(fmt, q[1])
             n == Ordinal(fmt, q)
             row == q[2] * blk.h + n \div blk.w
             col == q[3] * blk.w + (n % blk.w)
         IN  /\ blk.w \in Nat \ {0} /\ blk.h \in Nat \ {0} /\ W \in Nat \ {0}
             /\ n \in Nat /\ n \div blk.w \in 0 .. blk.h - 1 /\ n % blk.w \in 0 .. blk.w - 1
             /\ n = (n \div blk.w) * blk.w + (n % blk.w)
             /\ row \in Nat /\ col \in 0 .. W - 1
             /\ PixelOf(fmt, q) = row * W + col + 1 /\ row * W \in Nat
<1> DEFINE blk == fmt.channel_blocks[q[1]]
           w == blk.w
           h == blk.h
           W == SurfaceW(fmt, q[1])
           n == Ordinal(fmt, q)
           l == q[2]
           b == q[3]
           y == n \div w
           x == n % w
           row == l * h + y
           col == b * w + x
           B == NBlocksInLine(fmt, q[1])
<1>1. /\ q[1] \in Channels /\ l \in Nat /\ b \in Nat /\ b < B
      /\ blk.samples # <<>> /\ WholePixels(blk) /\ q[4] \in 1 .. Len(blk.samples)
  BY PlacesVisited DEF Samples
<1>2. w \in Nat \ {0} /\ h \in Nat \ {0} /\ B \in Nat /\ B * w = W /\ W \in Nat
  BY <1>1, BlocksCounted
<1>3. n \in Nat /\ n + 1 <= h * w
  <2>1. q[4] \in DOMAIN blk.samples
    BY <1>1 DEF WholePixels
  <2>2. n = Cardinality(EndsTo(blk.samples, q[4] - 1))
    BY DEF Ordinal, SamplesOf
  <2> HIDE DEF n, blk
  <2> DEFINE e == GroupEnd(blk.samples, q[4])
  <2>3. /\ n \in Nat
        /\ e < Len(blk.samples) => n + 1 < blk.w * blk.h
        /\ e = Len(blk.samples) => n + 1 = blk.w * blk.h
        /\ e \in q[4] .. Len(blk.samples)
    BY <1>1, <2>1, <2>2, GroupIsOnePixel, GroupsEnd
  <2> HIDE DEF e
  <2>4. blk.w * blk.h \in Int /\ blk.w * blk.h = blk.h * blk.w
    <3> DEFINE ww == blk.w
               hh == blk.h
    <3>1. ww \in Nat /\ hh \in Nat
      BY <1>2
    <3> HIDE DEF ww, hh
    <3>2. ww * hh \in Int /\ ww * hh = hh * ww
      BY <3>1, Z3
    <3> QED  BY <3>2 DEF ww, hh
  <2>5. Len(blk.samples) \in Int /\ q[4] \in Int
    BY <1>1 DEF WholePixels
  <2>6. e <= Len(blk.samples) /\ e \in Int
    BY <2>3, <2>5
  <2>7. e < Len(blk.samples) \/ e = Len(blk.samples)
    BY <2>5, <2>6
  <2> DEFINE N == blk.h * blk.w
  <2>8. n + 1 < N \/ n + 1 = N
    BY <2>3, <2>4, <2>7
  <2>9. N \in Int
    BY <2>4
  <2>10. n + 1 <= N
    <3> HIDE DEF N
    <3> QED  BY <2>3, <2>8, <2>9
  <2> QED  BY <2>3, <2>10
<1>4. PixelOf(fmt, q) = row * W + col + 1
  BY DEF PixelOf, Ordinal, SamplesOf
<1> HIDE DEF w, h, W, n, l, b, B
<1>5. h * w \in Nat /\ n \in 0 .. h * w - 1
  <2> DEFINE hw == h * w
  <2>1. hw \in Nat
    BY <1>2, Z3
  <2>2. n + 1 <= hw
    BY <1>3
  <2> HIDE DEF hw
  <2>3. n \in 0 .. hw - 1
    BY <1>3, <2>1, <2>2
  <2> QED  BY <2>1, <2>3 DEF hw
<1>6. y \in 0 .. h - 1 /\ x \in 0 .. w - 1 /\ n = y * w + x
  BY <1>2, <1>5, DigitsOf
<1> HIDE DEF y, x
<1>7. row \in Nat
  BY <1>1, <1>2, <1>6, TwoDigits
<1>8. col \in 0 .. W - 1
  <2>1. b \in 0 .. B - 1
    BY <1>1, <1>2
  <2>2. col \in 0 .. B * w - 1
    BY <1>2, <1>6, <2>1, FirstDigitDecides
  <2> QED  BY <1>2, <2>2
<1> HIDE DEF row, col
<1>9. W \in Nat \ {0}
  BY <1>2, <1>8
<1>10. row * W \in Nat
  BY <1>7, <1>9, Z3
<1> QED  BY <1>2, <1>3, <1>4, <1>6, <1>7, <1>8, <1>9, <1>10 DEF row, col, y, x, W, w, h, n, l, b

(* Two places that hold parts of one pixel are in one block, in one group. *)
LEMMA SamePixel ==
  ASSUME WholeBlocks(fmt), NEW p \in Places(fmt), NEW q \in Places(fmt), p[1] = q[1],
         PixelOf(fmt, p) = PixelOf(fmt, q)
  PROVE  p[2] = q[2] /\ p[3] = q[3] /\ Ordinal(fmt, p) = Ordinal(fmt, q)
<1> DEFINE blk == fmt.channel_blocks[p[1]]
           w == blk.w
           h == blk.h
           W == SurfaceW(fmt, p[1])
           m == Ordinal(fmt, p)
           n == Ordinal(fmt, q)
           pl == p[2]
           ql == q[2]
           pb == p[3]
           qb == q[3]
           py == m \div w
           qy == n \div w
           px == m % w
           qx == n % w
           prow == pl * h + py
           qrow == ql * h + qy
           pcol == pb * w + px
           qcol == qb * w + qx
           P == prow * W
           Q == qrow * W
<1>1. /\ w \in Nat \ {0} /\ h \in Nat \ {0} /\ W \in Nat \ {0}
      /\ m \in Nat /\ py \in 0 .. h - 1 /\ px \in 0 .. w - 1 /\ m = py * w + px
      /\ prow \in Nat /\ pcol \in 0 .. W - 1
      /\ PixelOf(fmt, p) = P + pcol + 1 /\ P \in Nat
  BY PlaceOfPixel
<1>2. /\ n \in Nat /\ qy \in 0 .. h - 1 /\ qx \in 0 .. w - 1 /\ n = qy * w + qx
      /\ qrow \in Nat /\ qcol \in 0 .. W - 1
      /\ PixelOf(fmt, q) = Q + qcol + 1 /\ Q \in Nat
  BY PlaceOfPixel
<1>3. pl \in Nat /\ ql \in Nat /\ pb \in Nat /\ qb \in Nat
  BY PlacesVisited
<1> HIDE DEF w, h, W, m, n, pl, ql, pb, qb, py, qy, px, qx
<1>4. P + pcol = Q + qcol
  <2> DEFINE i == PixelOf(fmt, p)
  <2>1. i = P + pcol + 1 /\ i = Q + qcol + 1
    BY <1>1, <1>2
  <2>2. P \in Int /\ Q \in Int /\ pcol \in Int /\ qcol \in Int
    BY <1>1, <1>2
  <2> HIDE DEF P, Q, pcol, qcol, i
  <2> QED  BY <2>1, <2>2
<1>5. prow = qrow /\ pcol = qcol
  <2> DEFINE k == P + pcol
  <2>1. k = prow * W + pcol /\ k = qrow * W + qcol
    BY <1>4
  <2> HIDE DEF k, prow, qrow, pcol, qcol, P, Q
  <2> QED  BY <1>1, <1>2, <2>1, DigitsAreUnique
<1>6. pl = ql /\ py = qy
  <2> DEFINE k == prow
  <2>1. k = pl * h + py /\ k = ql * h + qy
    BY <1>5
  <2> HIDE DEF k
  <2> QED  BY <1>1, <1>2, <1>3, <2>1, DigitsAreUnique
<1>7. pb = qb /\ px = qx
  <2> DEFINE k == pcol
  <2>1. k = pb * w + px /\ k = qb * w + qx
    BY <1>5
  <2> HIDE DEF k
  <2> QED  BY <1>1, <1>2, <1>3, <2>1, DigitsAreUnique
<1> QED  BY <1>1, <1>2, <1>6, <1>7, SMTT(40) DEF pl, ql, pb, qb, m, n

(* The pixel the iterator is at is not at any place passed before.         *)
LEMMA PixelIsNew ==
  ASSUME WholeBlocks(fmt), Fits(fmt), AtPixelInStep(fmt, pos, it), StartsGroup(Samples(pos.ch), pos.g)
  PROVE  ~ Stored(fmt, pos, pos.ch, SurfaceIndex(pos.ch))
<1> SUFFICES ASSUME NEW q \in Places(fmt), q[1] = pos.ch, PixelOf(fmt, q) = SurfaceIndex(pos.ch), Done(q, pos)
             PROVE  FALSE
  BY DEF Stored
<1> DEFINE p == PlaceAt(pos, pos.g)
           smps == Samples(pos.ch)
<1>1. AtPixel(fmt, pos) /\ pos.g \in Nat /\ pos.g \in pos.g .. EndOf(fmt, pos)
      /\ pos.line \in Nat /\ pos.b \in Nat /\ pos.ch \in Channels
  BY EndOfGroup DEF AtPixelInStep, AtPixel, Positions
<1>2. p \in Places(fmt)
  BY <1>1, SampleInFrame DEF Place, PlaceAt
<1>3. PixelOf(fmt, p) = SurfaceIndex(pos.ch)
  BY <1>1, PixelAtPlace
<1>4. p[1] = pos.ch /\ p[2] = pos.line /\ p[3] = pos.b /\ p[4] = pos.g
  BY DEF PlaceAt
<1>5. q[2] = pos.line /\ q[3] = pos.b /\ Ordinal(fmt, q) = Ordinal(fmt, p)
  <2> HIDE DEF p
  <2> QED  BY <1>2, <1>3, <1>4, SamePixel
<1>6. q[4] < pos.g
  BY <1>1, <1>5, PlacesAreNumbers DEF Done, Channels, ChannelY, ChannelA
<1>7. q[4] \in Nat \ {0}
  BY PlacesVisited
<1>8. pos.g - 1 \in q[4] .. pos.g - 1 /\ ~ smps[pos.g - 1].has_continuation /\ pos.g - 1 \in Nat /\ q[4] - 1 \in Nat
  <2>1. pos.g # 1
    BY <1>1, <1>6, <1>7
  <2>2. ~ smps[pos.g - 1].has_continuation
    BY <2>1, Zenon DEF StartsGroup
  <2> QED  BY <1>1, <1>6, <1>7, <2>2
<1>9. Cardinality(EndsTo(smps, q[4] - 1)) = Cardinality(EndsTo(smps, pos.g - 1))
  BY <1>4, <1>5 DEF Ordinal, SamplesOf, Samples
<1> DEFINE m == q[4] - 1
           n == pos.g - 1
<1>10. m \in Nat /\ n \in Nat /\ n \in m + 1 .. n /\ ~ smps[n].has_continuation
  BY <1>7, <1>8
<1>11. Cardinality(EndsTo(smps, m)) = Cardinality(EndsTo(smps, n))
  BY <1>9
<1> HIDE DEF m, n, smps
<1> QED  BY <1>10, <1>11, MoreEnds

-----------------------------------------------------------------------------
(* What holds while packing and unpacking.                                 *)

(* Parts of the invariant, of a format f, an image img, a buffer buf, ...  *)
ImageShape(f, img) ==
  /\ DOMAIN img = Channels
  /\ \A c \in Channels : f.channel_blocks[c].samples # <<>> =>
       DOMAIN img[c] = 1 .. SurfaceW(f, c) * SurfaceH(f, c)
NothingArrived(f, img) ==
  \A c \in Channels : f.channel_blocks[c].samples # <<>> => \A i \in DOMAIN img[c] : img[c][i] = <<>>
Arrived(f, img, p) ==
  \A c \in Channels : f.channel_blocks[c].samples # <<>> =>
    \A i \in DOMAIN img[c] : img[c][i] # <<>> => Stored(f, p, c, i)

GroupStart(f, p) == StartsGroup(f.channel_blocks[p.ch].samples, p.g)
Packed(f, alpha, buf, p) == \A q \in Places(f) : Done(q, p) => Holds(f, alpha, buf, q)
PackedUpTo(f, alpha, buf, p, i) ==
  \A q \in Places(f) : Done(q, p) \/ Among(q, p, i, EndOf(f, p)) => Holds(f, alpha, buf, q)
AllPacked(f, alpha, buf) == \A q \in Places(f) : Holds(f, alpha, buf, q)
PlanesReordered(f, alpha, buf, from, to) == \A q \in Places(f) : HoldsReordered(f, alpha, buf, from, to, q)

(* The part of the image packed so far is in the buffer, that of the       *)
(* group at hand in value too, and later, block order undone, all of it;   *)
(* and only pixels of places passed have been stored.                      *)
DeliveryInv ==
  /\ BoundsInv
  /\ ImageShape(fmt, image)
  /\ pc \in {"load", "write", "read", "store"} => GroupStart(fmt, pos)
  /\ pc \in {"load", "write"} => plane = 1
  /\ pc = "load" => Packed(fmt, has_alpha, data, pos)
  /\ pc = "write" => PackedUpTo(fmt, has_alpha, data, pos, s + 1) /\ ValueIs(fmt, has_alpha, value, pos, s)
  /\ pc = "transform" =>
       plane \in 1 .. Len(fmt.planes) + 1 /\ PlanesReordered(fmt, has_alpha, data, 1, plane - 1)
  /\ pc = "inverse" =>
       /\ plane \in 1 .. Len(fmt.planes) /\ PlanesReordered(fmt, has_alpha, raw, plane, Len(fmt.planes))
       /\ pos # NoChannel => GroupStart(fmt, pos)
  /\ pc \in {"transform", "inverse"} => value = <<>>
  /\ pc \in {"read", "store"} => AllPacked(fmt, has_alpha, raw)
  /\ pc = "read" => ValueIs(fmt, has_alpha, value, pos, s - 1)
  /\ pc = "store" => ValueIs(fmt, has_alpha, value, pos, s)
  /\ pc \in {"load", "write", "transform", "inverse"} => NothingArrived(fmt, image)
  /\ pc \in {"read", "store"} => Arrived(fmt, image, pos)

Deliverable(f) == WholeBlocks(f) /\ Fits(f) /\ PlacesDisjoint(f) /\ Reorderable(f)

LEMMA NoValue ==
  ASSUME NEW f, NEW alpha, NEW p, NEW g \in Int, g = p.g, NEW i \in Int, i = g - 1
  PROVE  ValueIs(f, alpha, <<>>, p, i)
<1>1. BitsFrom(f, p, i) = 0
  <2>1. i < g
    OBVIOUS
  <2>2. BitsFrom(f, p, i) = BitsOfSamples(f.channel_blocks[p.ch].samples, g, i)
    BY DEF BitsFrom
  <2> QED  BY <2>1, <2>2, BitsOfNone
<1> QED  BY <1>1, NoPart DEF ValueIs

(* Writing sample i of the group puts its bits where they belong.          *)
LEMMA PutSample ==
  ASSUME WholeBlocks(fmt), Fits(fmt), PlacesDisjoint(fmt), AtPixel(fmt, pos),
         NEW i \in pos.g .. EndOf(fmt, pos), NEW alpha, NEW v, ValueIs(fmt, alpha, v, pos, i),
         NEW buf, DOMAIN buf = 0 .. 8 * fmt.size - 1,
         NEW put, put = [a \in DOMAIN buf |->
           IF a \in AddressesOf(Samples(pos.ch)[i])
           THEN v[a - SampleBit(fmt, pos.ch, pos.line, pos.b, Samples(pos.ch)[i]) + 1] ELSE buf[a]],
         NEW q \in Places(fmt), q = PlaceAt(pos, i) \/ Holds(fmt, alpha, buf, q)
  PROVE  Holds(fmt, alpha, put, q)
<1> DEFINE p == PlaceAt(pos, i)
<1>1. p \in Places(fmt) /\ AddressesOf(Samples(pos.ch)[i]) = BitsAt(fmt, p)
  BY SampleInFrame DEF Place, PlaceAt
<1>2. SampleBit(fmt, pos.ch, pos.line, pos.b, Samples(pos.ch)[i]) = FirstBit(fmt, p)
  BY DEF FirstBit, PlaceAt, SampleOf, Samples
<1>3. BitsAt(fmt, q) \subseteq DOMAIN buf
  BY PlaceInFrame
<1>4. CASE q = p
  <2> SUFFICES ASSUME NEW a \in BitsAt(fmt, q)
               PROVE  put[a] = BitFor(fmt, alpha, q, a)
    BY DEF Holds
  <2>1. put[a] = v[a - FirstBit(fmt, p) + 1]
    BY <1>1, <1>2, <1>3, <1>4
  <2> QED  BY <1>4, <2>1, WritePuts DEF ValueIs
<1>5. CASE q # p
  <2> SUFFICES ASSUME NEW a \in BitsAt(fmt, q)
               PROVE  put[a] = BitFor(fmt, alpha, q, a)
    BY DEF Holds
  <2>1. a \notin BitsAt(fmt, p)
    BY <1>1, <1>5 DEF PlacesDisjoint
  <2>2. put[a] = buf[a]
    BY <1>1, <1>3, <2>1
  <2> QED  BY <1>5, <2>2 DEF Holds
<1> QED  BY <1>4, <1>5

LEMMA LoadDelivers ==
  ASSUME DeliveryInv, Deliverable(fmt), BoundsInv', LoadPixel
  PROVE  DeliveryInv'
<1> DEFINE e == EndOf(fmt, pos)
<1>1. /\ pc = "load" /\ pc' = "write" /\ fmt' = fmt /\ has_alpha' = has_alpha /\ pos' = pos /\ data' = data
      /\ plane' = plane /\ image' = image /\ s' = e
      /\ value' = SourceBits(pos.ch, SurfaceIndex(pos.ch), BitsFrom(fmt, pos, e))
  BY Zenon DEF LoadPixel, EndOf, Samples, BitsFrom
<1>2. AtPixelInStep(fmt, pos, it) /\ WholeBlocks(fmt) /\ Fits(fmt) /\ AtPixel(fmt, pos)
  BY <1>1 DEF DeliveryInv, BoundsInv, StepInv, Deliverable, AtPixelInStep
<1>3. ValueIs(fmt, has_alpha, value', pos, e)
  BY <1>1, <1>2, LoadTakesAll DEF ValueIs
<1>4. PackedUpTo(fmt, has_alpha, data, pos, e + 1)
  <2> SUFFICES ASSUME NEW q \in Places(fmt), Done(q, pos) \/ Among(q, pos, e + 1, e)
               PROVE  Holds(fmt, has_alpha, data, q)
    BY DEF PackedUpTo
  <2>1. e \in Int
    BY <1>2, EndOfGroup
  <2>2. ~ Among(q, pos, e + 1, e)
    <3> HIDE DEF e
    <3> QED  BY <2>1 DEF Among
  <2> QED  BY <1>1, <2>2 DEF DeliveryInv, Packed
<1> QED  BY <1>1, <1>3, <1>4 DEF DeliveryInv

LEMMA WriteDelivers ==
  ASSUME DeliveryInv, Deliverable(fmt), BoundsInv', WriteSample
  PROVE  DeliveryInv'
<1> DEFINE e == EndOf(fmt, pos)
           next == NextPos(e)
           smp == Samples(pos.ch)[s]
<1>1. /\ pc = "write" /\ fmt' = fmt /\ has_alpha' = has_alpha /\ plane' = plane /\ image' = image
      /\ value' = SubSeq(value, SampleBits(smp) + 1, Len(value))
      /\ data' = [a \in DOMAIN data |->
           IF a \in AddressesOf(smp) THEN value[a - SampleBit(fmt, pos.ch, pos.line, pos.b, smp) + 1] ELSE data[a]]
  BY DEF WriteSample
<1>2. \/ MoreToWrite /\ s' = s - 1 /\ UNCHANGED <<pc, pos, it>>
      \/ ~ MoreToWrite /\ pos' = next /\ pc' = IF next = NoChannel THEN "transform" ELSE "load"
  BY Zenon DEF WriteSample, EndOf, Samples
<1>3. /\ WholeBlocks(fmt) /\ Fits(fmt) /\ PlacesDisjoint(fmt) /\ AtPixel(fmt, pos) /\ s \in pos.g .. e
      /\ DOMAIN data = 0 .. 8 * fmt.size - 1
  BY <1>1 DEF DeliveryInv, BoundsInv, StepInv, Deliverable, Ahead
<1>4. /\ GroupStart(fmt, pos) /\ plane = 1 /\ NothingArrived(fmt, image) /\ ImageShape(fmt, image)
      /\ PackedUpTo(fmt, has_alpha, data, pos, s + 1) /\ ValueIs(fmt, has_alpha, value, pos, s)
  BY <1>1 DEF DeliveryInv
<1>5. pos.g \in Int /\ e \in Int /\ s \in Int
  BY <1>3, EndOfGroup
<1>6. PackedUpTo(fmt, has_alpha, data', pos, s)
  <2> SUFFICES ASSUME NEW q \in Places(fmt), Done(q, pos) \/ Among(q, pos, s, e)
               PROVE  Holds(fmt, has_alpha, data', q)
    BY DEF PackedUpTo
  <2>1. q = PlaceAt(pos, s) \/ Done(q, pos) \/ Among(q, pos, s + 1, e)
    <3>1. q = <<q[1], q[2], q[3], q[4]>> /\ q[4] \in Int
      BY <1>3, PlacesVisited
    <3> HIDE DEF e
    <3>2. Among(q, pos, s, e) /\ q[4] # s => Among(q, pos, s + 1, e)
      BY <1>5, <3>1 DEF Among
    <3>3. Among(q, pos, s, e) /\ q[4] = s => q = PlaceAt(pos, s)
      BY <3>1 DEF Among, PlaceAt
    <3> QED  BY <3>2, <3>3
  <2>2. q = PlaceAt(pos, s) \/ Holds(fmt, has_alpha, data, q)
    BY <1>4, <2>1 DEF PackedUpTo
  <2> QED  BY <1>1, <1>3, <1>4, <2>2, PutSample
<1>7. CASE MoreToWrite /\ s' = s - 1 /\ UNCHANGED <<pc, pos, it>>
  <2>1. s > pos.g /\ s' + 1 = s
    BY <1>5, <1>7 DEF MoreToWrite
  <2>2. ValueIs(fmt, has_alpha, value', pos, s')
    BY <1>1, <1>3, <1>4, <1>7, <2>1, WriteLeaves DEF ValueIs
  <2> QED  BY <1>1, <1>4, <1>6, <1>7, <2>1, <2>2 DEF DeliveryInv
<1>8. CASE ~ MoreToWrite /\ pos' = next /\ pc' = IF next = NoChannel THEN "transform" ELSE "load"
  <2>1. s = pos.g
    BY <1>3, <1>5, <1>8 DEF MoreToWrite
  <2>2. value' = <<>>
    BY <1>1, <1>3, <1>4, <2>1, WriteLeaves DEF ValueIs
  <2>3. CASE next = NoChannel
    <3>1. PlanesReordered(fmt, has_alpha, data', 1, 0)
      <4> SUFFICES ASSUME NEW q \in Places(fmt)
                   PROVE  HoldsReordered(fmt, has_alpha, data', 1, 0, q)
        BY DEF PlanesReordered
      <4>1. Done(q, pos) \/ Among(q, pos, s, e)
        BY <1>3, <2>1, <2>3, NextCovers
      <4>2. Holds(fmt, has_alpha, data', q)
        BY <1>6, <4>1 DEF PackedUpTo
      <4>3. DOMAIN data' = 0 .. 8 * fmt.size - 1
        BY <1>1, <1>3
      <4> QED  BY <1>3, <4>2, <4>3, NothingReordered
    <3>2. plane' - 1 = 0 /\ plane' \in 1 .. Len(fmt.planes) + 1
      <4>1. Len(fmt.planes) \in Nat
        BY DEF Deliverable, Reorderable
      <4> QED  BY <1>1, <1>4, <4>1
    <3> QED  BY <1>1, <1>4, <1>8, <2>2, <2>3, <3>1, <3>2 DEF DeliveryInv
  <2>4. CASE next # NoChannel
    <3>1. Packed(fmt, has_alpha, data', next)
      <4> SUFFICES ASSUME NEW q \in Places(fmt), Done(q, next)
                   PROVE  Holds(fmt, has_alpha, data', q)
        BY DEF Packed
      <4>1. Done(q, pos) \/ Among(q, pos, s, e)
        BY <1>3, <2>1, NextCovers
      <4> QED  BY <1>6, <4>1 DEF PackedUpTo
    <3>2. GroupStart(fmt, next)
      BY <1>3, <2>4, NextStartsGroup DEF GroupStart, Samples
    <3> QED  BY <1>1, <1>4, <1>8, <2>4, <3>1, <3>2 DEF DeliveryInv
  <2> QED  BY <2>3, <2>4
<1> QED  BY <1>2, <1>7, <1>8

LEMMA TransformDelivers ==
  ASSUME DeliveryInv, Deliverable(fmt), BoundsInv', TransformPlane
  PROVE  DeliveryInv'
<1>1. /\ pc = "transform" /\ fmt' = fmt /\ has_alpha' = has_alpha /\ value' = value /\ image' = image
      /\ plane \in DOMAIN fmt.planes /\ pc' \in {"transform", "aborted"}
  BY DEF TransformPlane
<1>2. /\ WholeBlocks(fmt) /\ Fits(fmt) /\ Reorderable(fmt) /\ DOMAIN data = 0 .. 8 * fmt.size - 1
      /\ plane \in Int /\ PlanesReordered(fmt, has_alpha, data, 1, plane - 1)
      /\ value = <<>> /\ NothingArrived(fmt, image) /\ ImageShape(fmt, image)
  BY <1>1 DEF DeliveryInv, BoundsInv, Deliverable
<1>3. CASE pc' = "aborted"
  BY <1>1, <1>2, <1>3 DEF DeliveryInv
<1>4. CASE pc' # "aborted"
  <2>1. pc' = "transform" /\ plane' = plane + 1 /\ data' = ReorderTransform(data, fmt.planes[plane], INDET)
    <3>1. pc' = "transform"
      BY <1>1, <1>4
    <3> QED  BY <1>1, <1>4, <3>1, Zenon DEF TransformPlane
  <2>2. plane' \in 1 .. Len(fmt.planes) + 1 /\ plane' - 1 = plane
    BY <1>1, <1>2, <2>1 DEF Reorderable
  <2>3. PlanesReordered(fmt, has_alpha, data', 1, plane)
    <3> SUFFICES ASSUME NEW q \in Places(fmt)
                 PROVE  HoldsReordered(fmt, has_alpha, data', 1, plane, q)
      BY DEF PlanesReordered
    <3>1. HoldsReordered(fmt, has_alpha, data, 1, plane - 1, q)
      BY <1>2 DEF PlanesReordered
    <3> QED  BY <1>1, <1>2, <2>1, <3>1, TransformMoves
  <2> QED  BY <1>1, <1>2, <2>1, <2>2, <2>3 DEF DeliveryInv
<1> QED  BY <1>3, <1>4

(* Nothing has been read of the first pixel, if there is one.              *)
LEMMA StartsReading ==
  ASSUME WholeBlocks(fmt), NEW p, p = FirstFrom(ChannelY), NEW alpha, NEW img, NothingArrived(fmt, img)
  PROVE  /\ p # NoChannel => GroupStart(fmt, p) /\ ValueIs(fmt, alpha, <<>>, p, p.g - 1)
         /\ Arrived(fmt, img, p)
<1>1. p # NoChannel => p.g = 1
  BY FirstPixel
<1>2. p # NoChannel => GroupStart(fmt, p)
  BY <1>1 DEF GroupStart, StartsGroup
<1>3. p # NoChannel => ValueIs(fmt, alpha, <<>>, p, p.g - 1)
  <2> SUFFICES ASSUME p # NoChannel
               PROVE  ValueIs(fmt, alpha, <<>>, p, p.g - 1)
    OBVIOUS
  <2>1. 1 = p.g /\ 0 = p.g - 1 /\ 0 = 1 - 1 /\ 1 \in Int /\ 0 \in Int
    BY <1>1
  <2>2. ValueIs(fmt, alpha, <<>>, p, 0)
    BY <2>1, NoValue
  <2> QED  BY <2>1, <2>2
<1>4. Arrived(fmt, img, p)
  BY DEF Arrived, NothingArrived
<1> QED  BY <1>2, <1>3, <1>4

LEMMA StartDelivers ==
  ASSUME DeliveryInv, Deliverable(fmt), BoundsInv', StartDecode
  PROVE  DeliveryInv'
<1>1. /\ pc = "transform" /\ fmt' = fmt /\ has_alpha' = has_alpha /\ value' = value /\ image' = image
      /\ plane = Len(fmt.planes) + 1 /\ plane' = 1 /\ raw' = data /\ pos' = FirstFrom(ChannelY) /\ s' = 1
      /\ pc' = CASE NeedsReorder(fmt) -> "inverse"
                 [] ~ NeedsReorder(fmt) /\ pos' # NoChannel -> "read"
                 [] OTHER -> "done"
  BY Zenon DEF StartDecode
<1>2. /\ WholeBlocks(fmt) /\ Fits(fmt) /\ Reorderable(fmt) /\ DOMAIN data = 0 .. 8 * fmt.size - 1
      /\ PlanesReordered(fmt, has_alpha, data, 1, plane - 1)
      /\ value = <<>> /\ NothingArrived(fmt, image) /\ ImageShape(fmt, image)
  BY <1>1 DEF DeliveryInv, BoundsInv, Deliverable
<1>3. PlanesReordered(fmt, has_alpha, data, 1, Len(fmt.planes))
  <2>1. Len(fmt.planes) \in Nat
    BY <1>2 DEF Reorderable
  <2>2. plane - 1 = Len(fmt.planes)
    BY <1>1, <2>1
  <2> QED  BY <1>2, <2>2
<1>4. NoChannel' = NoChannel
  BY DEF NoChannel, AtChannel
<1>5. /\ pos' # NoChannel => GroupStart(fmt, pos') /\ ValueIs(fmt, has_alpha, <<>>, pos', pos'.g - 1) /\ s' = pos'.g
      /\ Arrived(fmt, image, pos')
  BY <1>1, <1>2, StartsReading, FirstPixel
<1>6. CASE NeedsReorder(fmt)
  <2>1. pc' = "inverse"
    BY <1>1, <1>6, Zenon
  <2>2. 1 \in 1 .. Len(fmt.planes)
    BY <1>2, <1>6 DEF NeedsReorder, Reorderable
  <2> QED  BY <1>1, <1>2, <1>3, <1>4, <1>5, <2>1, <2>2 DEF DeliveryInv
<1>7. CASE ~ NeedsReorder(fmt) /\ pos' # NoChannel
  <2>1. pc' = "read"
    BY <1>1, <1>7, Zenon
  <2>2. AllPacked(fmt, has_alpha, data)
    BY <1>2, <1>3, <1>7, NoMegaBlocks DEF AllPacked, PlanesReordered
  <2>3. GroupStart(fmt, pos') /\ ValueIs(fmt, has_alpha, <<>>, pos', s' - 1)
    BY <1>5, <1>7
  <2> QED  BY <1>1, <1>2, <1>5, <2>1, <2>2, <2>3 DEF DeliveryInv
<1>8. CASE ~ NeedsReorder(fmt) /\ ~ (pos' # NoChannel)
  <2>1. pc' = "done"
    BY <1>1, <1>8, Zenon
  <2> QED  BY <1>1, <1>2, <2>1 DEF DeliveryInv
<1> QED  BY <1>6, <1>7, <1>8

LEMMA InverseDelivers ==
  ASSUME DeliveryInv, Deliverable(fmt), BoundsInv', InversePlane
  PROVE  DeliveryInv'
<1> DEFINE n == Len(fmt.planes)
<1>1. /\ pc = "inverse" /\ fmt' = fmt /\ has_alpha' = has_alpha /\ value' = value /\ image' = image
      /\ plane' = plane + 1 /\ raw' = ReorderInverse(raw, fmt.planes[plane], INDET)
      /\ pos' = pos /\ s' = s /\ plane \in DOMAIN fmt.planes
      /\ pc' = CASE plane < n -> "inverse"
                 [] plane = n /\ pos # NoChannel -> "read"
                 [] OTHER -> "done"
  BY Zenon DEF InversePlane
<1>2. /\ WholeBlocks(fmt) /\ Fits(fmt) /\ Reorderable(fmt) /\ DOMAIN raw = 0 .. 8 * fmt.size - 1
      /\ plane \in 1 .. n /\ PlanesReordered(fmt, has_alpha, raw, plane, n)
      /\ pos # NoChannel => GroupStart(fmt, pos) /\ AtPixelInStep(fmt, pos, it) /\ s = pos.g
      /\ value = <<>> /\ NothingArrived(fmt, image) /\ ImageShape(fmt, image)
  BY <1>1 DEF DeliveryInv, BoundsInv, StepInv, Deliverable
<1>3. n \in Nat /\ plane \in Int
  BY <1>2 DEF Reorderable
<1>4. DOMAIN raw' = 0 .. 8 * fmt.size - 1
  BY <1>1, <1>2, ReorderKeepsDomain
<1>5. PlanesReordered(fmt, has_alpha, raw', plane + 1, n)
  <2> SUFFICES ASSUME NEW q \in Places(fmt)
               PROVE  HoldsReordered(fmt, has_alpha, raw', plane + 1, n, q)
    BY DEF PlanesReordered
  <2>1. HoldsReordered(fmt, has_alpha, raw, plane, n, q)
    BY <1>2 DEF PlanesReordered
  <2> QED  BY <1>1, <1>2, <2>1, InverseMoves
<1>6. NoChannel' = NoChannel
  BY DEF NoChannel, AtChannel
<1> HIDE DEF n
<1>7. CASE plane < n
  <2>1. pc' = "inverse"
    <3>1. plane # n
      BY <1>3, <1>7
    <3> QED  BY <1>1, <1>7, <3>1, Zenon
  <2>2. plane' \in 1 .. n
    BY <1>1, <1>2, <1>3, <1>7
  <2> QED  BY <1>1, <1>2, <1>5, <1>6, <2>1, <2>2 DEF DeliveryInv, n
<1>8. CASE plane = n /\ pos # NoChannel
  <2>1. pc' = "read"
    <3>1. ~ (plane < n)
      BY <1>3, <1>8
    <3> QED  BY <1>1, <1>8, <3>1, Zenon
  <2>2. AllPacked(fmt, has_alpha, raw')
    <3> SUFFICES ASSUME NEW q \in Places(fmt)
                 PROVE  Holds(fmt, has_alpha, raw', q)
      BY DEF AllPacked
    <3> DEFINE from == plane + 1
    <3>1. from \in Int /\ n \in Int /\ n < from
      BY <1>3, <1>8
    <3>2. HoldsReordered(fmt, has_alpha, raw', from, n, q)
      BY <1>5 DEF PlanesReordered
    <3> HIDE DEF from
    <3> QED  BY <1>2, <1>4, <3>1, <3>2, NothingReordered
  <2>3. ValueIs(fmt, has_alpha, <<>>, pos, s - 1)
    <3> DEFINE i == s - 1
    <3>1. s \in Int /\ s = pos.g /\ i \in Int /\ i = s - 1
      BY <1>2, <1>8 DEF AtPixelInStep, AtPixel, Positions
    <3> HIDE DEF i
    <3>2. ValueIs(fmt, has_alpha, <<>>, pos, i)
      BY <3>1, NoValue
    <3> QED  BY <3>2 DEF i
  <2>4. Arrived(fmt, image, pos)
    BY <1>2 DEF Arrived, NothingArrived
  <2> QED  BY <1>1, <1>2, <1>8, <2>1, <2>2, <2>3, <2>4 DEF DeliveryInv
<1>9. CASE ~ (plane < n) /\ ~ (plane = n /\ pos # NoChannel)
  <2>1. pc' = "done"
    BY <1>1, <1>9, Zenon
  <2> QED  BY <1>1, <1>2, <2>1 DEF DeliveryInv
<1> QED  BY <1>7, <1>8, <1>9

LEMMA ReadDelivers ==
  ASSUME DeliveryInv, Deliverable(fmt), BoundsInv', ReadSample
  PROVE  DeliveryInv'
<1> DEFINE smp == Samples(pos.ch)[s]
           first == SampleBit(fmt, pos.ch, pos.line, pos.b, smp)
           low == [k \in 1 .. SampleBits(smp) |-> IF first + k - 1 \in DOMAIN raw THEN raw[first + k - 1] ELSE INDET]
<1>1. /\ pc = "read" /\ fmt' = fmt /\ has_alpha' = has_alpha /\ pos' = pos /\ raw' = raw /\ image' = image
      /\ value' = low \o value
      /\ \/ s' = s + 1 /\ pc' = "read"
         \/ pc' = "store" /\ s' = s
  BY DEF ReadSample, PushBits
<1>2. /\ WholeBlocks(fmt) /\ Fits(fmt) /\ AtPixel(fmt, pos) /\ s \in pos.g .. EndOf(fmt, pos)
      /\ GroupStart(fmt, pos) /\ AllPacked(fmt, has_alpha, raw) /\ Arrived(fmt, image, pos)
      /\ ValueIs(fmt, has_alpha, value, pos, s - 1)
      /\ ImageShape(fmt, image) /\ DOMAIN raw = 0 .. 8 * fmt.size - 1
  BY <1>1 DEF DeliveryInv, BoundsInv, StepInv, Deliverable, AtPixelInStep
<1> DEFINE q == PlaceAt(pos, s)
<1>3. /\ q \in Places(fmt) /\ AddressesOf(smp) = BitsAt(fmt, q) /\ AddressesOf(smp) \subseteq DOMAIN raw
      /\ first = FirstBit(fmt, q) /\ AddressesOf(smp) = first .. first + SampleBits(smp) - 1
  BY <1>2, SampleInFrame DEF Place, PlaceAt, FirstBit, SampleOf, Samples, AddressesOf
<1>4. first \in Int /\ SampleBits(smp) \in Nat
  <2>1. smp = SampleOf(fmt, q)
    BY DEF SampleOf, PlaceAt, Samples
  <2> HIDE DEF smp, q, first
  <2> QED  BY <1>2, <1>3, <2>1, FirstBitIsNumber
<1>5. /\ DOMAIN low = 1 .. SampleBits(smp) /\ low = [k \in DOMAIN low |-> low[k]]
      /\ \A k \in DOMAIN low : low[k] = raw[first + k - 1]
  <2>1. DOMAIN low = 1 .. SampleBits(smp) /\ low = [k \in DOMAIN low |-> low[k]]
    OBVIOUS
  <2>2. ASSUME NEW k \in 1 .. SampleBits(smp)
        PROVE  low[k] = raw[first + k - 1]
    <3>1. first + k - 1 \in first .. first + SampleBits(smp) - 1
      <4> HIDE DEF first, smp
      <4> QED  BY <1>4
    <3>2. first + k - 1 \in DOMAIN raw
      <4> HIDE DEF first, smp
      <4> QED  BY <1>3, <3>1
    <3> HIDE DEF first, smp
    <3> QED  BY <3>2
  <2> HIDE DEF low
  <2> QED  BY <2>1, <2>2
<1>6. Holds(fmt, has_alpha, raw, q)
  BY <1>2, <1>3 DEF AllPacked
<1>7. ValueIs(fmt, has_alpha, value', pos, s)
  <2> DEFINE l == low
             j == s - 1
  <2>1. ReadFrom(fmt, pos, s, raw, l)
    BY <1>3, <1>5 DEF ReadFrom, Samples
  <2>2. value' = l \o value
    BY <1>1
  <2>3. ValueIs(fmt, has_alpha, value, pos, j)
    BY <1>2
  <2>4. Holds(fmt, has_alpha, raw, PlaceAt(pos, s))
    BY <1>6
  <2>5. j = s - 1
    OBVIOUS
  <2> HIDE DEF l, q, j
  <2> QED  BY <1>2, <2>1, <2>2, <2>3, <2>4, <2>5, ReadTakes, SMTT(40)
<1>8. (s + 1) - 1 = s
  BY <1>2, EndOfGroup
<1> HIDE DEF low
<1> QED  BY <1>1, <1>2, <1>7, <1>8 DEF DeliveryInv

(* The image with v stored in pixel i of channel c.                        *)
StoredIn(img, c, i, v, new) ==
  /\ DOMAIN new = DOMAIN img
  /\ \A d \in DOMAIN img : d # c => new[d] = img[d]
  /\ DOMAIN new[c] = DOMAIN img[c] /\ new[c][i] = v
  /\ \A j \in DOMAIN img[c] : j # i => new[c][j] = img[c][j]

LEMMA StoreStores ==
  ASSUME DeliveryInv, Deliverable(fmt), StorePixel
  PROVE  LET i == SurfaceIndex(pos.ch)
         IN  /\ pos.ch \in Channels /\ fmt.channel_blocks[pos.ch].samples # <<>>
             /\ i \in DOMAIN image[pos.ch] /\ i \in 1 .. SurfaceSize(pos.ch)
             /\ StoredIn(image, pos.ch, i, value, image')
<1> DEFINE c == pos.ch
           i == SurfaceIndex(c)
<1>1. pc = "store" /\ AtPixelInStep(fmt, pos, it) /\ WholeBlocks(fmt) /\ ImageShape(fmt, image)
  BY DEF DeliveryInv, BoundsInv, StepInv, Deliverable, StorePixel
<1>2. i \in 1 .. SurfaceSize(c)
  BY <1>1, PixelInSurface
<1>3. c \in Channels /\ fmt.channel_blocks[c].samples # <<>>
  BY <1>1 DEF AtPixelInStep, AtPixel, Positions
<1>4. c \in DOMAIN image /\ DOMAIN image[c] = 1 .. SurfaceSize(c)
  BY <1>1, <1>3 DEF ImageShape, SurfaceSize
<1>5. image' = [image EXCEPT ![c] = [image[c] EXCEPT ![i] = value]]
  BY <1>2 DEF StorePixel
<1> HIDE DEF c, i
<1>6. StoredIn(image, c, i, value, image')
  BY <1>2, <1>4, <1>5 DEF StoredIn
<1> QED  BY <1>2, <1>3, <1>4, <1>6 DEF c, i

LEMMA StoreDelivers ==
  ASSUME DeliveryInv, Deliverable(fmt), BoundsInv', StorePixel
  PROVE  DeliveryInv'
<1> DEFINE c == pos.ch
           i == SurfaceIndex(c)
           e == EndOf(fmt, pos)
           next == NextPos(e)
<1>1. /\ pc = "store" /\ AtPixelInStep(fmt, pos, it) /\ WholeBlocks(fmt) /\ Fits(fmt)
      /\ AtPixel(fmt, pos) /\ s = e /\ pos.g \in pos.g .. e
  BY EndOfGroup DEF DeliveryInv, BoundsInv, StepInv, Deliverable, StorePixel, AtPixelInStep
<1>2. /\ fmt' = fmt /\ has_alpha' = has_alpha /\ raw' = raw /\ value' = <<>> /\ pos' = next /\ s' = next.g
      /\ pc' = IF next = NoChannel THEN "done" ELSE "read"
  BY <1>1 DEF StorePixel
<1>3. /\ c \in Channels /\ fmt.channel_blocks[c].samples # <<>>
      /\ i \in DOMAIN image[c] /\ StoredIn(image, c, i, value, image')
  BY StoreStores
<1>4. AllPacked(fmt, has_alpha, raw) /\ Arrived(fmt, image, pos) /\ ImageShape(fmt, image)
  BY <1>1 DEF DeliveryInv
<1>5. ImageShape(fmt, image')
  <2>1. DOMAIN image' = Channels
    BY <1>3, <1>4 DEF StoredIn, ImageShape
  <2>2. \A d \in Channels : DOMAIN image'[d] = DOMAIN image[d]
    BY <1>3, <1>4 DEF StoredIn, ImageShape
  <2> QED  BY <1>4, <2>1, <2>2 DEF ImageShape
<1>6. CASE next = NoChannel
  BY <1>2, <1>5, <1>6 DEF DeliveryInv
<1>7. CASE next # NoChannel
  <2>1. AtPixel(fmt, next)
    BY <1>1, <1>7, NextIsPixel
  <2>2. GroupStart(fmt, next)
    BY <1>1, <1>7, NextStartsGroup DEF GroupStart, Samples
  <2>3. ValueIs(fmt, has_alpha, <<>>, next, next.g - 1)
    <3> DEFINE g == next.g
               j == g - 1
    <3>1. g \in Int /\ g = next.g /\ j \in Int /\ j = g - 1
      <4>1. g \in Nat
        BY <2>1 DEF AtPixel, Positions
      <4> QED  BY <4>1
    <3> HIDE DEF g, j
    <3>2. ValueIs(fmt, has_alpha, <<>>, next, j)
      BY <3>1, NoValue
    <3> QED  BY <3>2 DEF j, g
  <2>4. ASSUME NEW q \in Places(fmt), Done(q, pos) \/ Among(q, pos, pos.g, e)
        PROVE  Done(q, next)
    BY <1>1, <1>7, <2>4, GroupIsDone
  <2>5. Arrived(fmt, image', next)
    <3> SUFFICES ASSUME NEW d \in Channels, fmt.channel_blocks[d].samples # <<>>, NEW j \in DOMAIN image'[d],
                        image'[d][j] # <<>>
                 PROVE  Stored(fmt, next, d, j)
      BY DEF Arrived
    <3>1. CASE d = c /\ j = i
      <4> DEFINE q == PlaceAt(pos, pos.g)
      <4>1. q \in Places(fmt) /\ q[1] = c /\ Among(q, pos, pos.g, e)
        BY <1>1, SampleInFrame DEF Place, PlaceAt, Among
      <4>2. PixelOf(fmt, q) = i
        BY <1>1, PixelAtPlace
      <4>3. Done(q, next)
        BY <2>4, <4>1
      <4> QED  BY <3>1, <4>1, <4>2, <4>3 DEF Stored
    <3>2. CASE ~ (d = c /\ j = i)
      <4>1. j \in DOMAIN image[d] /\ image[d][j] # <<>>
        BY <1>3, <1>4, <3>2 DEF StoredIn, ImageShape
      <4>2. Stored(fmt, pos, d, j)
        BY <1>4, <4>1 DEF Arrived
      <4> QED  BY <2>4, <4>2 DEF Stored
    <3> QED  BY <3>1, <3>2
  <2>6. pc' = "read"
    BY <1>2, <1>7
  <2>7. ValueIs(fmt, has_alpha, value', pos', s' - 1) /\ GroupStart(fmt, pos') /\ Arrived(fmt, image', pos')
    BY <1>2, <2>2, <2>3, <2>5
  <2> HIDE DEF next
  <2> QED  BY <1>2, <1>4, <1>5, <2>6, <2>7 DEF DeliveryInv
<1> QED  BY <1>6, <1>7

LEMMA DeliveryStarts ==
  ASSUME \A f \in Formats : Deliverable(f), Init
  PROVE  DeliveryInv
<1>1. /\ fmt \in Formats /\ pos = FirstFrom(ChannelY) /\ it = IteratorStart
      /\ pc = (IF pos = NoChannel THEN "transform" ELSE "load")
      /\ value = <<>> /\ plane = 1
      /\ DOMAIN data = 0 .. 8 * fmt.size - 1 /\ in_bounds
      /\ image = [c \in Channels |-> IF Samples(c) = <<>> THEN <<>>
                                     ELSE [i \in 1 .. SurfaceSize(c) |-> <<>>]]
  BY DEF Init
<1>2. WholeBlocks(fmt) /\ Fits(fmt) /\ Reorderable(fmt)
  BY <1>1 DEF Deliverable
<1>3. BoundsInv
  <2>1. StepInv
    BY <1>1, <1>2, FirstPixel DEF StepInv
  <2> QED  BY <1>1, <2>1 DEF BoundsInv
<1>4. ImageShape(fmt, image) /\ NothingArrived(fmt, image)
  BY <1>1 DEF ImageShape, NothingArrived, Samples, SurfaceSize
<1>5. CASE pos = NoChannel
  <2>1. PlanesReordered(fmt, has_alpha, data, 1, plane - 1)
    BY <1>1, <1>2, <1>5, NothingBefore DEF PlanesReordered
  <2>2. plane \in 1 .. Len(fmt.planes) + 1
    BY <1>1, <1>2 DEF Reorderable
  <2> QED  BY <1>1, <1>3, <1>4, <1>5, <2>1, <2>2 DEF DeliveryInv
<1>6. CASE pos # NoChannel
  <2>1. Packed(fmt, has_alpha, data, pos)
    BY <1>1, <1>2, NothingBefore DEF Packed
  <2>2. GroupStart(fmt, pos)
    BY <1>1, <1>2, <1>6, FirstPixel DEF GroupStart, StartsGroup
  <2> QED  BY <1>1, <1>3, <1>4, <1>6, <2>1, <2>2 DEF DeliveryInv
<1> QED  BY <1>5, <1>6

LEMMA DeliveryInductive ==
  ASSUME \A f \in Formats : Deliverable(f), DeliveryInv, [Next]_vars
  PROVE  DeliveryInv'
<1>1. Deliverable(fmt) /\ \A f \in Formats : WholeBlocks(f) /\ Fits(f)
  BY DEF DeliveryInv, BoundsInv, StepInv, Deliverable
<1>2. BoundsInv'
  BY <1>1, BoundsInductive DEF DeliveryInv
<1>3. CASE UNCHANGED vars
  <2>1. /\ fmt' = fmt /\ has_alpha' = has_alpha /\ pc' = pc /\ pos' = pos /\ s' = s /\ value' = value
        /\ plane' = plane /\ data' = data /\ raw' = raw /\ image' = image
    BY <1>3 DEF vars
  <2>2. NoChannel' = NoChannel
    BY DEF NoChannel, AtChannel
  <2> QED  BY <1>2, <2>1, <2>2 DEF DeliveryInv
<1>4. CASE Next
  BY <1>1, <1>2, <1>3, <1>4, LoadDelivers, WriteDelivers, TransformDelivers, StartDelivers, InverseDelivers,
     ReadDelivers, StoreDelivers DEF Next, Stopped
<1> QED  BY <1>3, <1>4

-----------------------------------------------------------------------------
(* The refinement.                                                         *)

LEMMA PixelsAre ==
  ASSUME NEW p
  PROVE  p \in AllPixels <=> \E c \in Channels : \E i \in 1 .. SurfaceSize(c) : Samples(c) # <<>> /\ p = <<c, i>>
  BY DEF AllPixels, PixelsOf

(* The source depends on the format and the image only.                    *)
LEMMA SourceStays ==
  ASSUME fmt' = fmt, has_alpha' = has_alpha
  PROVE  Source' = Source /\ AllPixels' = AllPixels
<1>1. AllPixels' = AllPixels
  BY DEF AllPixels, PixelsOf, SurfaceSize, Samples
<1>2. \A c, i : PixelWidth(c, i)' = PixelWidth(c, i)
  BY DEF PixelWidth, Samples, Block
<1>3. \A c, i, n : SourceBits(c, i, n)' = SourceBits(c, i, n)
  BY DEF SourceBits
<1> QED  BY <1>1, <1>2, <1>3 DEF Source

LEMMA NoPixelYet ==
  ASSUME ImageShape(fmt, image), NothingArrived(fmt, image)
  PROVE  Transfer!Init
<1>1. {q \in AllPixels : image[q[1]][q[2]] # <<>>} = {}
  <2> SUFFICES ASSUME NEW q \in AllPixels
               PROVE  image[q[1]][q[2]] = <<>>
    OBVIOUS
  <2>1. PICK c \in Channels : \E i \in 1 .. SurfaceSize(c) : Samples(c) # <<>> /\ q = <<c, i>>
    BY PixelsAre
  <2>5. PICK i \in 1 .. SurfaceSize(c) : Samples(c) # <<>> /\ q = <<c, i>>
    BY <2>1
  <2>2. i \in DOMAIN image[c]
    BY <2>5 DEF ImageShape, Samples, SurfaceSize
  <2> QED  BY <2>5, <2>2 DEF NothingArrived, Samples
<1> QED  BY <1>1 DEF Transfer!Init, Delivered

(* What is stored is the pixel, in the width that belongs to its place.    *)
LEMMA StoresThePixel ==
  ASSUME DeliveryInv, Deliverable(fmt), StorePixel
  PROVE  LET p == <<pos.ch, SurfaceIndex(pos.ch)>>
         IN  p \in AllPixels /\ value = Source[p] /\ image[pos.ch][SurfaceIndex(pos.ch)] = <<>>
<1> DEFINE c == pos.ch
           i == SurfaceIndex(c)
           e == EndOf(fmt, pos)
<1>1. /\ AtPixelInStep(fmt, pos, it) /\ WholeBlocks(fmt) /\ Fits(fmt) /\ s = e
      /\ GroupStart(fmt, pos) /\ Arrived(fmt, image, pos) /\ ValueIs(fmt, has_alpha, value, pos, s)
  BY DEF DeliveryInv, BoundsInv, StepInv, Deliverable, StorePixel
<1>2. StartsGroup(Samples(pos.ch), pos.g)
  BY <1>1 DEF GroupStart, Samples
<1>3. /\ c \in Channels /\ fmt.channel_blocks[c].samples # <<>>
      /\ i \in DOMAIN image[c] /\ i \in 1 .. SurfaceSize(c)
  BY StoreStores
<1>4. <<c, i>> \in AllPixels
  BY <1>3, PixelsAre DEF Samples
<1>5. image[c][i] = <<>>
  BY <1>1, <1>2, <1>3, PixelIsNew DEF Arrived
<1>6. value = SourceBits(c, i, PixelWidth(c, i))
  <2>1. value = PartFrom(fmt, has_alpha, PlaceAt(pos, e), BitsFrom(fmt, pos, e))
    BY <1>1 DEF ValueIs
  <2>2. SourceBits(c, i, BitsFrom(fmt, pos, e)) = PartFrom(fmt, has_alpha, PlaceAt(pos, e), BitsFrom(fmt, pos, e))
    BY <1>1, LoadTakesAll
  <2>3. PixelWidth(c, i) = BitsFrom(fmt, pos, e)
    BY <1>1, <1>2, WidthOfPixel
  <2> QED  BY <2>1, <2>2, <2>3
<1>7. Source[<<c, i>>] = SourceBits(c, i, PixelWidth(c, i))
  <2> HIDE DEF c, i
  <2> QED  BY <1>4 DEF Source
<1> QED  BY <1>4, <1>5, <1>6, <1>7

LEMMA StoreIsDeliver ==
  ASSUME DeliveryInv, Deliverable(fmt), StorePixel
  PROVE  [Transfer!Next]_(Transfer!vars)
<1> DEFINE c == pos.ch
           i == SurfaceIndex(c)
           Here(img) == {q \in AllPixels : img[q[1]][q[2]] # <<>>}
<1>1. <<c, i>> \in AllPixels /\ value = Source[<<c, i>>] /\ image[c][i] = <<>>
  BY StoresThePixel
<1>2. Source' = Source /\ AllPixels' = AllPixels
  BY SourceStays DEF StorePixel
<1>3. StoredIn(image, c, i, value, image') /\ ImageShape(fmt, image)
  BY StoreStores DEF DeliveryInv
<1>4. ASSUME NEW q \in AllPixels
      PROVE  /\ q # <<c, i>> => image'[q[1]][q[2]] = image[q[1]][q[2]]
             /\ q = <<c, i>> => image'[q[1]][q[2]] = value
  <2>1. PICK d \in Channels : \E j \in 1 .. SurfaceSize(d) : Samples(d) # <<>> /\ q = <<d, j>>
    BY PixelsAre
  <2>6. PICK j \in 1 .. SurfaceSize(d) : Samples(d) # <<>> /\ q = <<d, j>>
    BY <2>1
  <2>2. d \in DOMAIN image /\ j \in DOMAIN image[d]
    BY <1>3, <2>6 DEF ImageShape, Samples, SurfaceSize
  <2> HIDE DEF c, i
  <2>3. d # c => image'[d] = image[d]
    BY <1>3, <2>2 DEF StoredIn
  <2>4. d = c /\ j # i => image'[c][j] = image[c][j]
    BY <1>3, <2>2 DEF StoredIn
  <2>5. image'[c][i] = value
    BY <1>3 DEF StoredIn
  <2> QED  BY <2>3, <2>4, <2>5, <2>6
<1>5. DOMAIN Source = AllPixels
  BY DEF Source
<1> HIDE DEF c, i
<1>6. Delivered = [q \in Here(image) |-> image[q[1]][q[2]]]
  BY DEF Delivered
<1>7. Delivered' = [q \in Here(image') |-> image'[q[1]][q[2]]]
  BY <1>2 DEF Delivered
<1>8. CASE value = <<>>
  <2>1. \A q \in AllPixels : image'[q[1]][q[2]] = image[q[1]][q[2]]
    BY <1>1, <1>4, <1>8
  <2>2. Here(image') = Here(image)
    BY <2>1
  <2>3. Delivered' = Delivered
    BY <1>6, <1>7, <2>1, <2>2
  <2> QED  BY <1>2, <2>3 DEF Transfer!vars
<1>9. CASE value # <<>>
  <2> DEFINE p == <<c, i>>
  <2>1. p \in AllPixels /\ p \notin Here(image) /\ Here(image') = Here(image) \cup {p}
    BY <1>1, <1>4, <1>9
  <2>2. image'[p[1]][p[2]] = Source[p]
    BY <1>1, <1>4
  <2>3. DOMAIN Delivered = Here(image) /\ \A q \in Here(image) : Delivered[q] = image[q[1]][q[2]]
    BY <1>6
  <2>4. \A q \in Here(image) : image'[q[1]][q[2]] = image[q[1]][q[2]]
    BY <1>4, <2>1
  <2> HIDE DEF p, Here
  <2>5. Delivered' = [q \in DOMAIN Delivered \cup {p} |-> IF q = p THEN Source[p] ELSE Delivered[q]]
    BY <1>7, <2>1, <2>2, <2>3, <2>4
  <2>6. Transfer!Deliver(p)
    BY <1>2, <2>1, <2>3, <2>5 DEF Transfer!Deliver
  <2> QED  BY <1>5, <2>1, <2>6 DEF Transfer!Next
<1> QED  BY <1>8, <1>9

LEMMA StepTransfers ==
  ASSUME \A f \in Formats : Deliverable(f), DeliveryInv, [Next]_vars
  PROVE  [Transfer!Next]_(Transfer!vars)
<1>1. Deliverable(fmt)
  BY DEF DeliveryInv, BoundsInv, StepInv
<1>2. CASE StorePixel
  BY <1>1, <1>2, StoreIsDeliver
<1>3. CASE ~ StorePixel
  <2>1. fmt' = fmt /\ has_alpha' = has_alpha /\ image' = image
    BY <1>3 DEF Next, LoadPixel, WriteSample, TransformPlane, StartDecode, InversePlane, ReadSample, Stopped, vars
  <2>2. Source' = Source /\ AllPixels' = AllPixels
    BY <2>1, SourceStays
  <2>3. Delivered' = Delivered
    BY <2>1, <2>2 DEF Delivered
  <2> QED  BY <2>2, <2>3 DEF Transfer!vars
<1> QED  BY <1>2, <1>3

(* Decoding delivers, one by one, every pixel of every channel exactly as  *)
(* it was encoded.                                                         *)
THEOREM EveryPixelArrives ==
  ASSUME \A f \in Formats : Deliverable(f)
  PROVE  Spec => Transfer!Init /\ [][Transfer!Next]_(Transfer!vars)
<1>1. Init => DeliveryInv /\ Transfer!Init
  <2> SUFFICES ASSUME Init
               PROVE  DeliveryInv /\ Transfer!Init
    OBVIOUS
  <2>1. DeliveryInv
    BY DeliveryStarts
  <2>2. ImageShape(fmt, image) /\ NothingArrived(fmt, image)
    BY <2>1 DEF DeliveryInv, Init
  <2> QED  BY <2>1, <2>2, NoPixelYet
<1>2. DeliveryInv /\ [Next]_vars => DeliveryInv'
  BY DeliveryInductive
<1>3. DeliveryInv /\ [Next]_vars => [Transfer!Next]_(Transfer!vars)
  BY StepTransfers
<1> QED  BY <1>1, <1>2, <1>3, PTL DEF Spec

-----------------------------------------------------------------------------
(* No bit is left undetermined.                                            *)

LEMMA NoBitOfAPixelIsIndet ==
  ASSUME NEW c \in Channels, NEW alpha, NEW i, NEW k
  PROVE  SourceBit(alpha, c, i, k) # INDET
<1>1. c # 0 /\ ChannelA # 0
  BY DEF Channels, ChannelY, ChannelA
<1> QED  BY <1>1 DEF SourceBit, INDET

Determined(buf) == \A a \in DOMAIN buf : buf[a] # INDET

(* The blocks of a plane cover it, so nothing of the temporary remains as  *)
(* it was allocated.                                                       *)
LEMMA TransformFills ==
  ASSUME NEW f, Fits(f), Reorderable(f), NEW i \in DOMAIN f.planes,
         NEW buf, DOMAIN buf = 0 .. 8 * f.size - 1, Determined(buf)
  PROVE  Determined(ReorderTransform(buf, f.planes[i], INDET))
<1> DEFINE pl == f.planes[i]
           moved == ReorderTransform(buf, pl, INDET)
<1> SUFFICES ASSUME NEW b \in DOMAIN moved
             PROVE  moved[b] # INDET
  BY DEF Determined
<1>1. b \in DOMAIN buf /\ b \in Int
  <2>1. b \in 0 .. 8 * f.size - 1
    BY ReorderKeepsDomain
  <2> QED  BY <2>1
<1>2. Transformed(f, i, buf, moved)
  BY DEF Transformed
<1>3. CASE ~ InMega(f, i, b)
  <2> HIDE DEF moved
  <2>1. Arrives(buf, b, moved, b)
    BY <1>1, <1>2, <1>3, ReorderLeaves
  <2> QED  BY <1>1, <2>1 DEF Arrives, Determined
<1>4. CASE InMega(f, i, b)
  <2>1. HasMegaBlocks(pl) /\ b - 8 * pl.base_offset \in 0 .. 8 * pl.size - 1
    BY <1>4 DEF InMega
  <2>2. Cuts(pl, LinearBits(pl), buf) /\ Cuts(pl, BlockedBits(pl), buf)
    BY <2>1, PlaneInFrame
  <2>3. moved = MoveBlocks(buf, pl, LinearBits(pl), BlockedBits(pl), INDET)
    BY <2>1 DEF ReorderTransform
  <2> HIDE DEF pl, moved
  <2>4. PICK a : Takes(pl, BlockedBits(pl), LinearBits(pl), b, a)
    BY <1>1, <2>1, <2>2, IsTaken
  <2>5. Takes(pl, LinearBits(pl), BlockedBits(pl), a, b)
    BY <2>4, TakesBack
  <2>6. a \in DOMAIN buf /\ Carries(buf, pl, LinearBits(pl), BlockedBits(pl), a, b)
    BY <2>2, <2>5, BlocksMove
  <2> QED  BY <2>3, <2>6 DEF Carries, Determined
<1> QED  BY <1>3, <1>4

PaddingInv == DeliveryInv /\ Determined(data)

LEMMA PaddingInductive ==
  ASSUME \A f \in Formats : Deliverable(f), PaddingInv, [Next]_vars
  PROVE  PaddingInv'
<1>1. Deliverable(fmt) /\ DeliveryInv /\ Determined(data)
  BY DEF PaddingInv, DeliveryInv, BoundsInv, StepInv
<1>2. DeliveryInv'
  BY <1>1, DeliveryInductive
<1>3. CASE WriteSample
  <2>1. /\ WholeBlocks(fmt) /\ Fits(fmt) /\ AtPixel(fmt, pos) /\ s \in pos.g .. EndOf(fmt, pos)
        /\ ValueIs(fmt, has_alpha, value, pos, s)
    BY <1>1, <1>3 DEF DeliveryInv, BoundsInv, StepInv, Deliverable, Ahead, WriteSample
  <2>2. /\ AddressesOf(Samples(pos.ch)[s]) = BitsAt(fmt, PlaceAt(pos, s))
        /\ SampleBit(fmt, pos.ch, pos.line, pos.b, Samples(pos.ch)[s]) = FirstBit(fmt, PlaceAt(pos, s))
    BY <2>1, SampleInFrame DEF FirstBit, PlaceAt, Place, SampleOf, Samples
  <2>3. DOMAIN data' = DOMAIN data /\ \A a \in DOMAIN data :
          data'[a] = IF a \in BitsAt(fmt, PlaceAt(pos, s)) THEN value[a - FirstBit(fmt, PlaceAt(pos, s)) + 1] ELSE data[a]
    BY <1>3, <2>2 DEF WriteSample
  <2>4. ASSUME NEW a \in BitsAt(fmt, PlaceAt(pos, s))
        PROVE  value[a - FirstBit(fmt, PlaceAt(pos, s)) + 1] # INDET
    <3>1. value[a - FirstBit(fmt, PlaceAt(pos, s)) + 1] = BitFor(fmt, has_alpha, PlaceAt(pos, s), a)
      BY <2>1, WritePuts DEF ValueIs
    <3>2. PlaceAt(pos, s)[1] \in Channels
      BY <2>1 DEF PlaceAt, AtPixel, Positions
    <3> QED  BY <3>1, <3>2, NoBitOfAPixelIsIndet DEF BitFor
  <2> QED  BY <1>1, <1>2, <2>3, <2>4 DEF PaddingInv, Determined
<1>4. CASE TransformPlane
  <2>1. plane \in DOMAIN fmt.planes /\ (data' = data \/ data' = ReorderTransform(data, fmt.planes[plane], INDET))
    BY <1>4 DEF TransformPlane
  <2>2. Fits(fmt) /\ Reorderable(fmt) /\ DOMAIN data = 0 .. 8 * fmt.size - 1
    BY <1>1 DEF DeliveryInv, BoundsInv, Deliverable
  <2> QED  BY <1>1, <1>2, <2>1, <2>2, TransformFills DEF PaddingInv
<1>5. CASE ~ WriteSample /\ ~ TransformPlane
  <2>1. data' = data
    BY <1>5 DEF Next, LoadPixel, StartDecode, InversePlane, ReadSample, StorePixel, Stopped, vars
  <2> QED  BY <1>1, <1>2, <2>1 DEF PaddingInv
<1> QED  BY <1>3, <1>4, <1>5

(* Every bit of an encoded frame is a bit of the image or the poison, if   *)
(* the blocks of the planes that are reordered cover them.                 *)
THEOREM PaddingIsDeterministic ==
  ASSUME \A f \in Formats : Deliverable(f)
  PROVE  Spec => []PaddingDeterministic
<1>1. Init => PaddingInv
  <2> SUFFICES ASSUME Init
               PROVE  PaddingInv
    OBVIOUS
  <2>1. Determined(data)
    BY DEF Init, Determined, POISON, INDET
  <2> QED  BY <2>1, DeliveryStarts DEF PaddingInv
<1>2. PaddingInv /\ [Next]_vars => PaddingInv'
  BY PaddingInductive
<1>3. PaddingInv => PaddingDeterministic
  BY DEF PaddingInv, Determined, PaddingDeterministic
<1> QED  BY <1>1, <1>2, <1>3, PTL DEF Spec

(* A format the validator accepts, of whole blocks and whole macro pixels, *)
(* whose planes are apart and inside the frame and whose numbers do not    *)
(* wrap.                                                                   *)
Accepted(f) ==
  /\ WholeBlocks(f) /\ WellFormed(f) /\ Representable(f) /\ WholeMacroPixels(f)
  /\ ValidateFormat(f) = "valid" /\ DisjointPlanes(f) /\ f.size \in Nat
  /\ \A i \in DOMAIN f.planes :
       f.planes[i].base_offset + f.planes[i].size <= f.size /\ ~ ReorderOverruns(f.planes[i])

(* What the validator accepts can be packed and unpacked without leaving a *)
(* buffer or writing a bit twice.                                          *)
THEOREM AcceptedFormatsPack ==
  ASSUME \A f \in Formats : Accepted(f)
  PROVE  Spec => []InBounds /\ NoClobber
<1>1. \A f \in Formats : WholeBlocks(f) /\ Fits(f) /\ PlacesDisjoint(f)
  BY AcceptedFormatsAreSound DEF Accepted, Fits
<1>2. Spec => []InBounds
  BY <1>1, NothingOutside
<1>3. Spec => NoClobber
  BY <1>1, NothingWrittenTwice
<1> QED  BY <1>2, <1>3

(* And every pixel comes back as it was, no bit of the frame left to       *)
(* chance, if the planes with a block order are made of whole mega blocks  *)
(* that the order permutes, which the validator checks only in part.       *)
THEOREM AcceptedFormatsArrive ==
  ASSUME \A f \in Formats :
           /\ Accepted(f) /\ Len(f.planes) \in Nat /\ DOMAIN f.planes = 1 .. Len(f.planes)
           /\ \A i \in DOMAIN f.planes : HasMegaBlocks(f.planes[i]) => WholeMegaBlocks(f.planes[i])
  PROVE  Spec => []PaddingDeterministic /\ Transfer!Init /\ [][Transfer!Next]_(Transfer!vars)
<1>1. \A f \in Formats : Deliverable(f)
  BY AcceptedFormatsAreSound DEF Accepted, Fits, Deliverable, Reorderable, DisjointPlanes
<1>2. Spec => []PaddingDeterministic
  BY <1>1, PaddingIsDeterministic
<1>3. Spec => Transfer!Init /\ [][Transfer!Next]_(Transfer!vars)
  BY <1>1, EveryPixelArrives
<1> QED  BY <1>2, <1>3

=============================================================================
