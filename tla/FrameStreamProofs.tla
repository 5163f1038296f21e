------------------------- MODULE FrameStreamProofs -------------------------
(***************************************************************************)
(* Proofs about the stream of frames: the reader keeps in step with what   *)
(* write_frame laid out, so that the frames it returns are those written,  *)
(* in their order and unaltered.                                           *)
(***************************************************************************)
EXTENDS FrameStream, LayoutProofs

-----------------------------------------------------------------------------
(* The frames that are written: layouts whose counts have room in the      *)
(* fields of the file, with a version that is known or refused.            *)

BlockOrders == [mega_block_width : Nat \ {0}, mega_block_height : Nat \ {0}, x_mask : Seq(Nat), y_mask : Seq(Nat)]
PlaneRecords ==
  [base_offset : Nat, size : Nat, line_stride : Nat, block_stride : Nat, interleave_mode : InterleaveModes,
   block_order : BlockOrders]
SampleRecords ==
  [plane : Nat, integer_bits : Nat, fractional_bits : Nat, offset : Nat, has_continuation : BOOLEAN]
BlockRecords == [w : Nat, h : Nat, samples : Seq(SampleRecords)]
Layouts ==
  [image_w : Nat, image_h : Nat, macro_px_w : Nat, macro_px_h : Nat, origin : {"upper_left", "lower_left"},
   size : Nat, planes : Seq(PlaneRecords), channel_blocks : [Channels -> BlockRecords]]

(* n_planes is a uint8_t and n_continuation a uint16_t.                    *)
CountsFit(fmt) ==
  /\ Len(fmt.planes) < 256
  /\ \A c \in Channels : Len(fmt.channel_blocks[c].samples) < Word

(* A plane without mega blocks has no masks that version 0 would lose.     *)
PlainOrders(fmt) ==
  \A i \in DOMAIN fmt.planes :
    HasMegaBlocks(fmt.planes[i]) \/ fmt.planes[i].block_order = DefaultBlockOrder

Writable(call) ==
  /\ call.frame.format \in Layouts
  /\ CountsFit(call.frame.format)
  /\ call.version = 0 => PlainOrders(call.frame.format)

(* The preamble, if there is one, does not look like a frame of a known    *)
(* version.                                                                *)
Foreign(p) ==
  /\ p # <<>>
  /\ p[1].whole => ~ (p[1].kind = "file_header" /\ p[1].body.version \in FileFormats)

IsSequence(s) == \E S : s \in Seq(S)

StreamAssumptions ==
  /\ Hosts \subseteq {"little", "big"}
  /\ \A scr \in Scripts : IsSequence(scr) /\ \A i \in DOMAIN scr : Writable(scr[i])
  /\ \A p \in Preambles : IsSequence(p) /\ (p = <<>> \/ Foreign(p))

-----------------------------------------------------------------------------
(* Sequences, and what was read of one.                                    *)

Start(s, n) == [i \in 1 .. n |-> s[i]]

LEMMA IsAppended ==
  ASSUME NEW s, NEW e, IsSequence(s)
  PROVE  /\ IsSequence(Append(s, e))
         /\ Len(s) \in Nat
         /\ Len(Append(s, e)) = Len(s) + 1
         /\ \A i \in 1 .. Len(s) : Append(s, e)[i] = s[i]
         /\ Append(s, e)[Len(s) + 1] = e
         /\ DOMAIN s = 1 .. Len(s)
<1>1. PICK S : s \in Seq(S)
  BY DEF IsSequence
<1>2. s \in Seq(S \cup {e}) /\ e \in S \cup {e}
  BY <1>1
<1>3. Append(s, e) \in Seq(S \cup {e})
  BY <1>2
<1> QED  BY <1>2, <1>3 DEF IsSequence

LEMMA IsTaken ==
  ASSUME NEW s, IsSequence(s), s # <<>>
  PROVE  /\ IsSequence(Tail(s))
         /\ Len(s) \in Nat \ {0}
         /\ Len(Tail(s)) = Len(s) - 1
         /\ Head(s) = s[1]
         /\ \A i \in 1 .. Len(s) - 1 : Tail(s)[i] = s[i + 1]
         /\ DOMAIN s = 1 .. Len(s)
         /\ DOMAIN Tail(s) = 1 .. Len(s) - 1
<1>1. PICK S : s \in Seq(S)
  BY DEF IsSequence
<1>2. Tail(s) \in Seq(S)
  BY <1>1
<1> QED  BY <1>1, <1>2 DEF IsSequence

LEMMA IsJoined ==
  ASSUME NEW s, NEW t, IsSequence(s), IsSequence(t)
  PROVE  /\ IsSequence(s \o t)
         /\ Len(s) \in Nat /\ Len(t) \in Nat
         /\ Len(s \o t) = Len(s) + Len(t)
         /\ \A i \in 1 .. Len(s) : (s \o t)[i] = s[i]
         /\ \A i \in 1 .. Len(t) : (s \o t)[Len(s) + i] = t[i]
<1>1. PICK S : s \in Seq(S)
  BY DEF IsSequence
<1>2. PICK T : t \in Seq(T)
  BY DEF IsSequence
<1>3. s \in Seq(S \cup T) /\ t \in Seq(S \cup T)
  BY <1>1, <1>2
<1>4. s \o t \in Seq(S \cup T)
  BY <1>3
<1> QED  BY <1>3, <1>4 DEF IsSequence

LEMMA IsSingle ==
  ASSUME NEW e
  PROVE  IsSequence(<<e>>) /\ Len(<<e>>) = 1 /\ <<e>>[1] = e
<1>1. <<e>> \in Seq({e})
  OBVIOUS
<1> QED  BY <1>1 DEF IsSequence

LEMMA IsListed ==
  ASSUME NEW n \in Nat, NEW s, s = [i \in 1 .. n |-> s[i]]
  PROVE  IsSequence(s) /\ Len(s) = n
<1> DEFINE T == {s[i] : i \in 1 .. n}
<1>1. \A i \in 1 .. n : s[i] \in T
  OBVIOUS
<1> HIDE DEF T
<1>2. s \in [1 .. n -> T]
  BY <1>1
<1>3. s \in Seq(T)
  BY <1>2
<1>4. Len(s) = n
  BY <1>2
<1> QED  BY <1>3, <1>4 DEF IsSequence

LEMMA StartOfAll ==
  ASSUME NEW S, NEW s \in Seq(S)
  PROVE  Start(s, 0) = <<>> /\ Start(s, Len(s)) = s
  BY DEF Start

LEMMA StartGrows ==
  ASSUME NEW S, NEW s \in Seq(S), NEW n \in Nat, n < Len(s)
  PROVE  Append(Start(s, n), s[n + 1]) = Start(s, n + 1)
<1>1. Start(s, n) \in Seq(S)
  BY DEF Start
<1>2. /\ Append(Start(s, n), s[n + 1]) \in Seq(S)
      /\ Len(Start(s, n)) = n
  BY <1>1 DEF Start
<1>3. /\ DOMAIN Append(Start(s, n), s[n + 1]) = 1 .. n + 1
      /\ \A i \in 1 .. n + 1 : Append(Start(s, n), s[n + 1])[i] = s[i]
  BY <1>1, <1>2 DEF Start
<1> QED  BY <1>2, <1>3 DEF Start

-----------------------------------------------------------------------------
(* A layout while it is being read: after some planes, before a channel's  *)
(* block, and after some of its samples.                                   *)

NoBlock == [w |-> 0, h |-> 0, samples |-> <<>>]
SomeSamples(blk, n) == [w |-> blk.w, h |-> blk.h, samples |-> Start(blk.samples, n)]

Outline(fmt, planes, blocks) ==
  [image_w |-> fmt.image_w, image_h |-> fmt.image_h, macro_px_w |-> fmt.macro_px_w, macro_px_h |-> fmt.macro_px_h,
   origin |-> fmt.origin, size |-> fmt.size, planes |-> planes, channel_blocks |-> blocks]

NoBlocks == [c \in Channels |-> NoBlock]
BlocksBefore(fmt, b) == [c \in Channels |-> IF c < b THEN fmt.channel_blocks[c] ELSE NoBlock]
BlocksTo(fmt, b, n) ==
  [c \in Channels |-> IF c < b THEN fmt.channel_blocks[c]
                      ELSE IF c = b THEN SomeSamples(fmt.channel_blocks[c], n) ELSE NoBlock]

PlanesRead(fmt, n) == Outline(fmt, Start(fmt.planes, n), NoBlocks)
BlocksRead(fmt, b) == Outline(fmt, fmt.planes, BlocksBefore(fmt, b))
SamplesRead(fmt, b, n) == Outline(fmt, fmt.planes, BlocksTo(fmt, b, n))

LEMMA PlaneRead ==
  ASSUME NEW fmt \in Layouts, NEW n \in Nat, n < Len(fmt.planes)
  PROVE  [PlanesRead(fmt, n) EXCEPT !.planes = Append(@, fmt.planes[n + 1])] = PlanesRead(fmt, n + 1)
<1>1. Append(Start(fmt.planes, n), fmt.planes[n + 1]) = Start(fmt.planes, n + 1)
  BY StartGrows DEF Layouts
<1>2. PlanesRead(fmt, n).planes = Start(fmt.planes, n)
  BY DEF Outline, PlanesRead
<1>3. Append(PlanesRead(fmt, n).planes, fmt.planes[n + 1]) = Start(fmt.planes, n + 1)
  BY <1>1, <1>2, Zenon
<1>4. [PlanesRead(fmt, n) EXCEPT !.planes = Start(fmt.planes, n + 1)] = PlanesRead(fmt, n + 1)
  BY DEF Outline, PlanesRead
<1> QED  BY <1>3, <1>4, Zenon

LEMMA AllPlanesRead ==
  ASSUME NEW fmt \in Layouts
  PROVE  PlanesRead(fmt, Len(fmt.planes)) = BlocksRead(fmt, ChannelY)
<1>1. Start(fmt.planes, Len(fmt.planes)) = fmt.planes
  BY StartOfAll DEF Layouts
<1>2. NoBlocks = BlocksBefore(fmt, ChannelY)
  BY DEF Channels, ChannelY, ChannelA, NoBlocks, BlocksBefore
<1> QED  BY <1>1, <1>2, Zenon DEF PlanesRead, BlocksRead

LEMMA Overrides ==
  ASSUME NEW S, NEW f, NEW g, NEW b \in S,
         f = [c \in S |-> f[c]], g = [c \in S |-> g[c]], \A c \in S \ {b} : f[c] = g[c]
  PROVE  [f EXCEPT ![b] = g[b]] = g
  OBVIOUS

LEMMA BlocksUpdate ==
  ASSUME NEW fmt, NEW b \in Channels, NEW n
  PROVE  /\ BlocksBefore(fmt, b)[b] = NoBlock
         /\ BlocksTo(fmt, b, n)[b] = SomeSamples(fmt.channel_blocks[b], n)
         /\ [BlocksBefore(fmt, b) EXCEPT ![b] = SomeSamples(fmt.channel_blocks[b], n)] = BlocksTo(fmt, b, n)
         /\ \A m : [BlocksTo(fmt, b, m) EXCEPT ![b] = SomeSamples(fmt.channel_blocks[b], n)] = BlocksTo(fmt, b, n)
<1> USE DEF Channels, ChannelY, ChannelA
<1> DEFINE blk == SomeSamples(fmt.channel_blocks[b], n)
<1>1. BlocksBefore(fmt, b)[b] = NoBlock /\ BlocksTo(fmt, b, n)[b] = blk
  BY DEF BlocksBefore, BlocksTo
<1>2. [BlocksBefore(fmt, b) EXCEPT ![b] = blk] = BlocksTo(fmt, b, n)
  <2> DEFINE f == BlocksBefore(fmt, b)
             g == BlocksTo(fmt, b, n)
  <2>1. f = [c \in Channels |-> f[c]] /\ g = [c \in Channels |-> g[c]] /\ \A c \in Channels \ {b} : f[c] = g[c]
    BY DEF BlocksBefore, BlocksTo
  <2> HIDE DEF f, g
  <2> QED  BY <1>1, <2>1, Overrides, ZenonT(40) DEF f, g
<1>3. ASSUME NEW m
      PROVE  [BlocksTo(fmt, b, m) EXCEPT ![b] = blk] = BlocksTo(fmt, b, n)
  <2> DEFINE f == BlocksTo(fmt, b, m)
             g == BlocksTo(fmt, b, n)
  <2>1. f = [c \in Channels |-> f[c]] /\ g = [c \in Channels |-> g[c]] /\ \A c \in Channels \ {b} : f[c] = g[c]
    BY DEF BlocksTo
  <2> HIDE DEF f, g
  <2> QED  BY <1>1, <2>1, Overrides, ZenonT(40) DEF f, g
<1> QED  BY <1>1, <1>2, <1>3

LEMMA BlockOpened ==
  ASSUME NEW fmt \in Layouts, NEW b \in Channels
  PROVE  [BlocksRead(fmt, b) EXCEPT
            !.channel_blocks[b] = [@ EXCEPT !.w = fmt.channel_blocks[b].w, !.h = fmt.channel_blocks[b].h]]
           = SamplesRead(fmt, b, 0)
<1>1. Start(fmt.channel_blocks[b].samples, 0) = <<>>
  BY StartOfAll DEF Layouts, BlockRecords
<1> DEFINE blk == fmt.channel_blocks[b]
           before == BlocksBefore(fmt, b)
           read == BlocksRead(fmt, b)
<1>2. [NoBlock EXCEPT !.w = blk.w, !.h = blk.h] = SomeSamples(blk, 0)
  <2>1. [NoBlock EXCEPT !.w = blk.w] = [w |-> blk.w, h |-> 0, samples |-> <<>>]
    BY DEF NoBlock
  <2>2. [[w |-> blk.w, h |-> 0, samples |-> <<>>] EXCEPT !.h = blk.h] = SomeSamples(blk, 0)
    BY <1>1 DEF SomeSamples
  <2> QED  BY <2>1, <2>2, Zenon
<1>3. before[b] = NoBlock /\ [before EXCEPT ![b] = SomeSamples(blk, 0)] = BlocksTo(fmt, b, 0)
  BY BlocksUpdate
<1>4. read.channel_blocks = before /\ [read EXCEPT !.channel_blocks = BlocksTo(fmt, b, 0)] = SamplesRead(fmt, b, 0)
  BY DEF Outline, BlocksRead, SamplesRead
<1> HIDE DEF before, read
<1>5. [read.channel_blocks[b] EXCEPT !.w = blk.w, !.h = blk.h] = SomeSamples(blk, 0)
  BY <1>2, <1>3, <1>4, Zenon
<1>6. [read.channel_blocks EXCEPT ![b] = SomeSamples(blk, 0)] = BlocksTo(fmt, b, 0)
  BY <1>3, <1>4, Zenon
<1>7. [read EXCEPT !.channel_blocks[b] = [@ EXCEPT !.w = blk.w, !.h = blk.h]] = SamplesRead(fmt, b, 0)
  BY <1>4, <1>5, <1>6, Zenon
<1> QED  BY <1>7, Zenon DEF read

LEMMA SampleRead ==
  ASSUME NEW fmt \in Layouts, NEW b \in Channels, NEW n \in Nat, n < Len(fmt.channel_blocks[b].samples)
  PROVE  [SamplesRead(fmt, b, n) EXCEPT
            !.channel_blocks[b].samples = Append(@, fmt.channel_blocks[b].samples[n + 1])]
           = SamplesRead(fmt, b, n + 1)
<1> DEFINE blk == fmt.channel_blocks[b]
<1>1. Append(Start(blk.samples, n), blk.samples[n + 1]) = Start(blk.samples, n + 1)
  BY StartGrows DEF Layouts, BlockRecords
<1> DEFINE to == BlocksTo(fmt, b, n)
           read == SamplesRead(fmt, b, n)
<1>2. /\ SomeSamples(blk, n).samples = Start(blk.samples, n)
      /\ [SomeSamples(blk, n) EXCEPT !.samples = Start(blk.samples, n + 1)] = SomeSamples(blk, n + 1)
  BY DEF SomeSamples
<1>3. to[b] = SomeSamples(blk, n) /\ [to EXCEPT ![b] = SomeSamples(blk, n + 1)] = BlocksTo(fmt, b, n + 1)
  BY BlocksUpdate
<1>4. /\ read.channel_blocks = to
      /\ [read EXCEPT !.channel_blocks = BlocksTo(fmt, b, n + 1)] = SamplesRead(fmt, b, n + 1)
  BY DEF Outline, SamplesRead
<1> HIDE DEF to, read
<1>5. read.channel_blocks[b] = SomeSamples(blk, n)
  BY <1>3, <1>4, Zenon
<1>6. Append(read.channel_blocks[b].samples, blk.samples[n + 1]) = Start(blk.samples, n + 1)
  BY <1>1, <1>2, <1>5, Zenon
<1>7. [read.channel_blocks[b] EXCEPT !.samples = Start(blk.samples, n + 1)] = SomeSamples(blk, n + 1)
  BY <1>2, <1>5, Zenon
<1>8. [read.channel_blocks EXCEPT ![b] = SomeSamples(blk, n + 1)] = BlocksTo(fmt, b, n + 1)
  BY <1>3, <1>4, Zenon
<1>9. [read EXCEPT !.channel_blocks[b].samples = Append(@, blk.samples[n + 1])] = SamplesRead(fmt, b, n + 1)
  BY <1>4, <1>6, <1>7, <1>8, Zenon
<1> QED  BY <1>9, Zenon DEF read

LEMMA AllSamplesRead ==
  ASSUME NEW fmt \in Layouts, NEW b \in Channels
  PROVE  SamplesRead(fmt, b, Len(fmt.channel_blocks[b].samples)) = BlocksRead(fmt, b + 1)
<1> DEFINE blk == fmt.channel_blocks[b]
<1>1. Start(blk.samples, Len(blk.samples)) = blk.samples
  BY StartOfAll DEF Layouts, BlockRecords
<1>2. SomeSamples(blk, Len(blk.samples)) = blk
  BY <1>1 DEF SomeSamples, Layouts, BlockRecords
<1>3. BlocksTo(fmt, b, Len(blk.samples)) = BlocksBefore(fmt, b + 1)
  BY <1>2 DEF Channels, ChannelY, ChannelA, BlocksTo, BlocksBefore
<1> QED  BY <1>3, Zenon DEF SamplesRead, BlocksRead

LEMMA AllBlocksRead ==
  ASSUME NEW fmt \in Layouts
  PROVE  BlocksRead(fmt, ChannelA + 1) = fmt
<1>1. BlocksBefore(fmt, ChannelA + 1) = fmt.channel_blocks
  BY DEF Channels, ChannelY, ChannelA, Layouts, BlocksBefore
<1> QED  BY <1>1 DEF BlocksRead, Outline, Layouts

-----------------------------------------------------------------------------
(* What write_frame lays out.  The structs of channel c follow the first   *)
(* BlockAt(fmt, c) of the frame, and the payload the first BlockAt(fmt, 5).*)

StructsBefore(fmt, c, b) == IF c < b THEN 1 + Len(fmt.channel_blocks[c].samples) ELSE 0
BlockAt(fmt, b) ==
  2 + Len(fmt.planes) + StructsBefore(fmt, ChannelY, b) + StructsBefore(fmt, ChannelU, b)
    + StructsBefore(fmt, ChannelV, b) + StructsBefore(fmt, ChannelA, b)
PayloadAt(fmt) == BlockAt(fmt, ChannelA + 1)

LEMMA BlocksFollow ==
  ASSUME NEW fmt \in Layouts
  PROVE  /\ Len(fmt.planes) \in Nat
         /\ \A c \in Channels : Len(fmt.channel_blocks[c].samples) \in Nat
         /\ \A b \in 1 .. 5 : BlockAt(fmt, b) \in Nat
         /\ BlockAt(fmt, ChannelY) = 2 + Len(fmt.planes)
         /\ \A c \in Channels : BlockAt(fmt, c + 1) = BlockAt(fmt, c) + 1 + Len(fmt.channel_blocks[c].samples)
<1> USE DEF Channels, ChannelY, ChannelU, ChannelV, ChannelA
<1>1. Len(fmt.planes) \in Nat
  BY DEF Layouts
<1>2. ASSUME NEW c \in Channels
      PROVE  Len(fmt.channel_blocks[c].samples) \in Nat
  <2>1. fmt.channel_blocks[c] \in BlockRecords
    BY DEF Layouts
  <2> QED  BY <2>1 DEF BlockRecords
<1> DEFINE n(c) == Len(fmt.channel_blocks[c].samples)
<1>3. n(1) \in Nat /\ n(2) \in Nat /\ n(3) \in Nat /\ n(4) \in Nat
  BY <1>2
<1> DEFINE N == Len(fmt.planes)
<1>4. /\ BlockAt(fmt, 1) = 2 + N
      /\ BlockAt(fmt, 2) = 2 + N + (1 + n(1))
      /\ BlockAt(fmt, 3) = 2 + N + (1 + n(1)) + (1 + n(2))
      /\ BlockAt(fmt, 4) = 2 + N + (1 + n(1)) + (1 + n(2)) + (1 + n(3))
      /\ BlockAt(fmt, 5) = 2 + N + (1 + n(1)) + (1 + n(2)) + (1 + n(3)) + (1 + n(4))
  BY <1>1, <1>3 DEF BlockAt, StructsBefore
<1> HIDE DEF n, N
<1>5. \A b \in 1 .. 5 : BlockAt(fmt, b) \in Nat
  <2>1. N \in Nat
    BY <1>1 DEF N
  <2> QED  BY <1>3, <1>4, <2>1
<1>6. BlockAt(fmt, 1) = 2 + Len(fmt.planes)
  BY <1>4 DEF N
<1>7. \A c \in Channels : BlockAt(fmt, c + 1) = BlockAt(fmt, c) + 1 + n(c)
  <2>1. N \in Nat
    BY <1>1 DEF N
  <2> QED  BY <1>3, <1>4, <2>1
<1> QED  BY <1>1, <1>2, <1>5, <1>6, <1>7 DEF n

HeadersOnDisk(d, f, v, w) ==
  LET h == d[2].body
  IN  /\ d[1].kind = "file_header"
      /\ d[1].body.version = w /\ d[1].body.size = f.format.size
      /\ d[2].kind = "frame_header" /\ d[2].bytes = StructBytes("frame_header", v)
      /\ h.image_w = f.format.image_w /\ h.image_h = f.format.image_h /\ h.origin = f.format.origin
      /\ h.macro_px_w = f.format.macro_px_w /\ h.macro_px_h = f.format.macro_px_h
      /\ h.n_planes = Len(f.format.planes) /\ h.matrix = f.matrix
PlanesOnDisk(d, f, v) ==
  \A i \in 1 .. Len(f.format.planes) :
    /\ d[2 + i].kind \in {"plane", "assertion"}
    /\ d[2 + i].kind = "plane" => d[2 + i].bytes = StructBytes("plane", v) /\ d[2 + i].body = f.format.planes[i]
BlockOnDisk(s, at, blk, v) ==
  /\ s[at + 1].kind = "channel_block" /\ s[at + 1].bytes = StructBytes("channel_block", v)
  /\ s[at + 1].body.w = blk.w /\ s[at + 1].body.h = blk.h
  /\ NSamples(s[at + 1].body) = Len(blk.samples)
  /\ \A i \in 1 .. Len(blk.samples) :
       /\ s[at + 1 + i].kind = "sample" /\ s[at + 1 + i].bytes = StructBytes("sample", v)
       /\ s[at + 1 + i].body = blk.samples[i]
PayloadOnDisk(d, f) ==
  LET p == d[PayloadAt(f.format) + 1]
  IN  p.kind = "payload" /\ p.bytes = f.format.size /\ p.body = f.data

(* d is a frame f of version v on the disk, where it says it is version w. *)
OnDisk(d, f, v, w) ==
  /\ IsSequence(d) /\ Len(d) = PayloadAt(f.format) + 1
  /\ HeadersOnDisk(d, f, v, w)
  /\ PlanesOnDisk(d, f, v)
  /\ \A c \in Channels : BlockOnDisk(d, BlockAt(f.format, c), f.format.channel_blocks[c], v)
  /\ PayloadOnDisk(d, f)

(* Sequence s is part of d, after the first at elements.                   *)
Lies(s, at, d) == IsSequence(d) /\ Len(s) \in Nat /\ at + Len(s) <= Len(d) /\ \A i \in 1 .. Len(s) : d[at + i] = s[i]

LEMMA LiesLast ==
  ASSUME NEW s, NEW d, IsSequence(s), IsSequence(d)
  PROVE  Lies(s, Len(d), d \o s)
  BY IsJoined DEF Lies

LEMMA StillLies ==
  ASSUME NEW s, NEW at \in Nat, NEW d, NEW t, Lies(s, at, d), IsSequence(t)
  PROVE  Lies(s, at, d \o t)
<1>1. IsSequence(d) /\ Len(s) \in Nat /\ at + Len(s) <= Len(d) /\ \A i \in 1 .. Len(s) : d[at + i] = s[i]
  BY DEF Lies
<1>2. /\ IsSequence(d \o t) /\ Len(d) \in Nat /\ Len(t) \in Nat
      /\ Len(d \o t) = Len(d) + Len(t)
      /\ \A i \in 1 .. Len(d) : (d \o t)[i] = d[i]
  BY <1>1, IsJoined
<1>3. \A i \in 1 .. Len(s) : at + i \in 1 .. Len(d)
  BY <1>1, <1>2
<1> QED  BY <1>1, <1>2, <1>3 DEF Lies

LEMMA BlockFound ==
  ASSUME NEW s, NEW at \in Nat, NEW d, NEW blk \in BlockRecords, NEW v,
         Lies(s, at, d), Len(s) = 1 + Len(blk.samples), BlockOnDisk(s, 0, blk, v)
  PROVE  BlockOnDisk(d, at, blk, v)
<1>1. Len(blk.samples) \in Nat
  BY DEF BlockRecords
<1>2. d[at + 1] = s[1] /\ \A i \in 1 .. Len(blk.samples) : d[at + 1 + i] = s[1 + i]
  BY <1>1 DEF Lies
<1> QED  BY <1>1, <1>2, SMTT(40) DEF BlockOnDisk

LEMMA WrapsBack ==
  ASSUME NEW m \in Nat \ {0}, NEW n \in Nat, n < m, NEW a \in Int
  PROVE  (a + ((n - a) % m)) % m = n
<1> DEFINE q == (n - a) \div m
           r == (n - a) % m
<1>1. n - a = m * q + r /\ q \in Int /\ r \in Int
  BY Z3
<1> HIDE DEF q, r
<1>2. a + r = m * (0 - q) + n
  BY <1>1, Z3
<1>3. \A k \in Int : (m * k + n) % m = n
  BY Z3
<1>4. (a + r) % m = n
  BY <1>1, <1>2, <1>3, SMTT(40)
<1> QED  BY <1>4 DEF r

LEMMA BlockWritten ==
  ASSUME Word \in Nat \ {0}, NEW blk \in BlockRecords, NEW v, Len(blk.samples) < Word
  PROVE  /\ IsSequence(ChannelOnDisk(blk, v))
         /\ Len(ChannelOnDisk(blk, v)) = 1 + Len(blk.samples)
         /\ BlockOnDisk(ChannelOnDisk(blk, v), 0, blk, v)
<1> DEFINE area == blk.w * blk.h
           extra == (Len(blk.samples) - area) % Word
           body == [w |-> blk.w, h |-> blk.h, n_continuation |-> (Len(blk.samples) - blk.w * blk.h) % Word]
           first == <<Struct("channel_block", v, body)>>
           rest == [i \in DOMAIN blk.samples |-> Struct("sample", v, blk.samples[i])]
<1>1. Len(blk.samples) \in Nat /\ DOMAIN blk.samples = 1 .. Len(blk.samples)
  BY DEF BlockRecords
<1>2. area \in Int
  BY DEF BlockRecords
<1>3. (area + extra) % Word = Len(blk.samples)
  <2> DEFINE n == Len(blk.samples)
  <2>1. n \in Nat /\ n < Word
    BY <1>1
  <2> HIDE DEF area, n
  <2>2. (area + ((n - area) % Word)) % Word = n
    BY <1>2, <2>1, WrapsBack
  <2> QED  BY <2>2, Zenon DEF n, area
<1>4. NSamples(body) = Len(blk.samples)
  BY <1>3, Zenon DEF NSamples
<1>5. IsSequence(first) /\ Len(first) = 1 /\ first[1] = Struct("channel_block", v, body)
  BY IsSingle, Zenon
<1>6. IsSequence(rest) /\ Len(rest) = Len(blk.samples)
  BY <1>1, IsListed
<1>7. \A i \in 1 .. Len(blk.samples) : rest[i] = Struct("sample", v, blk.samples[i])
  BY <1>1
<1> HIDE DEF first, rest
<1>8. /\ IsSequence(first \o rest)
      /\ Len(first \o rest) = 1 + Len(blk.samples)
      /\ (first \o rest)[1] = Struct("channel_block", v, body)
      /\ \A i \in 1 .. Len(blk.samples) : (first \o rest)[1 + i] = Struct("sample", v, blk.samples[i])
  <2>0. IsSequence(first) /\ IsSequence(rest)
    BY <1>5, <1>6
  <2>1. /\ IsSequence(first \o rest)
        /\ Len(first \o rest) = Len(first) + Len(rest)
        /\ \A i \in 1 .. Len(first) : (first \o rest)[i] = first[i]
        /\ \A i \in 1 .. Len(rest) : (first \o rest)[Len(first) + i] = rest[i]
    BY <2>0, IsJoined
  <2> DEFINE both == first \o rest
             n == Len(blk.samples)
             structs(i) == Struct("sample", v, blk.samples[i])
  <2>2. n \in Nat /\ \A i \in 1 .. n : rest[i] = structs(i)
    BY <1>1, <1>7
  <2>3. /\ IsSequence(both) /\ Len(both) = 1 + n /\ both[1] = first[1]
        /\ \A i \in 1 .. n : both[1 + i] = rest[i]
    <3>1. Len(first) = 1 /\ Len(rest) = n
      BY <1>5, <1>6
    <3> HIDE DEF both, n
    <3> QED  BY <2>1, <2>2, <3>1 DEF both
  <2> HIDE DEF both, n, structs
  <2>4. \A i \in 1 .. n : both[1 + i] = structs(i)
    BY <2>2, <2>3
  <2> QED  BY <1>5, <2>3, <2>4, Zenon DEF both, n, structs
<1>9. ChannelOnDisk(blk, v) = first \o rest
  BY DEF ChannelOnDisk, first, rest
<1> HIDE DEF body
<1>10. /\ Struct("channel_block", v, body).kind = "channel_block"
       /\ Struct("channel_block", v, body).bytes = StructBytes("channel_block", v)
       /\ Struct("channel_block", v, body).body = body
       /\ \A i : /\ Struct("sample", v, blk.samples[i]).kind = "sample"
                 /\ Struct("sample", v, blk.samples[i]).bytes = StructBytes("sample", v)
                 /\ Struct("sample", v, blk.samples[i]).body = blk.samples[i]
  BY DEF Struct
<1>11. body.w = blk.w /\ body.h = blk.h
  BY DEF body
<1> DEFINE s == first \o rest
           n == Len(blk.samples)
           one == Struct("channel_block", v, body)
           each(i) == Struct("sample", v, blk.samples[i])
<1>12. s[1] = one /\ \A i \in 1 .. n : s[1 + i] = each(i)
  BY <1>8
<1>13. /\ one.kind = "channel_block" /\ one.bytes = StructBytes("channel_block", v)
       /\ one.body = body
       /\ \A i : each(i).kind = "sample" /\ each(i).bytes = StructBytes("sample", v) /\ each(i).body = blk.samples[i]
  BY <1>10
<1>14. n \in Nat /\ NSamples(body) = n /\ ChannelOnDisk(blk, v) = s /\ IsSequence(s) /\ Len(s) = 1 + n
  BY <1>1, <1>4, <1>8, <1>9
<1> HIDE DEF s, one, each
<1>15. BlockOnDisk(s, 0, blk, v)
  <2>1. s[0 + 1] = one /\ \A i \in 1 .. n : s[0 + 1 + i] = each(i)
    BY <1>12, <1>14
  <2> QED  BY <1>11, <1>13, <1>14, <2>1, Zenon DEF BlockOnDisk
<1> QED  BY <1>14, <1>15

Follows(n, m, s) == n = m + Len(s)

Consecutive(a, p, y, u, v, x, l, d, np, ny, nu, nv, nx, nl) ==
  /\ IsSequence(a) /\ IsSequence(p) /\ IsSequence(y) /\ IsSequence(u) /\ IsSequence(v) /\ IsSequence(x)
  /\ IsSequence(l)
  /\ d = a \o p \o y \o u \o v \o x \o l
  /\ np = Len(a) /\ Follows(ny, np, p) /\ Follows(nu, ny, y) /\ Follows(nv, nu, u) /\ Follows(nx, nv, v)
  /\ Follows(nl, nx, x)

Sized(s, n) == IsSequence(s) /\ n = Len(s)
Joined(e, d, t) == e = d \o t
Keeps(d, e) == \A s : \A at \in Nat : Lies(s, at, d) => Lies(s, at, e)

LEMMA OneMore ==
  ASSUME NEW d, NEW n, NEW t, NEW m, NEW e, Sized(d, n), IsSequence(t), Follows(m, n, t), Joined(e, d, t)
  PROVE  Sized(e, m) /\ m \in Nat /\ n \in Nat /\ Lies(t, n, e) /\ Keeps(d, e)
<1>0. IsSequence(d) /\ n = Len(d) /\ e = d \o t
  BY DEF Sized, Joined
<1>1. IsSequence(d \o t) /\ Len(t) \in Nat /\ Len(d) \in Nat /\ Len(d \o t) = Len(d) + Len(t)
  BY <1>0, IsJoined
<1>2. Lies(t, Len(d), d \o t)
  BY <1>0, LiesLast
<1>3. ASSUME NEW s, NEW at \in Nat, Lies(s, at, d)
      PROVE  Lies(s, at, d \o t)
  BY <1>3, StillLies
<1>4. m = Len(d) + Len(t)
  BY <1>0 DEF Follows
<1>5. m = Len(e) /\ m \in Nat /\ n \in Nat
  BY <1>0, <1>1, <1>4
<1> QED  BY <1>0, <1>1, <1>2, <1>3, <1>5 DEF Sized, Keeps

LEMMA SevenJoined ==
  ASSUME NEW a, NEW p, NEW y, NEW u, NEW v, NEW x, NEW l, NEW d, NEW np, NEW ny, NEW nu, NEW nv, NEW nx, NEW nl,
         Consecutive(a, p, y, u, v, x, l, d, np, ny, nu, nv, nx, nl)
  PROVE  /\ IsSequence(d) /\ Follows(Len(d), nl, l)
         /\ Lies(a, 0, d) /\ Lies(p, np, d) /\ Lies(y, ny, d) /\ Lies(u, nu, d) /\ Lies(v, nv, d)
         /\ Lies(x, nx, d) /\ Lies(l, nl, d)
<1>1. /\ IsSequence(a) /\ IsSequence(p) /\ IsSequence(y) /\ IsSequence(u) /\ IsSequence(v) /\ IsSequence(x)
      /\ IsSequence(l)
      /\ np = Len(a) /\ Follows(ny, np, p) /\ Follows(nu, ny, y) /\ Follows(nv, nu, u) /\ Follows(nx, nv, v)
      /\ Follows(nl, nx, x)
  BY DEF Consecutive
<1>2. PICK d2 : Joined(d2, a, p)
  BY DEF Joined
<1>3. PICK d3 : Joined(d3, d2, y)
  BY DEF Joined
<1>4. PICK d4 : Joined(d4, d3, u)
  BY DEF Joined
<1>5. PICK d5 : Joined(d5, d4, v)
  BY DEF Joined
<1>6. PICK d6 : Joined(d6, d5, x)
  BY DEF Joined
<1>7. Joined(d, d6, l)
  BY <1>2, <1>3, <1>4, <1>5, <1>6, Zenon DEF Consecutive, Joined
<1>8. PICK nd : Follows(nd, nl, l)
  BY DEF Follows
<1>9. Lies(a, 0, a) /\ Sized(a, np)
  <2>1. Len(a) \in Nat
    BY <1>1, IsJoined
  <2> QED  BY <1>1, <2>1 DEF Lies, Sized
<1>10. Sized(d2, ny) /\ np \in Nat /\ Lies(p, np, d2) /\ Keeps(a, d2)
  BY <1>1, <1>2, <1>9, OneMore, Zenon
<1>11. Sized(d3, nu) /\ ny \in Nat /\ Lies(y, ny, d3) /\ Keeps(d2, d3)
  BY <1>1, <1>3, <1>10, OneMore, Zenon
<1>12. Sized(d4, nv) /\ nu \in Nat /\ Lies(u, nu, d4) /\ Keeps(d3, d4)
  BY <1>1, <1>4, <1>11, OneMore, Zenon
<1>13. Sized(d5, nx) /\ nv \in Nat /\ Lies(v, nv, d5) /\ Keeps(d4, d5)
  BY <1>1, <1>5, <1>12, OneMore, Zenon
<1>14. Sized(d6, nl) /\ nx \in Nat /\ Lies(x, nx, d6) /\ Keeps(d5, d6)
  BY <1>1, <1>6, <1>13, OneMore, Zenon
<1>15. Sized(d, nd) /\ nl \in Nat /\ Lies(l, nl, d) /\ Keeps(d6, d)
  BY <1>1, <1>7, <1>8, <1>14, OneMore, Zenon
<1>16. Lies(x, nx, d) /\ Lies(v, nv, d) /\ Lies(u, nu, d)
  BY <1>12, <1>13, <1>14, <1>15, Zenon DEF Keeps
<1>17. Lies(y, ny, d) /\ Lies(p, np, d)
  BY <1>10, <1>11, <1>12, <1>13, <1>14, <1>15, Zenon DEF Keeps
<1>18. 0 \in Nat
  OBVIOUS
<1>19. Lies(a, 0, d)
  BY <1>9, <1>10, <1>11, <1>12, <1>13, <1>14, <1>15, <1>18, Zenon DEF Keeps
<1> QED  BY <1>8, <1>15, <1>16, <1>17, <1>19, Zenon DEF Sized

LEMMA PlanesWritten ==
  ASSUME NEW fmt \in Layouts, NEW v \in FileFormats, v = 0 => PlainOrders(fmt),
         NEW s, s = [i \in DOMAIN fmt.planes |-> PlaneOnDisk(fmt.planes[i], v)]
  PROVE  /\ IsSequence(s) /\ Len(s) = Len(fmt.planes)
         /\ \A i \in 1 .. Len(fmt.planes) :
              /\ s[i].kind \in {"plane", "assertion"}
              /\ s[i].kind = "plane" => s[i].bytes = StructBytes("plane", v) /\ s[i].body = fmt.planes[i]
<1>1. Len(fmt.planes) \in Nat /\ DOMAIN fmt.planes = 1 .. Len(fmt.planes)
  BY DEF Layouts
<1>2. IsSequence(s) /\ Len(s) = Len(fmt.planes)
  BY <1>1, IsListed
<1>3. ASSUME NEW i \in 1 .. Len(fmt.planes)
      PROVE  /\ s[i].kind \in {"plane", "assertion"}
             /\ s[i].kind = "plane" => s[i].bytes = StructBytes("plane", v) /\ s[i].body = fmt.planes[i]
  <2> DEFINE pl == fmt.planes[i]
  <2>1. s[i] = PlaneOnDisk(pl, v) /\ pl \in PlaneRecords
    BY <1>1 DEF Layouts
  <2> HIDE DEF pl
  <2>2. CASE v = 1
    BY <2>1, <2>2 DEF PlaneOnDisk, PlaneOnDisk1, Struct, pl
  <2>3. CASE v = 0 /\ HasMegaBlocks(pl)
    <3>1. s[i] = [kind |-> "assertion"]
      BY <2>1, <2>3 DEF PlaneOnDisk, PlaneOnDisk0
    <3> QED  BY <3>1
  <2>4. CASE v = 0 /\ ~ HasMegaBlocks(pl)
    <3>1. pl.block_order = DefaultBlockOrder
      BY <1>1, <2>4 DEF PlainOrders, pl
    <3>2. [pl EXCEPT !.block_order = DefaultBlockOrder] = pl
      BY <2>1, <3>1 DEF PlaneRecords
    <3>3. s[i] = Struct("plane", 0, pl)
      BY <2>1, <2>4, <3>2 DEF PlaneOnDisk, PlaneOnDisk0
    <3> QED  BY <2>4, <3>3 DEF Struct, pl
  <2> QED  BY <2>2, <2>3, <2>4 DEF FileFormats
<1> QED  BY <1>2, <1>3

LEMMA FrameWritten ==
  ASSUME Word \in Nat \ {0}, NEW f, NEW v \in FileFormats, NEW junk,
         f.format \in Layouts, CountsFit(f.format), v = 0 => PlainOrders(f.format)
  PROVE  OnDisk(FrameOnDisk(f, v, junk), f, v, VersionOnDisk(v))
<1>f. PICK fmt : fmt = f.format
  OBVIOUS
<1>p. f.format = fmt /\ fmt \in Layouts /\ CountsFit(fmt) /\ (v = 0 => PlainOrders(fmt))
  BY <1>f
<1> DEFINE head1 == Struct("file_header", v,
                      [version |-> VersionOnDisk(v), size |-> fmt.size, offset_to_data |-> OffsetToData(fmt, v)])
           head2 == Struct("frame_header", v,
                      [image_w |-> fmt.image_w, image_h |-> fmt.image_h, n_planes |-> Len(fmt.planes) % 2^8,
                       origin |-> fmt.origin, macro_px_w |-> fmt.macro_px_w, macro_px_h |-> fmt.macro_px_h,
                       u_point |-> f.v_point, v_point |-> junk, matrix |-> f.matrix])
           a == <<head1, head2>>
           p == [i \in DOMAIN fmt.planes |-> PlaneOnDisk(fmt.planes[i], v)]
           s(c) == ChannelOnDisk(fmt.channel_blocks[c], v)
           last == [kind |-> "payload", bytes |-> fmt.size, whole |-> TRUE, body |-> f.data]
           l == <<last>>
           d == FrameOnDisk(f, v, junk)
<1>1. d = a \o p \o s(ChannelY) \o s(ChannelU) \o s(ChannelV) \o s(ChannelA) \o l
  BY <1>f, Zenon DEF FrameOnDisk
<1>0. Len(fmt.planes) % 2^8 = Len(fmt.planes)
  <2>1. Len(fmt.planes) \in Nat /\ Len(fmt.planes) < 256
    BY <1>p DEF Layouts, CountsFit
  <2> DEFINE n == Len(fmt.planes)
  <2> HIDE DEF n
  <2>2. n \in Nat /\ n < 256 => n % 2^8 = n
    BY Z3
  <2> QED  BY <2>1, <2>2 DEF n
<1>h. /\ head1.kind = "file_header" /\ head1.body.version = VersionOnDisk(v) /\ head1.body.size = fmt.size
      /\ head2.kind = "frame_header" /\ head2.bytes = StructBytes("frame_header", v)
      /\ head2.body.image_w = fmt.image_w /\ head2.body.image_h = fmt.image_h /\ head2.body.origin = fmt.origin
      /\ head2.body.macro_px_w = fmt.macro_px_w /\ head2.body.macro_px_h = fmt.macro_px_h
      /\ head2.body.n_planes = Len(fmt.planes) /\ head2.body.matrix = f.matrix
  BY <1>0 DEF Struct
<1>l. last.kind = "payload" /\ last.bytes = fmt.size /\ last.body = f.data
  OBVIOUS
<1>2. IsSequence(a) /\ Len(a) = 2 /\ a[1] = head1 /\ a[2] = head2
  <2> HIDE DEF head1, head2
  <2>1. a \in Seq({head1, head2})
    OBVIOUS
  <2> QED  BY <2>1 DEF IsSequence
<1>3. /\ IsSequence(p) /\ Len(p) = Len(fmt.planes)
      /\ \A i \in 1 .. Len(fmt.planes) :
           /\ p[i].kind \in {"plane", "assertion"}
           /\ p[i].kind = "plane" => p[i].bytes = StructBytes("plane", v) /\ p[i].body = fmt.planes[i]
  BY <1>p, PlanesWritten
<1>4. ASSUME NEW c \in Channels
      PROVE  /\ IsSequence(s(c)) /\ Len(s(c)) = 1 + Len(fmt.channel_blocks[c].samples)
             /\ BlockOnDisk(s(c), 0, fmt.channel_blocks[c], v)
             /\ fmt.channel_blocks[c] \in BlockRecords
  <2>1. fmt.channel_blocks[c] \in BlockRecords /\ Len(fmt.channel_blocks[c].samples) < Word
    BY <1>p DEF Layouts, CountsFit
  <2> QED  BY <2>1, BlockWritten
<1>5. IsSequence(l) /\ Len(l) = 1 /\ l[1] = last
  BY IsSingle, Zenon
<1>6. /\ Len(fmt.planes) \in Nat /\ BlockAt(fmt, ChannelY) = 2 + Len(fmt.planes)
      /\ \A c \in Channels : Len(fmt.channel_blocks[c].samples) \in Nat /\ BlockAt(fmt, c) \in Nat
      /\ \A c \in Channels : BlockAt(fmt, c + 1) = BlockAt(fmt, c) + 1 + Len(fmt.channel_blocks[c].samples)
  BY <1>p, BlocksFollow DEF Channels, ChannelY, ChannelA
<1>7. ChannelY \in Channels /\ ChannelU \in Channels /\ ChannelV \in Channels /\ ChannelA \in Channels
  BY DEF Channels, ChannelY, ChannelU, ChannelV, ChannelA
<1> HIDE DEF s, d, a, p, l, head1, head2, last
<1>8. /\ BlockAt(fmt, ChannelU) = BlockAt(fmt, ChannelY) + Len(s(ChannelY))
      /\ BlockAt(fmt, ChannelV) = BlockAt(fmt, ChannelU) + Len(s(ChannelU))
      /\ BlockAt(fmt, ChannelA) = BlockAt(fmt, ChannelV) + Len(s(ChannelV))
      /\ PayloadAt(fmt) = BlockAt(fmt, ChannelA) + Len(s(ChannelA))
  <2>1. ASSUME NEW c \in Channels
        PROVE  BlockAt(fmt, c + 1) = BlockAt(fmt, c) + Len(s(c))
    <3> DEFINE n == Len(fmt.channel_blocks[c].samples)
               at == BlockAt(fmt, c)
    <3>1. n \in Nat /\ at \in Nat /\ Len(s(c)) = 1 + n /\ BlockAt(fmt, c + 1) = at + 1 + n
      BY <1>4, <1>6
    <3> HIDE DEF n, at
    <3>2. BlockAt(fmt, c + 1) = at + Len(s(c))
      BY <3>1
    <3> QED  BY <3>2 DEF at
  <2>2. ChannelY + 1 = ChannelU /\ ChannelU + 1 = ChannelV /\ ChannelV + 1 = ChannelA
    BY DEF ChannelY, ChannelU, ChannelV, ChannelA
  <2> QED  BY <1>7, <2>1, <2>2 DEF PayloadAt
<1>9. /\ IsSequence(d) /\ Len(d) = PayloadAt(fmt) + Len(l)
      /\ Lies(a, 0, d) /\ Lies(p, Len(a), d)
      /\ Lies(s(ChannelY), BlockAt(fmt, ChannelY), d) /\ Lies(s(ChannelU), BlockAt(fmt, ChannelU), d)
      /\ Lies(s(ChannelV), BlockAt(fmt, ChannelV), d) /\ Lies(s(ChannelA), BlockAt(fmt, ChannelA), d)
      /\ Lies(l, PayloadAt(fmt), d)
  <2>1. BlockAt(fmt, ChannelY) = Len(a) + Len(p)
    BY <1>2, <1>3, <1>6
  <2>2. /\ IsSequence(a) /\ IsSequence(p) /\ IsSequence(l)
        /\ IsSequence(s(ChannelY)) /\ IsSequence(s(ChannelU)) /\ IsSequence(s(ChannelV)) /\ IsSequence(s(ChannelA))
    BY <1>2, <1>3, <1>4, <1>5, <1>7
  <2> DEFINE y == s(ChannelY)  u == s(ChannelU)  w == s(ChannelV)  x == s(ChannelA)
             ny == BlockAt(fmt, ChannelY)  nu == BlockAt(fmt, ChannelU)  nv == BlockAt(fmt, ChannelV)
             nx == BlockAt(fmt, ChannelA)  nl == PayloadAt(fmt)  np == Len(a)
  <2>3. Consecutive(a, p, y, u, w, x, l, d, np, ny, nu, nv, nx, nl)
    BY <1>1, <1>8, <2>1, <2>2 DEF Consecutive, Follows
  <2> HIDE DEF y, u, w, x, np, ny, nu, nv, nx, nl
  <2>4. /\ IsSequence(d) /\ Follows(Len(d), nl, l)
        /\ Lies(a, 0, d) /\ Lies(p, np, d) /\ Lies(y, ny, d) /\ Lies(u, nu, d) /\ Lies(w, nv, d)
        /\ Lies(x, nx, d) /\ Lies(l, nl, d)
    BY <2>3, SevenJoined
  <2> QED  BY <2>4, Zenon DEF Follows, y, u, w, x, np, ny, nu, nv, nx, nl
<1>10. IsSequence(d) /\ Len(d) = PayloadAt(fmt) + 1
  BY <1>5, <1>9
<1>11. HeadersOnDisk(d, f, v, VersionOnDisk(v))
  <2>1. d[1] = head1 /\ d[2] = head2
    <3>1. \A i \in 1 .. Len(a) : d[0 + i] = a[i]
      BY <1>9 DEF Lies
    <3> QED  BY <1>2, <3>1
  <2> QED  BY <1>f, <1>h, <2>1 DEF HeadersOnDisk
<1>12. PlanesOnDisk(d, f, v)
  <2>1. \A i \in 1 .. Len(p) : d[Len(a) + i] = p[i]
    BY <1>9 DEF Lies
  <2>2. \A i \in 1 .. Len(fmt.planes) : d[2 + i] = p[i]
    BY <1>2, <1>3, <2>1
  <2>3. \A i \in 1 .. Len(fmt.planes) :
          /\ d[2 + i].kind \in {"plane", "assertion"}
          /\ d[2 + i].kind = "plane" => d[2 + i].bytes = StructBytes("plane", v) /\ d[2 + i].body = fmt.planes[i]
    BY <1>3, <2>2
  <2> QED  BY <1>f, <2>3 DEF PlanesOnDisk
<1>13. ASSUME NEW c \in Channels
       PROVE  BlockOnDisk(d, BlockAt(fmt, c), fmt.channel_blocks[c], v)
  <2>1. c \in {ChannelY, ChannelU, ChannelV, ChannelA}
    BY DEF Channels, ChannelY, ChannelU, ChannelV, ChannelA
  <2>2. Lies(s(c), BlockAt(fmt, c), d)
    BY <1>9, <2>1
  <2> QED  BY <1>4, <1>6, <2>2, BlockFound
<1>14. PayloadOnDisk(d, f)
  <2>1. d[PayloadAt(fmt) + 1] = last
    <3>1. \A i \in 1 .. Len(l) : d[PayloadAt(fmt) + i] = l[i]
      BY <1>9 DEF Lies
    <3> QED  BY <1>5, <3>1
  <2> QED  BY <1>f, <1>l, <2>1 DEF PayloadOnDisk
<1> QED  BY <1>f, <1>10, <1>11, <1>12, <1>13, <1>14 DEF OnDisk, d

(* A struct that can be written can be written in part.                    *)
Breakable(e) == e.kind # "assertion" => ~ [e EXCEPT !.whole = FALSE].whole
AllBreakable(s) == IsSequence(s) /\ \A i \in 1 .. Len(s) : Breakable(s[i])

LEMMA BreakableJoined ==
  ASSUME NEW s, NEW t, AllBreakable(s), AllBreakable(t)
  PROVE  AllBreakable(s \o t)
<1>1. /\ IsSequence(s) /\ \A i \in 1 .. Len(s) : Breakable(s[i])
      /\ IsSequence(t) /\ \A i \in 1 .. Len(t) : Breakable(t[i])
  BY DEF AllBreakable
<1>2. /\ IsSequence(s \o t)
      /\ Len(s) \in Nat /\ Len(t) \in Nat
      /\ Len(s \o t) = Len(s) + Len(t)
      /\ \A i \in 1 .. Len(s) : (s \o t)[i] = s[i]
      /\ \A i \in 1 .. Len(t) : (s \o t)[Len(s) + i] = t[i]
  BY <1>1, IsJoined
<1>3. ASSUME NEW i \in 1 .. Len(s \o t)
      PROVE  Breakable((s \o t)[i])
  <2>1. CASE i <= Len(s)
    BY <1>1, <1>2, <2>1
  <2>2. CASE i > Len(s)
    <3>1. PICK j : j = i - Len(s)
      OBVIOUS
    <3>2. j \in 1 .. Len(t) /\ i = Len(s) + j
      BY <1>2, <2>2, <3>1
    <3> QED  BY <1>1, <1>2, <3>2
  <2> QED  BY <1>2, <2>1, <2>2
<1> QED  BY <1>2, <1>3 DEF AllBreakable

LEMMA StructBreakable ==
  ASSUME NEW kind, NEW v, NEW body
  PROVE  Breakable(Struct(kind, v, body))
  BY DEF Breakable, Struct

LEMMA FrameBreakable ==
  ASSUME NEW f, NEW v, NEW junk, f.format \in Layouts
  PROVE  AllBreakable(FrameOnDisk(f, v, junk))
<1>f. PICK fmt : fmt = f.format
  OBVIOUS
<1>1. fmt \in Layouts
  BY <1>f
<1> DEFINE head1 == Struct("file_header", v,
                      [version |-> VersionOnDisk(v), size |-> fmt.size, offset_to_data |-> OffsetToData(fmt, v)])
           head2 == Struct("frame_header", v,
                      [image_w |-> fmt.image_w, image_h |-> fmt.image_h, n_planes |-> Len(fmt.planes) % 2^8,
                       origin |-> fmt.origin, macro_px_w |-> fmt.macro_px_w, macro_px_h |-> fmt.macro_px_h,
                       u_point |-> f.v_point, v_point |-> junk, matrix |-> f.matrix])
           a == <<head1, head2>>
           p == [i \in DOMAIN fmt.planes |-> PlaneOnDisk(fmt.planes[i], v)]
           s(c) == ChannelOnDisk(fmt.channel_blocks[c], v)
           last == [kind |-> "payload", bytes |-> fmt.size, whole |-> TRUE, body |-> f.data]
           l == <<last>>
<1>2. AllBreakable(a)
  <2>1. Breakable(head1) /\ Breakable(head2)
    BY StructBreakable, Zenon
  <2> HIDE DEF head1, head2
  <2>2. a \in Seq({head1, head2}) /\ Len(a) = 2 /\ a[1] = head1 /\ a[2] = head2
    OBVIOUS
  <2>3. IsSequence(a)
    BY <2>2 DEF IsSequence
  <2>4. \A i \in 1 .. 2 : i = 1 \/ i = 2
    OBVIOUS
  <2>5. \A i \in 1 .. 2 : Breakable(a[i])
    BY <2>1, <2>2, <2>4, Zenon
  <2> QED  BY <2>2, <2>3, <2>5 DEF AllBreakable
<1>3. AllBreakable(p)
  <2>1. Len(fmt.planes) \in Nat /\ DOMAIN fmt.planes = 1 .. Len(fmt.planes)
    BY <1>1 DEF Layouts
  <2>2. IsSequence(p) /\ Len(p) = Len(fmt.planes)
    BY <2>1, IsListed
  <2>3. ASSUME NEW pl
        PROVE  Breakable(PlaneOnDisk(pl, v))
    <3>1. Breakable([kind |-> "assertion"])
      BY DEF Breakable
    <3> QED  BY <3>1, StructBreakable, Zenon DEF PlaneOnDisk, PlaneOnDisk0, PlaneOnDisk1
  <2>4. \A i \in 1 .. Len(fmt.planes) : Breakable(p[i])
    BY <2>1, <2>3
  <2> QED  BY <2>2, <2>4 DEF AllBreakable
<1>4. ASSUME NEW c \in Channels
      PROVE  AllBreakable(s(c))
  <2>1. PICK blk : blk = fmt.channel_blocks[c]
    OBVIOUS
  <2>2. blk \in BlockRecords
    BY <1>1, <2>1 DEF Layouts
  <2>3. Len(blk.samples) \in Nat /\ DOMAIN blk.samples = 1 .. Len(blk.samples)
    BY <2>2 DEF BlockRecords
  <2> DEFINE body == [w |-> blk.w, h |-> blk.h, n_continuation |-> (Len(blk.samples) - blk.w * blk.h) % Word]
             head == Struct("channel_block", v, body)
             first == <<head>>
             rest == [i \in DOMAIN blk.samples |-> Struct("sample", v, blk.samples[i])]
  <2>4. AllBreakable(first)
    <3>1. IsSequence(first) /\ Len(first) = 1 /\ first[1] = head
      BY IsSingle, Zenon
    <3>2. Breakable(head)
      BY StructBreakable, Zenon
    <3> HIDE DEF first, head
    <3> QED  BY <3>1, <3>2 DEF AllBreakable
  <2>5. AllBreakable(rest)
    <3>1. IsSequence(rest) /\ Len(rest) = Len(blk.samples)
      BY <2>3, IsListed
    <3>2. \A i \in 1 .. Len(blk.samples) : rest[i] = Struct("sample", v, blk.samples[i])
      BY <2>3
    <3>3. \A i \in 1 .. Len(blk.samples) : Breakable(rest[i])
      BY <3>2, StructBreakable
    <3> QED  BY <3>1, <3>3 DEF AllBreakable
  <2>6. s(c) = first \o rest
    BY <2>1, Zenon DEF ChannelOnDisk
  <2> HIDE DEF first, rest, s
  <2>7. AllBreakable(first \o rest)
    BY <2>4, <2>5, BreakableJoined
  <2> QED  BY <2>6, <2>7
<1>5. AllBreakable(l)
  <2>1. IsSequence(l) /\ Len(l) = 1 /\ l[1] = last
    BY IsSingle, Zenon
  <2>2. Breakable(last)
    BY DEF Breakable
  <2> HIDE DEF l, last
  <2> QED  BY <2>1, <2>2 DEF AllBreakable
<1>6. FrameOnDisk(f, v, junk) = a \o p \o s(ChannelY) \o s(ChannelU) \o s(ChannelV) \o s(ChannelA) \o l
  BY <1>f, Zenon DEF FrameOnDisk
<1>7. ChannelY \in Channels /\ ChannelU \in Channels /\ ChannelV \in Channels /\ ChannelA \in Channels
  BY DEF Channels, ChannelY, ChannelU, ChannelV, ChannelA
<1>8. AllBreakable(s(ChannelY)) /\ AllBreakable(s(ChannelU)) /\ AllBreakable(s(ChannelV)) /\ AllBreakable(s(ChannelA))
  BY <1>4, <1>7
<1> HIDE DEF a, p, s, l
<1>9. AllBreakable(a \o p)
  BY <1>2, <1>3, BreakableJoined
<1>10. AllBreakable(a \o p \o s(ChannelY))
  BY <1>8, <1>9, BreakableJoined
<1>11. AllBreakable(a \o p \o s(ChannelY) \o s(ChannelU))
  BY <1>8, <1>10, BreakableJoined
<1>12. AllBreakable(a \o p \o s(ChannelY) \o s(ChannelU) \o s(ChannelV))
  BY <1>8, <1>11, BreakableJoined
<1>13. AllBreakable(a \o p \o s(ChannelY) \o s(ChannelU) \o s(ChannelV) \o s(ChannelA))
  BY <1>8, <1>12, BreakableJoined
<1>14. AllBreakable(a \o p \o s(ChannelY) \o s(ChannelU) \o s(ChannelV) \o s(ChannelA) \o l)
  BY <1>5, <1>13, BreakableJoined
<1> QED  BY <1>6, <1>14

-----------------------------------------------------------------------------
(* Where the reader is in a frame of layout fmt and matrix x that starts   *)
(* after the first s structs of the stream and says it is version w.       *)

ObjectIs(fmt, x) ==
  object = [format |-> fmt, u_point |-> object.u_point, v_point |-> object.v_point, matrix |-> x,
            data |-> object.data]

AtFileHeader(s) == reader = "file_header" /\ position = s /\ object = FreshFrame

AtFrameHeader(fmt, s, w) ==
  /\ reader = "frame_header" /\ position = s + 1 /\ version = w
  /\ ObjectIs([FreshFrame.format EXCEPT !.size = fmt.size], object.matrix)

AtPlane(fmt, x, s, w) ==
  /\ reader = "plane" /\ version = w /\ block = ChannelY
  /\ left \in 1 .. Len(fmt.planes)
  /\ position = s + 2 + (Len(fmt.planes) - left)
  /\ ObjectIs(PlanesRead(fmt, Len(fmt.planes) - left), x)

AtBlock(fmt, x, s, w) ==
  /\ reader = "channel_block" /\ version = w /\ block \in Channels
  /\ position = s + BlockAt(fmt, block)
  /\ ObjectIs(BlocksRead(fmt, block), x)

AtSample(fmt, x, s, w) ==
  LET n == Len(fmt.channel_blocks[block].samples)
  IN  /\ reader = "sample" /\ version = w /\ block \in Channels
      /\ left \in 1 .. n
      /\ position = s + BlockAt(fmt, block) + 1 + (n - left)
      /\ ObjectIs(SamplesRead(fmt, block, n - left), x)

AtCheck(fmt, x, s, w) ==
  reader = "check" /\ version = w /\ position = s + PayloadAt(fmt) /\ ObjectIs(fmt, x)

AtPayload(fmt, x, s, w) ==
  /\ reader = "payload" /\ version = w /\ position = s + PayloadAt(fmt) /\ ObjectIs(fmt, x)
  /\ ValidateFormat(fmt) = "valid"

LEMMA ReadsFileHeader ==
  ASSUME NEW fmt, NEW s \in Nat, NEW w \in FileFormats, AtFileHeader(s), ReadFileHeader,
         Next1.kind = "file_header", Next1.body.version = w, Next1.body.size = fmt.size
  PROVE  AtFrameHeader(fmt, s, w)'
<1>1. KnownHeader
  BY DEF KnownHeader
<1>2. /\ position' = s + 1 /\ version' = w /\ reader' = "frame_header"
      /\ object' = [FreshFrame EXCEPT !.format.size = fmt.size]
  BY <1>1 DEF ReadFileHeader, AtFileHeader
<1> DEFINE new == [FreshFrame.format EXCEPT !.size = fmt.size]
<1>3. /\ object' = [FreshFrame EXCEPT !.format = new]
  BY <1>2
<1> HIDE DEF new
<1>4. object' = [format |-> new, u_point |-> object'.u_point, v_point |-> object'.v_point,
                 matrix |-> object'.matrix, data |-> object'.data]
  BY <1>3 DEF FreshFrame
<1>5. ObjectIs(new, object.matrix)'
  BY <1>4 DEF ObjectIs
<1> QED  BY <1>2, <1>5 DEF AtFrameHeader, new

LEMMA ReadsFrameHeader ==
  ASSUME NEW fmt \in Layouts, NEW x, NEW s \in Nat, NEW w, AtFrameHeader(fmt, s, w), ReadFrameHeader,
         Next1.body.n_planes = Len(fmt.planes), Next1.body.matrix = x, Next1.body.origin = fmt.origin,
         Next1.body.image_w = fmt.image_w, Next1.body.image_h = fmt.image_h,
         Next1.body.macro_px_w = fmt.macro_px_w, Next1.body.macro_px_h = fmt.macro_px_h
  PROVE  AtPlane(fmt, x, s, w)' \/ AtBlock(fmt, x, s, w)'
<1>1. /\ Len(fmt.planes) \in Nat /\ BlockAt(fmt, ChannelY) = 2 + Len(fmt.planes)
      /\ Start(fmt.planes, 0) = <<>>
  BY BlocksFollow, StartOfAll DEF Layouts
<1> DEFINE old == [FreshFrame.format EXCEPT !.size = fmt.size]
           new == [old EXCEPT !.image_w = fmt.image_w, !.image_h = fmt.image_h, !.origin = fmt.origin,
                              !.macro_px_w = fmt.macro_px_w, !.macro_px_h = fmt.macro_px_h]
<1>2. old = [image_w |-> 0, image_h |-> 0, macro_px_w |-> 0, macro_px_h |-> 0, origin |-> "upper_left",
             size |-> fmt.size, planes |-> <<>>, channel_blocks |-> NoBlocks]
  BY DEF FreshFrame, NoBlocks, NoBlock
<1>3. new = PlanesRead(fmt, 0)
  <2> HIDE DEF old
  <2>11. PICK r1 : r1 = [old EXCEPT !.image_w = fmt.image_w]
    OBVIOUS
  <2>1. r1 = [image_w |-> fmt.image_w, image_h |-> 0, macro_px_w |-> 0, macro_px_h |-> 0,
               origin |-> "upper_left", size |-> fmt.size, planes |-> <<>>, channel_blocks |-> NoBlocks]
    BY <1>2, <2>11
  <2>12. PICK r2 : r2 = [r1 EXCEPT !.image_h = fmt.image_h]
    OBVIOUS
  <2>2. r2 = [image_w |-> fmt.image_w, image_h |-> fmt.image_h, macro_px_w |-> 0, macro_px_h |-> 0,
               origin |-> "upper_left", size |-> fmt.size, planes |-> <<>>, channel_blocks |-> NoBlocks]
    BY <2>1, <2>12
  <2>13. PICK r3 : r3 = [r2 EXCEPT !.origin = fmt.origin]
    OBVIOUS
  <2>3. r3 = [image_w |-> fmt.image_w, image_h |-> fmt.image_h, macro_px_w |-> 0, macro_px_h |-> 0,
               origin |-> fmt.origin, size |-> fmt.size, planes |-> <<>>, channel_blocks |-> NoBlocks]
    BY <2>2, <2>13
  <2>14. PICK r4 : r4 = [r3 EXCEPT !.macro_px_w = fmt.macro_px_w]
    OBVIOUS
  <2>4. r4 = [image_w |-> fmt.image_w, image_h |-> fmt.image_h, macro_px_w |-> fmt.macro_px_w, macro_px_h |-> 0,
               origin |-> fmt.origin, size |-> fmt.size, planes |-> <<>>, channel_blocks |-> NoBlocks]
    BY <2>3, <2>14
  <2>15. PICK r5 : r5 = [r4 EXCEPT !.macro_px_h = fmt.macro_px_h]
    OBVIOUS
  <2>5. r5 = [image_w |-> fmt.image_w, image_h |-> fmt.image_h, macro_px_w |-> fmt.macro_px_w, macro_px_h |-> fmt.macro_px_h,
               origin |-> fmt.origin, size |-> fmt.size, planes |-> <<>>, channel_blocks |-> NoBlocks]
    BY <2>4, <2>15
  <2>6. new = r5
    BY <2>11, <2>12, <2>13, <2>14, <2>15, Zenon
  <2> QED  BY <1>1, <2>5, <2>6 DEF PlanesRead, Outline
<1> HIDE DEF old, new
<1>4. /\ position' = s + 2 /\ version' = w /\ block' = ChannelY /\ left' = Len(fmt.planes)
      /\ reader' = Due(Len(fmt.planes), "plane", "channel_block")
      /\ position \in Int
  BY DEF ReadFrameHeader, Read, AtFrameHeader
<1>5. ObjectIs(PlanesRead(fmt, 0), x)'
  <2>1. object = [format |-> old, u_point |-> object.u_point, v_point |-> object.v_point,
                  matrix |-> object.matrix, data |-> object.data]
    BY DEF AtFrameHeader, ObjectIs, old
  <2>2. object' = [object EXCEPT !.format = new, !.u_point = Next1.body.u_point, !.v_point = Next1.body.v_point,
                                 !.matrix = x]
    <3>1. object.format = old
      BY <2>1
    <3>2. [object.format EXCEPT
             !.image_w = Next1.body.image_w, !.image_h = Next1.body.image_h, !.origin = Next1.body.origin,
             !.macro_px_w = Next1.body.macro_px_w, !.macro_px_h = Next1.body.macro_px_h] = new
      BY <3>1, Zenon DEF new
    <3>3. object' = [object EXCEPT
            !.format = [object.format EXCEPT
              !.image_w = Next1.body.image_w, !.image_h = Next1.body.image_h, !.origin = Next1.body.origin,
              !.macro_px_w = Next1.body.macro_px_w, !.macro_px_h = Next1.body.macro_px_h],
            !.u_point = Next1.body.u_point, !.v_point = Next1.body.v_point, !.matrix = Next1.body.matrix]
      BY Zenon DEF ReadFrameHeader
    <3> QED  BY <3>2, <3>3, Zenon
  <2>3. object' = [format |-> new, u_point |-> Next1.body.u_point, v_point |-> Next1.body.v_point, matrix |-> x,
                   data |-> object.data]
    BY <2>1, <2>2
  <2> QED  BY <1>3, <2>3 DEF ObjectIs
<1>6. CASE Len(fmt.planes) = 0
  BY <1>1, <1>4, <1>5, <1>6, AllPlanesRead DEF Due, AtBlock, Channels, ChannelY, ChannelA
<1>7. CASE Len(fmt.planes) > 0
  BY <1>1, <1>4, <1>5, <1>7 DEF Due, AtPlane
<1> QED  BY <1>1, <1>6, <1>7

LEMMA ObjectUpdated ==
  ASSUME NEW old, NEW new, NEW x, ObjectIs(old, x), object' = [object EXCEPT !.format = new]
  PROVE  ObjectIs(new, x)' /\ object.format = old
  BY DEF ObjectIs

LEMMA ChannelFollows ==
  ASSUME NEW fmt \in Layouts, NEW c \in Channels, NEW n, n = Len(fmt.channel_blocks[c].samples),
         NEW at, at = BlockAt(fmt, c)
  PROVE  n \in Nat /\ at \in Nat /\ BlockAt(fmt, c + 1) = at + 1 + n
<1>1. c \in 1 .. 5
  BY DEF Channels, ChannelY, ChannelA
<1> QED  BY <1>1, BlocksFollow

LEMMA ReadsPlane ==
  ASSUME NEW fmt \in Layouts, NEW x, NEW s \in Nat, NEW w, AtPlane(fmt, x, s, w), ReadPlane,
         Next1.body = fmt.planes[Len(fmt.planes) - left + 1]
  PROVE  AtPlane(fmt, x, s, w)' \/ AtBlock(fmt, x, s, w)'
<1>n. PICK N : N = Len(fmt.planes)
  OBVIOUS
<1>d. PICK n : n = N - left
  OBVIOUS
<1>1. N \in Nat /\ BlockAt(fmt, ChannelY) = 2 + N
  BY <1>n, BlocksFollow
<1>2. left \in 1 .. N /\ n \in Nat /\ n < N /\ position = s + 2 + n
  BY <1>n, <1>d, <1>1 DEF AtPlane
<1>3. /\ position' = position + 1 /\ version' = w /\ block' = ChannelY /\ left' = left - 1
      /\ reader' = Due(left - 1, "plane", "channel_block")
  BY DEF ReadPlane, Read, AtPlane
<1>4. ObjectIs(PlanesRead(fmt, n + 1), x)'
  <2>1. [PlanesRead(fmt, n) EXCEPT !.planes = Append(@, fmt.planes[n + 1])] = PlanesRead(fmt, n + 1)
    BY <1>n, <1>2, PlaneRead
  <2>2. ObjectIs(PlanesRead(fmt, n), x) /\ Next1.body = fmt.planes[n + 1]
    BY <1>n, <1>d DEF AtPlane
  <2>3. object' = [object EXCEPT !.format.planes = Append(@, fmt.planes[n + 1])]
    BY <2>2 DEF ReadPlane
  <2> DEFINE old == PlanesRead(fmt, n)
             new == PlanesRead(fmt, n + 1)
             e == fmt.planes[n + 1]
  <2> HIDE DEF old, new, e
  <2>4. object.format = old
    BY <2>2 DEF ObjectIs, old
  <2>5. [object.format EXCEPT !.planes = Append(@, e)] = new
    BY <2>1, <2>4, Zenon DEF old, new, e
  <2>6. object' = [object EXCEPT !.format = new]
    BY <2>3, <2>5, Zenon DEF e
  <2>7. ObjectIs(old, x)
    BY <2>2 DEF old
  <2>8. ObjectIs(new, x)'
    BY <2>6, <2>7, ObjectUpdated
  <2> QED  BY <2>8 DEF new
<1>5. CASE left = 1
  <2>1. n + 1 = N /\ position' = s + 2 + N /\ reader' = "channel_block"
    BY <1>d, <1>1, <1>2, <1>3, <1>5 DEF Due
  <2>2. ObjectIs(BlocksRead(fmt, ChannelY), x)'
    BY <1>n, <1>4, <2>1, AllPlanesRead
  <2>3. position' = s + BlockAt(fmt, ChannelY) /\ ChannelY \in Channels
    BY <1>1, <2>1 DEF Channels, ChannelY, ChannelA
  <2> QED  BY <1>3, <2>1, <2>2, <2>3 DEF AtBlock
<1>6. CASE left > 1
  <2>1. left' \in 1 .. N /\ N - left' = n + 1 /\ reader' = "plane" /\ position' = s + 2 + (n + 1)
    BY <1>d, <1>1, <1>2, <1>3, <1>6 DEF Due
  <2> QED  BY <1>n, <1>3, <1>4, <2>1 DEF AtPlane
<1> QED  BY <1>1, <1>2, <1>5, <1>6

(* After the last of channel b comes the next channel, or the check.       *)
LEMMA BlockDone ==
  ASSUME NEW fmt \in Layouts, NEW x, NEW s \in Nat, NEW w, NEW b \in Channels,
         reader' = (IF b = ChannelA THEN "check" ELSE "channel_block"),
         block' = b + 1, version' = w, position' = s + BlockAt(fmt, b + 1),
         ObjectIs(SamplesRead(fmt, b, Len(fmt.channel_blocks[b].samples)), x)'
  PROVE  AtBlock(fmt, x, s, w)' \/ AtCheck(fmt, x, s, w)'
<1>1. ObjectIs(BlocksRead(fmt, b + 1), x)'
  BY AllSamplesRead
<1>2. CASE b = ChannelA
  <2>1. ObjectIs(fmt, x)'
    BY <1>1, <1>2, AllBlocksRead
  <2> QED  BY <1>2, <2>1 DEF AtCheck, PayloadAt
<1>3. CASE b # ChannelA
  <2>1. b + 1 \in Channels
    BY <1>3 DEF Channels, ChannelY, ChannelA
  <2> QED  BY <1>1, <1>3, <2>1 DEF AtBlock
<1> QED  BY <1>2, <1>3

LEMMA ReadsBlock ==
  ASSUME NEW fmt \in Layouts, NEW x, NEW s \in Nat, NEW w, AtBlock(fmt, x, s, w), ReadChannelBlock,
         Next1.body.w = fmt.channel_blocks[block].w, Next1.body.h = fmt.channel_blocks[block].h,
         NSamples(Next1.body) = Len(fmt.channel_blocks[block].samples)
  PROVE  AtSample(fmt, x, s, w)' \/ AtBlock(fmt, x, s, w)' \/ AtCheck(fmt, x, s, w)'
<1>1. PICK b \in Channels : b = block
  BY DEF AtBlock
<1> DEFINE blk == fmt.channel_blocks[b]
           n == Len(blk.samples)
<1>2. /\ n \in Nat /\ BlockAt(fmt, b) \in Nat /\ BlockAt(fmt, b + 1) = BlockAt(fmt, b) + 1 + n
  BY ChannelFollows
<1>3. /\ position' = s + BlockAt(fmt, b) + 1 /\ version' = w /\ left' = n
      /\ block' = (IF n = 0 THEN b + 1 ELSE b)
      /\ reader' = Due(n, "sample", AfterBlock)
  BY <1>1, <1>2 DEF ReadChannelBlock, Read, AtBlock
<1>4. ObjectIs(SamplesRead(fmt, b, 0), x)'
  <2> DEFINE old == BlocksRead(fmt, b)
             new == SamplesRead(fmt, b, 0)
  <2>1. [old EXCEPT !.channel_blocks[b] = [@ EXCEPT !.w = blk.w, !.h = blk.h]] = new
    BY BlockOpened
  <2> HIDE DEF old, new
  <2>2. ObjectIs(old, x)
    BY <1>1 DEF AtBlock, old
  <2>3. object.format = old
    BY <2>2 DEF ObjectIs
  <2>4. object' = [object EXCEPT !.format.channel_blocks[b] = [@ EXCEPT !.w = blk.w, !.h = blk.h]]
    BY <1>1, Zenon DEF ReadChannelBlock
  <2>5. [object.format EXCEPT !.channel_blocks[b] = [@ EXCEPT !.w = blk.w, !.h = blk.h]] = new
    BY <2>1, <2>3, Zenon
  <2>6. object' = [object EXCEPT !.format = new]
    BY <2>4, <2>5, Zenon
  <2>7. ObjectIs(new, x)'
    BY <2>2, <2>6, ObjectUpdated
  <2> QED  BY <2>7 DEF new
<1>5. CASE n = 0
  <2>1. reader' = (IF b = ChannelA THEN "check" ELSE "channel_block")
    BY <1>1, <1>3, <1>5 DEF Due, AfterBlock
  <2>2. block' = b + 1 /\ position' = s + BlockAt(fmt, b + 1)
    BY <1>2, <1>3, <1>5
  <2>3. ObjectIs(SamplesRead(fmt, b, n), x)'
    BY <1>4, <1>5
  <2>4. AtBlock(fmt, x, s, w)' \/ AtCheck(fmt, x, s, w)'
    BY <1>3, <2>1, <2>2, <2>3, BlockDone
  <2> QED  BY <2>4
<1>6. CASE n > 0
  <2>1. reader' = "sample" /\ block' = b
    BY <1>2, <1>3, <1>6 DEF Due
  <2> DEFINE at == BlockAt(fmt, b)
  <2>2. at \in Nat /\ n \in Nat /\ left' = n /\ position' = s + at + 1
    BY <1>2, <1>3
  <2> HIDE DEF at, n
  <2>3. left' \in 1 .. n /\ n - left' = 0 /\ position' = s + at + 1 + (n - left')
    BY <1>6, <2>2
  <2> QED  BY <1>3, <1>4, <2>1, <2>3 DEF AtSample, n, at
<1> QED  BY <1>2, <1>5, <1>6

LEMMA ReadsSample ==
  ASSUME NEW fmt \in Layouts, NEW x, NEW s \in Nat, NEW w, AtSample(fmt, x, s, w), ReadSample,
         Next1.body = fmt.channel_blocks[block].samples[Len(fmt.channel_blocks[block].samples) - left + 1]
  PROVE  AtSample(fmt, x, s, w)' \/ AtBlock(fmt, x, s, w)' \/ AtCheck(fmt, x, s, w)'
<1>1. PICK b \in Channels : b = block
  BY DEF AtSample
<1>n. PICK n : n = Len(fmt.channel_blocks[b].samples)
  OBVIOUS
<1>m. PICK m : m = n - left
  OBVIOUS
<1>a. PICK at : at = BlockAt(fmt, b)
  OBVIOUS
<1>2. n \in Nat /\ at \in Nat /\ BlockAt(fmt, b + 1) = at + 1 + n
  BY <1>n, <1>a, ChannelFollows
<1>3. left \in 1 .. n /\ position = s + at + 1 + (n - left)
  BY <1>1, <1>n, <1>a DEF AtSample
<1>4. /\ position' = position + 1 /\ version' = w /\ left' = left - 1
      /\ block' = (IF left = 1 THEN b + 1 ELSE b)
      /\ reader' = Due(left - 1, "sample", AfterBlock)
  BY <1>1 DEF ReadSample, Read, AtSample
<1>5. m \in Nat /\ m < n /\ position' = s + at + 1 + (m + 1)
  BY <1>m, <1>2, <1>3, <1>4
<1>6. ObjectIs(SamplesRead(fmt, b, m + 1), x)'
  <2> DEFINE old == SamplesRead(fmt, b, m)
             new == SamplesRead(fmt, b, m + 1)
             e == fmt.channel_blocks[b].samples[m + 1]
  <2>1. [old EXCEPT !.channel_blocks[b].samples = Append(@, e)] = new
    BY <1>n, <1>5, SampleRead
  <2>2. ObjectIs(old, x) /\ Next1.body = e
    BY <1>1, <1>n, <1>m DEF AtSample
  <2> HIDE DEF old, new, e
  <2>3. object.format = old
    BY <2>2 DEF ObjectIs
  <2>4. object' = [object EXCEPT !.format.channel_blocks[b].samples = Append(@, e)]
    BY <1>1, <2>2, Zenon DEF ReadSample
  <2>5. [object.format EXCEPT !.channel_blocks[b].samples = Append(@, e)] = new
    BY <2>1, <2>3, Zenon
  <2>6. object' = [object EXCEPT !.format = new]
    BY <2>4, <2>5, Zenon
  <2>7. ObjectIs(new, x)'
    BY <2>2, <2>6, ObjectUpdated
  <2> QED  BY <2>7 DEF new
<1>7. CASE left = 1
  <2>1. reader' = (IF b = ChannelA THEN "check" ELSE "channel_block")
    BY <1>1, <1>4, <1>7 DEF Due, AfterBlock
  <2>2. block' = b + 1 /\ position' = s + BlockAt(fmt, b + 1) /\ m + 1 = n
    BY <1>m, <1>2, <1>3, <1>4, <1>7, SMTT(40)
  <2>3. ObjectIs(SamplesRead(fmt, b, Len(fmt.channel_blocks[b].samples)), x)'
    BY <1>n, <1>6, <2>2
  <2>4. AtBlock(fmt, x, s, w)' \/ AtCheck(fmt, x, s, w)'
    BY <1>4, <2>1, <2>2, <2>3, BlockDone
  <2> QED  BY <2>4
<1>8. CASE left > 1
  <2>1. reader' = "sample" /\ block' = b
    BY <1>3, <1>4, <1>8 DEF Due
  <2>2. left' \in 1 .. n /\ n - left' = m + 1 /\ position' = s + at + 1 + (m + 1)
    <3>1. left' = left - 1
      BY <1>4
    <3>2. left' \in 1 .. n /\ n - left' = m + 1
      BY <1>m, <1>2, <1>3, <1>8, <3>1
    <3> QED  BY <1>5, <3>2
  <2> QED  BY <1>n, <1>a, <1>4, <1>6, <2>1, <2>2 DEF AtSample
<1> QED  BY <1>2, <1>3, <1>7, <1>8

LEMMA ChecksHeader ==
  ASSUME NEW fmt, NEW x, NEW s, NEW w, AtCheck(fmt, x, s, w), CheckHeader
  PROVE  AtPayload(fmt, x, s, w)' \/ reader' = "thrown"
<1>1. object.format = fmt
  BY DEF AtCheck, ObjectIs
<1>2. /\ version' = w /\ position' = s + PayloadAt(fmt) /\ ObjectIs(fmt, x)'
      /\ reader' = (IF ValidateFormat(fmt) = "valid" THEN "payload" ELSE "thrown")
  BY <1>1 DEF CheckHeader, AtCheck, ObjectIs
<1> QED  BY <1>2 DEF AtPayload

LEMMA ReadsPayload ==
  ASSUME NEW fmt, NEW x, NEW s, NEW w, NEW data, AtPayload(fmt, x, s, w), ReadPayload, Next1.body = data
  PROVE  /\ AtFileHeader(s + PayloadAt(fmt) + 1)'
         /\ \E frame : /\ received' = Append(received, frame)
                       /\ frame.format = fmt /\ ValidateFormat(fmt) = "valid"
                       /\ Kept(frame) = [format |-> fmt, matrix |-> x, data |-> data]
<1> DEFINE frame == [object EXCEPT !.data = data]
<1>1. /\ reader' = "file_header" /\ position' = s + PayloadAt(fmt) + 1 /\ object' = FreshFrame
      /\ received' = Append(received, frame) /\ ValidateFormat(fmt) = "valid"
  BY DEF ReadPayload, Read, AtPayload
<1>2. frame = [format |-> fmt, u_point |-> object.u_point, v_point |-> object.v_point, matrix |-> x, data |-> data]
  BY DEF AtPayload, ObjectIs
<1>3. frame.format = fmt /\ frame.matrix = x /\ frame.data = data
  BY <1>2
<1> HIDE DEF frame
<1> QED  BY <1>1, <1>3 DEF AtFileHeader, Kept

-----------------------------------------------------------------------------
(* The history h of a stream: for every frame that write_frame began, the  *)
(* call, the version its header shows, its structs, and where they start.  *)

Scripted(call) == \E scr \in Scripts : \E i \in DOMAIN scr : call = scr[i]

NoVersion0 == \A scr \in Scripts : \A i \in DOMAIN scr : scr[i].version # 0

(* The headers show the version that was written.                          *)
Faithful == host = "little" \/ NoVersion0

Entry(e) ==
  /\ Scripted(e.call) /\ e.call.version \in FileFormats
  /\ OnDisk(e.disk, e.call.frame, e.call.version, e.shown)
  /\ AllBreakable(e.disk)
  /\ e.shown \in FileFormats
  /\ Faithful => e.shown = e.call.version
  /\ e.start \in Nat

EndOf(e) == e.start + Len(e.disk)
FrameStart(h, k) == IF k = 1 THEN 0 ELSE EndOf(h[k - 1])

Chained(h) == IsSequence(h) /\ \A k \in 1 .. Len(h) : Entry(h[k]) /\ h[k].start = FrameStart(h, k)

(* What has arrived in one piece is what was written.                      *)
Tells(strm, s, d) ==
  \A j \in 1 .. Len(d) :
    s + j <= Len(strm) /\ strm[s + j].whole => strm[s + j] = d[j] /\ d[j].kind # "assertion"

StreamTells(h) == IsSequence(stream) /\ \A k \in 1 .. Len(h) : Tells(stream, h[k].start, h[k].disk)

Calls ==
  /\ host \in {"little", "big"}
  /\ IsSequence(script) /\ \A i \in 1 .. Len(script) : Scripted(script[i])
  /\ IsSequence(sent)
  /\ writer = "writing" => script # <<>>

BetweenFrames(h) == Len(h) = Len(sent) /\ Len(stream) = FrameStart(h, Len(h) + 1)

AmidFrame(e) ==
  /\ script[1] = e.call
  /\ IsSequence(sending) /\ sending # <<>>
  /\ Len(sending) <= Len(e.disk)
  /\ Len(stream) + Len(sending) = EndOf(e)
  /\ \A i \in 1 .. Len(sending) : sending[i] = e.disk[Len(e.disk) - Len(sending) + i]

BrokenFrame(e) ==
  /\ Len(stream) <= EndOf(e)
  /\ Len(stream) = EndOf(e) => ~ stream[Len(stream)].whole

SentAre(h) == \A k \in 1 .. Len(sent) : sent[k] = h[k].call.frame /\ EndOf(h[k]) <= Len(stream)

WriterAt(h) ==
  /\ SentAre(h)
  /\ \/ writer \in {"idle", "closed"} /\ BetweenFrames(h)
     \/ writer = "writing" /\ Len(h) = Len(sent) + 1 /\ AmidFrame(h[Len(h)])
     \/ writer = "aborted" /\ BetweenFrames(h)
     \/ writer = "aborted" /\ Len(h) = Len(sent) + 1 /\ BrokenFrame(h[Len(h)])

InLayout(fmt, x, s, w) ==
  \/ AtFrameHeader(fmt, s, w)
  \/ AtPlane(fmt, x, s, w) \/ AtBlock(fmt, x, s, w) \/ AtSample(fmt, x, s, w)
  \/ AtCheck(fmt, x, s, w) \/ AtPayload(fmt, x, s, w)

InFrame(e) == InLayout(e.call.frame.format, e.call.frame.matrix, e.start, e.shown)

Returned(frame, e) ==
  /\ Kept(frame) = Kept(e.call.frame)
  /\ frame.format = e.call.frame.format
  /\ ValidateFormat(frame.format) = "valid"

ReaderAt(h) ==
  /\ IsSequence(received) /\ Len(received) <= Len(h)
  /\ \A i \in 1 .. Len(received) : Returned(received[i], h[i])
  /\ \/ reader \in {"aborted", "thrown"}
     \/ reader = "garbled" /\ ~ Faithful
     \/ AtFileHeader(FrameStart(h, Len(received) + 1))
     \/ Len(received) < Len(h) /\ InFrame(h[Len(received) + 1])

InStep(h) == Chained(h) /\ StreamTells(h) /\ WriterAt(h) /\ ReaderAt(h) /\ Len(received) <= Len(sent)

(* A stream that starts with something else is not read.                   *)
Lost ==
  /\ IsSequence(stream) /\ Foreign(stream)
  /\ reader = "aborted" \/ (reader = "file_header" /\ position = 0)
  /\ received = <<>>

StreamInv == Calls /\ (Lost \/ \E h : InStep(h))

-----------------------------------------------------------------------------
(* The writer's steps.                                                     *)

LEMMA StillTells ==
  ASSUME NEW strm, NEW e, NEW s \in Nat, NEW d, IsSequence(strm), IsSequence(d), Tells(strm, s, d),
         \/ s + Len(d) <= Len(strm)
         \/ ~ e.whole
         \/ \E j \in 1 .. Len(d) : s + j = Len(strm) + 1 /\ e = d[j] /\ e.kind # "assertion"
  PROVE  Tells(Append(strm, e), s, d)
<1>1. /\ Len(strm) \in Nat /\ Len(d) \in Nat
      /\ Len(Append(strm, e)) = Len(strm) + 1
      /\ \A i \in 1 .. Len(strm) : Append(strm, e)[i] = strm[i]
      /\ Append(strm, e)[Len(strm) + 1] = e
  BY IsAppended
<1> DEFINE new == Append(strm, e)
<1>2. SUFFICES ASSUME NEW j \in 1 .. Len(d), s + j <= Len(new), new[s + j].whole
               PROVE  new[s + j] = d[j] /\ d[j].kind # "assertion"
  BY DEF Tells
<1> HIDE DEF new
<1>3. Len(new) = Len(strm) + 1 /\ (\A i \in 1 .. Len(strm) : new[i] = strm[i]) /\ new[Len(strm) + 1] = e
  BY <1>1 DEF new
<1>4. CASE s + j <= Len(strm)
  <2>1. s + j \in 1 .. Len(strm)
    BY <1>1, <1>4
  <2>2. new[s + j] = strm[s + j]
    BY <1>3, <2>1
  <2> QED  BY <1>2, <1>4, <2>2 DEF Tells
<1>5. CASE s + j > Len(strm)
  <2>1. s + j = Len(strm) + 1
    BY <1>1, <1>2, <1>3, <1>5
  <2>2. new[s + j] = e
    BY <1>3, <2>1
  <2>3. ~ (s + Len(d) <= Len(strm))
    BY <1>1, <2>1
  <2>4. PICK i \in 1 .. Len(d) : s + i = Len(strm) + 1 /\ e = d[i] /\ e.kind # "assertion"
    BY <1>2, <2>2, <2>3
  <2>5. i = j
    BY <1>1, <2>1, <2>4
  <2> QED  BY <2>2, <2>4, <2>5
<1> QED  BY <1>1, <1>4, <1>5

LEMMA FaithfulStays ==
  ASSUME NEW h, Chained(h), host' = host
  PROVE  Chained(h)' /\ (Faithful' <=> Faithful)
  BY DEF Chained, Entry, Faithful, FrameStart, EndOf

(* The reader does not notice that the writer begins a frame.              *)
LEMMA ReaderStays ==
  ASSUME NEW h, NEW e, Chained(h), ReaderAt(h), UNCHANGED <<host, reader_vars>>
  PROVE  ReaderAt(h)' /\ ReaderAt(Append(h, e))'
<1>1. (Faithful' <=> Faithful) /\ IsSequence(h)
  BY FaithfulStays, SMTT(40) DEF Chained
<1>2. ReaderAt(h)'
  BY <1>1 DEF ReaderAt, reader_vars, AtFileHeader, InFrame, InLayout, AtFrameHeader, AtPlane, AtBlock, AtSample,
            AtCheck, AtPayload, ObjectIs
<1> DEFINE g == Append(h, e)
<1>3. /\ Len(h) \in Nat /\ Len(g) = Len(h) + 1
      /\ \A i \in 1 .. Len(h) : g[i] = h[i]
  BY <1>1, IsAppended
<1> HIDE DEF g
<1>4. Len(received') \in Nat /\ Len(received') <= Len(h)
  BY <1>2, IsAppended DEF ReaderAt
<1>5. FrameStart(g, Len(received') + 1) = FrameStart(h, Len(received') + 1)
  BY <1>3, <1>4 DEF FrameStart
<1>6. ReaderAt(g)'
  BY <1>2, <1>3, <1>4, <1>5 DEF ReaderAt
<1> QED  BY <1>2, <1>6 DEF g

LEMMA VersionShown ==
  ASSUME NEW call, Scripted(call), call.version \in FileFormats, host \in {"little", "big"}
  PROVE  /\ VersionOnDisk(call.version) \in FileFormats
         /\ Faithful => VersionOnDisk(call.version) = call.version
<1>1. CASE call.version = 1
  BY <1>1 DEF VersionOnDisk, FileFormats
<1>2. CASE call.version = 0
  <2>1. ~ NoVersion0
    BY <1>2 DEF NoVersion0, Scripted
  <2>2. (1 * 2^24) % 2^16 = 0 /\ 1 % 2^16 = 1
    BY SMT
  <2>3. CASE host = "little"
    BY <1>2, <2>2, <2>3 DEF VersionOnDisk, VersionOnDisk0, FileFormats, CURRENT_FILE_FORMAT_VERSION
  <2>4. CASE host # "little"
    BY <1>2, <2>1, <2>2, <2>4
    DEF VersionOnDisk, VersionOnDisk0, FileFormats, CURRENT_FILE_FORMAT_VERSION, Faithful
  <2> QED  BY <2>3, <2>4
<1> QED  BY <1>1, <1>2 DEF FileFormats

LEMMA NextStart ==
  ASSUME NEW h, Chained(h)
  PROVE  Len(h) \in Nat /\ FrameStart(h, Len(h) + 1) \in Nat
<1>1. Len(h) \in Nat
  BY IsAppended DEF Chained
<1>2. CASE Len(h) = 0
  BY <1>2 DEF FrameStart
<1>3. CASE Len(h) # 0
  <2>1. PICK e : e = h[Len(h)]
    OBVIOUS
  <2>2. Entry(e)
    BY <1>1, <1>3, <2>1 DEF Chained
  <2>3. IsSequence(e.disk) /\ e.start \in Nat
    BY <2>2 DEF Entry, OnDisk
  <2>4. Len(e.disk) \in Nat
    BY <2>3, IsAppended
  <2>5. FrameStart(h, Len(h) + 1) = EndOf(e)
    BY <1>1, <1>3, <2>1 DEF FrameStart
  <2> QED  BY <1>1, <2>3, <2>4, <2>5 DEF EndOf
<1> QED  BY <1>1, <1>2, <1>3

LEMMA ChainGrows ==
  ASSUME NEW h, NEW e, Chained(h), Entry(e), e.start = FrameStart(h, Len(h) + 1)
  PROVE  Chained(Append(h, e))
<1> DEFINE g == Append(h, e)
<1>1. /\ IsSequence(g) /\ Len(h) \in Nat /\ Len(g) = Len(h) + 1
      /\ \A i \in 1 .. Len(h) : g[i] = h[i]
      /\ g[Len(h) + 1] = e
  BY IsAppended DEF Chained
<1> HIDE DEF g
<1>2. ASSUME NEW k \in 1 .. Len(g)
      PROVE  Entry(g[k]) /\ g[k].start = FrameStart(g, k)
  <2>1. k \in 1 .. Len(h) + 1 /\ (k # 1 => k - 1 \in 1 .. Len(h))
    BY <1>1
  <2>2. FrameStart(g, k) = FrameStart(h, k)
    BY <1>1, <2>1 DEF FrameStart
  <2>3. CASE k \in 1 .. Len(h)
    BY <1>1, <2>2, <2>3 DEF Chained
  <2>4. CASE k = Len(h) + 1
    BY <1>1, <2>2, <2>4
  <2> QED  BY <1>1, <2>1, <2>3, <2>4
<1> QED  BY <1>1, <1>2 DEF Chained, g

LEMMA FrameBegins ==
  ASSUME StreamAssumptions, Calls, NEW h, InStep(h), StartFrame, Head(script).version \in FileFormats
  PROVE  \E g : InStep(g)'
<1>1. /\ script # <<>> /\ IsSequence(script) /\ writer = "idle" /\ host \in {"little", "big"}
      /\ Chained(h) /\ StreamTells(h) /\ SentAre(h) /\ BetweenFrames(h) /\ ReaderAt(h) /\ Len(received) <= Len(sent)
  BY DEF StartFrame, Calls, InStep, WriterAt
<1>2. PICK call : call = Head(script)
  OBVIOUS
<1>3. Scripted(call) /\ call.version \in FileFormats /\ call = script[1]
  BY <1>1, <1>2, IsTaken DEF Calls
<1>4. Word \in Nat \ {0} /\ Writable(call)
  <2>1. PICK scr \in Scripts : \E i \in DOMAIN scr : call = scr[i]
    BY <1>3 DEF Scripted
  <2> QED  BY <2>1, WordAssumption DEF StreamAssumptions
<1>5. PICK junk \in Points : sending' = FrameOnDisk(call.frame, call.version, junk)
  BY <1>2, <1>3 DEF StartFrame
<1>6. /\ writer' = "writing"
      /\ UNCHANGED <<host, script, sent, stream, reader_vars>>
  BY <1>2, <1>3 DEF StartFrame
<1>7. PICK d : d = FrameOnDisk(call.frame, call.version, junk)
  OBVIOUS
<1>8. PICK w : w = VersionOnDisk(call.version)
  OBVIOUS
<1>9. PICK s : s = FrameStart(h, Len(h) + 1)
  OBVIOUS
<1>10. s \in Nat /\ Len(h) \in Nat
  BY <1>1, <1>9, NextStart
<1>11. PICK e : e = [call |-> call, shown |-> w, disk |-> d, start |-> s]
  OBVIOUS
<1>12. e.call = call /\ e.shown = w /\ e.disk = d /\ e.start = s
  BY <1>11
<1>13. OnDisk(d, call.frame, call.version, w) /\ AllBreakable(d)
  BY <1>3, <1>4, <1>7, <1>8, FrameWritten, FrameBreakable DEF Writable
<1>14. IsSequence(d) /\ Len(d) \in Nat \ {0} /\ d # <<>>
  <2>1. IsSequence(d) /\ Len(d) = PayloadAt(call.frame.format) + 1
    BY <1>13 DEF OnDisk
  <2>2. PICK fmt : fmt = call.frame.format
    OBVIOUS
  <2>3. BlockAt(fmt, 5) \in Nat
    BY <1>4, <2>2, BlocksFollow DEF Writable
  <2>4. Len(d) \in Nat \ {0}
    BY <2>1, <2>2, <2>3 DEF PayloadAt, ChannelA
  <2> QED  BY <2>1, <2>4
<1>15. Entry(e)
  BY <1>1, <1>3, <1>8, <1>10, <1>12, <1>13, VersionShown DEF Entry
<1>16. PICK g : g = Append(h, e)
  OBVIOUS
<1>17. /\ Len(g) = Len(h) + 1 /\ g[Len(h) + 1] = e /\ \A i \in 1 .. Len(h) : g[i] = h[i]
  BY <1>1, <1>16, IsAppended DEF Chained
<1>18. Chained(g)'
  BY <1>1, <1>6, <1>9, <1>12, <1>15, <1>16, ChainGrows, FaithfulStays
<1>19. ReaderAt(g)'
  BY <1>1, <1>6, <1>16, ReaderStays
<1>20. StreamTells(g)'
  <2>1. Len(stream) = s /\ IsSequence(stream)
    BY <1>1, <1>9 DEF BetweenFrames, StreamTells
  <2>2. Tells(stream, s, d)
    BY <1>10, <1>14, <2>1 DEF Tells
  <2>3. ASSUME NEW k \in 1 .. Len(g)
        PROVE  Tells(stream, g[k].start, g[k].disk)
    BY <1>1, <1>10, <1>12, <1>17, <2>2 DEF StreamTells
  <2> QED  BY <1>6, <2>1, <2>3 DEF StreamTells
<1>21. WriterAt(g)'
  <2>1. Len(h) = Len(sent) /\ Len(stream) = s
    BY <1>1, <1>9 DEF BetweenFrames
  <2>2. SentAre(g)'
    BY <1>1, <1>6, <1>17, <2>1 DEF SentAre
  <2>3. sending' = d /\ script' = script
    BY <1>5, <1>6, <1>7
  <2>4. AmidFrame(e)'
    <3>1. script'[1] = e.call
      BY <1>3, <1>12, <2>3
    <3>2. Len(stream') + Len(sending') = EndOf(e)
      BY <1>6, <1>12, <2>1, <2>3 DEF EndOf
    <3>3. \A i \in 1 .. Len(d) : d[i] = d[Len(d) - Len(d) + i]
      BY <1>14
    <3> QED  BY <1>12, <1>14, <2>3, <3>1, <3>2, <3>3 DEF AmidFrame
  <2>5. Len(g) = Len(sent') + 1 /\ g[Len(g)] = e
    BY <1>6, <1>17, <2>1
  <2> QED  BY <1>6, <2>2, <2>4, <2>5 DEF WriterAt
<1>22. Len(received') <= Len(sent')
  BY <1>1, <1>6 DEF reader_vars
<1> QED  BY <1>18, <1>19, <1>20, <1>21, <1>22 DEF InStep

(* What the writer has still to write of the last frame of the history.    *)
LEMMA LastFrame ==
  ASSUME Calls, NEW h, InStep(h), writer = "writing", NEW e, e = h[Len(h)]
  PROVE  /\ Len(h) = Len(sent) + 1 /\ Len(sent) \in Nat /\ Len(h) \in 1 .. Len(h) /\ AmidFrame(e) /\ Entry(e)
         /\ IsSequence(stream) /\ Len(stream) \in Nat /\ e.start \in Nat
         /\ IsSequence(e.disk) /\ Len(e.disk) \in Nat
         /\ Len(sending) \in Nat \ {0} /\ Len(sending) <= Len(e.disk)
         /\ e.start + Len(e.disk) = Len(stream) + Len(sending)
         /\ Head(sending) = e.disk[Len(e.disk) - Len(sending) + 1]
         /\ Breakable(Head(sending))
<1>1. Len(h) = Len(sent) + 1 /\ AmidFrame(e) /\ Chained(h) /\ IsSequence(stream)
  BY DEF InStep, WriterAt, StreamTells
<1>2. Len(sent) \in Nat /\ Len(stream) \in Nat
  BY <1>1, IsAppended DEF Calls
<1>3. Len(h) \in 1 .. Len(h)
  BY <1>1, <1>2
<1>4. Entry(e)
  BY <1>1, <1>3 DEF Chained
<1>5. IsSequence(e.disk) /\ e.start \in Nat /\ AllBreakable(e.disk)
  BY <1>4 DEF Entry, OnDisk
<1>6. Len(e.disk) \in Nat
  BY <1>5, IsAppended
<1>7. IsSequence(sending) /\ sending # <<>> /\ Len(sending) <= Len(e.disk) /\ Len(stream) + Len(sending) = EndOf(e)
  BY <1>1 DEF AmidFrame
<1>8. Len(sending) \in Nat \ {0} /\ Head(sending) = sending[1]
  BY <1>7, IsTaken
<1>9. Head(sending) = e.disk[Len(e.disk) - Len(sending) + 1]
  BY <1>1, <1>8 DEF AmidFrame
<1>10. Len(e.disk) - Len(sending) + 1 \in 1 .. Len(e.disk)
  BY <1>6, <1>7, <1>8
<1>11. Breakable(Head(sending))
  BY <1>5, <1>9, <1>10 DEF AllBreakable
<1> QED  BY <1>1, <1>2, <1>3, <1>4, <1>5, <1>6, <1>7, <1>8, <1>9, <1>11 DEF EndOf

(* The stream tells the same of every frame when a struct is added that is *)
(* the last frame's next, or that is not whole.                            *)
LEMMA StreamStillTells ==
  ASSUME Calls, NEW h, InStep(h), writer = "writing", NEW x, stream' = Append(stream, x),
         ~ x.whole \/ (x = Head(sending) /\ x.kind # "assertion")
  PROVE  StreamTells(h)'
<1>1. PICK e : e = h[Len(h)]
  OBVIOUS
<1>2. /\ Len(h) = Len(sent) + 1 /\ Len(sent) \in Nat /\ Len(h) \in 1 .. Len(h)
      /\ IsSequence(stream) /\ Len(stream) \in Nat /\ e.start \in Nat
      /\ IsSequence(e.disk) /\ Len(e.disk) \in Nat
      /\ Len(sending) \in Nat \ {0} /\ Len(sending) <= Len(e.disk)
      /\ e.start + Len(e.disk) = Len(stream) + Len(sending)
      /\ Head(sending) = e.disk[Len(e.disk) - Len(sending) + 1]
  BY <1>1, LastFrame
<1>3. IsSequence(Append(stream, x))
  BY <1>2, IsAppended
<1>4. ASSUME NEW k \in 1 .. Len(h)
      PROVE  Tells(Append(stream, x), h[k].start, h[k].disk)
  <2>1. PICK f : f = h[k]
    OBVIOUS
  <2>2. Entry(f) /\ Tells(stream, f.start, f.disk)
    BY <2>1 DEF InStep, Chained, StreamTells
  <2>3. IsSequence(f.disk) /\ f.start \in Nat
    BY <2>2 DEF Entry, OnDisk
  <2>4. CASE k = Len(h)
    <3>1. PICK j : j = Len(e.disk) - Len(sending) + 1
      OBVIOUS
    <3>2. Head(sending) = e.disk[j]
      BY <1>2, <3>1
    <3>3. j \in 1 .. Len(e.disk) /\ e.start + j = Len(stream) + 1
      <4>1. PICK a, d, l, n : a = e.start /\ d = Len(e.disk) /\ l = Len(stream) /\ n = Len(sending)
        OBVIOUS
      <4>2. a \in Nat /\ d \in Nat /\ l \in Nat /\ n \in Nat \ {0} /\ n <= d /\ a + d = l + n /\ j = d - n + 1
        BY <1>2, <3>1, <4>1
      <4>3. j \in 1 .. d /\ a + j = l + 1
        BY <4>2
      <4> QED  BY <4>1, <4>3
    <3>4. f = e
      BY <1>1, <2>1, <2>4
    <3> QED  BY <1>2, <2>1, <2>2, <2>3, <3>2, <3>3, <3>4, StillTells
  <2>5. CASE k # Len(h)
    <3>1. k \in 1 .. Len(sent)
      BY <1>2, <2>5
    <3>2. EndOf(f) <= Len(stream)
      BY <2>1, <3>1 DEF InStep, WriterAt, SentAre
    <3>3. f.start + Len(f.disk) <= Len(stream)
      BY <3>2 DEF EndOf
    <3> QED  BY <1>2, <2>1, <2>2, <2>3, <3>3, StillTells
  <2> QED  BY <2>4, <2>5
<1> QED  BY <1>3, <1>4 DEF StreamTells

(* What was sent stays where it was when the stream grows.                 *)
LEMMA SentStay ==
  ASSUME NEW h, Chained(h), SentAre(h), Len(sent) \in Nat, Len(sent) <= Len(h), IsSequence(stream),
         NEW x, stream' = Append(stream, x), UNCHANGED sent
  PROVE  SentAre(h)'
<1>1. Len(h) \in Nat /\ Len(stream) \in Nat /\ Len(stream') = Len(stream) + 1
  BY IsAppended DEF Chained
<1>2. ASSUME NEW k \in 1 .. Len(sent)
      PROVE  sent[k] = h[k].call.frame /\ EndOf(h[k]) <= Len(stream) + 1
  <2>1. k \in 1 .. Len(h)
    BY <1>1
  <2>2. PICK f : f = h[k]
    OBVIOUS
  <2>3. Entry(f)
    BY <2>1, <2>2 DEF Chained
  <2>4. f.start \in Nat /\ IsSequence(f.disk)
    BY <2>3 DEF Entry, OnDisk
  <2>5. EndOf(f) \in Nat
    BY <2>4, IsAppended DEF EndOf
  <2>6. sent[k] = f.call.frame /\ EndOf(f) <= Len(stream)
    BY <2>2 DEF SentAre
  <2> QED  BY <1>1, <2>2, <2>5, <2>6
<1> QED  BY <1>1, <1>2 DEF SentAre

LEMMA StructWritten ==
  ASSUME Calls, NEW h, InStep(h), WriteStruct
  PROVE  InStep(h)'
<1>1. PICK e : e = h[Len(h)]
  OBVIOUS
<1>2. PICK x : x = Head(sending)
  OBVIOUS
<1>3. /\ writer = "writing" /\ x.kind # "assertion"
      /\ stream' = Append(stream, x) /\ sending' = Tail(sending)
      /\ UNCHANGED <<host, reader_vars>>
  BY <1>2 DEF WriteStruct
<1>4. /\ Len(h) = Len(sent) + 1 /\ Len(sent) \in Nat /\ AmidFrame(e)
      /\ IsSequence(stream) /\ Len(stream) \in Nat /\ e.start \in Nat
      /\ IsSequence(e.disk) /\ Len(e.disk) \in Nat
      /\ Len(sending) \in Nat \ {0} /\ Len(sending) <= Len(e.disk)
      /\ e.start + Len(e.disk) = Len(stream) + Len(sending)
  BY <1>1, <1>3, LastFrame
<1>5. StreamTells(h)'
  BY <1>2, <1>3, StreamStillTells
<1>6. Chained(h)' /\ ReaderAt(h)'
  BY <1>3, FaithfulStays, ReaderStays DEF InStep
<1>7. Len(stream') = Len(stream) + 1
  BY <1>3, <1>4, IsAppended
<1>8. IsSequence(sending) /\ sending # <<>>
  BY <1>4 DEF AmidFrame
<1>9. /\ IsSequence(sending') /\ Len(sending') = Len(sending) - 1
      /\ \A i \in 1 .. Len(sending) - 1 : sending'[i] = sending[i + 1]
  BY <1>3, <1>8, IsTaken
<1>10. SentAre(h) /\ Len(received) <= Len(sent) /\ Len(received) \in Nat
  BY IsAppended DEF InStep, WriterAt, ReaderAt
<1>11. CASE sending' # <<>>
  <2>1. UNCHANGED <<script, writer, sent>>
    BY <1>11 DEF WriteStruct
  <2>2. SentAre(h)'
    <3>1. Len(sent) <= Len(h)
      BY <1>4
    <3> QED  BY <1>3, <1>4, <1>10, <2>1, <3>1, SentStay DEF InStep
  <2>3. AmidFrame(e)'
    <3>1. script'[1] = e.call
      BY <1>4, <2>1 DEF AmidFrame
    <3>2. Len(sending') <= Len(e.disk) /\ Len(stream') + Len(sending') = EndOf(e)
      BY <1>4, <1>7, <1>9 DEF EndOf
    <3>3. ASSUME NEW i \in 1 .. Len(sending')
          PROVE  sending'[i] = e.disk[Len(e.disk) - Len(sending') + i]
      <4>1. PICK j : j = i + 1
        OBVIOUS
      <4>2. j \in 1 .. Len(sending) /\ i \in 1 .. Len(sending) - 1
        BY <1>4, <1>9, <4>1
      <4>3. sending'[i] = sending[j] /\ sending[j] = e.disk[Len(e.disk) - Len(sending) + j]
        BY <1>4, <1>9, <4>1, <4>2 DEF AmidFrame
      <4>4. Len(e.disk) - Len(sending) + j = Len(e.disk) - Len(sending') + i
        <5>1. PICK d, n, m : d = Len(e.disk) /\ n = Len(sending) /\ m = Len(sending')
          OBVIOUS
        <5>2. d \in Nat /\ n \in Nat /\ m = n - 1 /\ j = i + 1 /\ i \in Nat
          BY <1>4, <1>9, <4>1, <5>1
        <5>3. d - n + j = d - m + i
          BY <5>2
        <5> QED  BY <5>1, <5>3
      <4> QED  BY <4>3, <4>4
    <3> QED  BY <1>9, <1>11, <3>1, <3>2, <3>3 DEF AmidFrame
  <2> QED  BY <1>1, <1>3, <1>4, <1>5, <1>6, <1>10, <2>1, <2>2, <2>3 DEF InStep, WriterAt, reader_vars
<1>12. CASE sending' = <<>>
  <2>1. sent' = Append(sent, Head(script).frame) /\ writer' = "idle"
    BY <1>12 DEF WriteStruct
  <2>2. Len(sending) = 1
    <3>1. Len(sending') = 0
      BY <1>12
    <3> QED  BY <1>4, <1>9, <3>1
  <2>3. EndOf(e) = Len(stream')
    BY <1>4, <1>7, <2>2 DEF EndOf
  <2>4. Head(script).frame = e.call.frame
    BY <1>3, <1>4, IsTaken DEF AmidFrame, Calls
  <2>5. /\ Len(sent') = Len(sent) + 1 /\ sent'[Len(sent) + 1] = e.call.frame
        /\ \A k \in 1 .. Len(sent) : sent'[k] = sent[k]
    BY <2>1, <2>4, IsAppended DEF Calls
  <2>6. BetweenFrames(h)'
    BY <1>1, <1>4, <2>3, <2>5 DEF BetweenFrames, FrameStart
  <2>7. SentAre(h)'
    <3>1. ASSUME NEW k \in 1 .. Len(sent')
          PROVE  sent'[k] = h[k].call.frame /\ EndOf(h[k]) <= Len(stream')
      <4>1. PICK f : f = h[k]
        OBVIOUS
      <4>2. Entry(f)
        BY <1>4, <2>5, <4>1 DEF InStep, Chained
      <4>3. f.start \in Nat /\ IsSequence(f.disk)
        BY <4>2 DEF Entry, OnDisk
      <4>4. EndOf(f) \in Nat
        BY <4>3, IsAppended DEF EndOf
      <4>5. CASE k = Len(sent) + 1
        BY <1>1, <1>4, <2>3, <2>5, <4>1, <4>4, <4>5
      <4>6. CASE k # Len(sent) + 1
        <5>1. k \in 1 .. Len(sent)
          BY <1>4, <2>5, <4>6
        <5>2. sent[k] = f.call.frame /\ EndOf(f) <= Len(stream)
          BY <1>10, <4>1, <5>1 DEF SentAre
        <5> QED  BY <1>4, <1>7, <2>5, <4>1, <4>4, <5>1, <5>2
      <4> QED  BY <4>5, <4>6
    <3> QED  BY <3>1 DEF SentAre
  <2>8. Len(received') <= Len(sent')
    BY <1>3, <1>4, <1>10, <2>5 DEF reader_vars
  <2> QED  BY <1>5, <1>6, <2>1, <2>6, <2>7, <2>8 DEF InStep, WriterAt
<1> QED  BY <1>11, <1>12

LEMMA StructBroken ==
  ASSUME Calls, NEW h, InStep(h), WriteFails
  PROVE  InStep(h)'
<1>1. PICK e : e = h[Len(h)]
  OBVIOUS
<1>2. PICK x : x = [Head(sending) EXCEPT !.whole = FALSE]
  OBVIOUS
<1>3. /\ writer = "writing" /\ Head(sending).kind # "assertion"
      /\ stream' = Append(stream, x) /\ writer' = "aborted"
      /\ UNCHANGED <<host, script, sending, sent, reader_vars>>
  BY <1>2 DEF WriteFails
<1>4. /\ Len(h) = Len(sent) + 1 /\ Len(sent) \in Nat
      /\ IsSequence(stream) /\ Len(stream) \in Nat /\ e.start \in Nat
      /\ Len(e.disk) \in Nat /\ Len(sending) \in Nat \ {0}
      /\ e.start + Len(e.disk) = Len(stream) + Len(sending)
      /\ Breakable(Head(sending))
  BY <1>1, <1>3, LastFrame
<1>5. ~ x.whole
  BY <1>2, <1>3, <1>4, Zenon DEF Breakable
<1>6. StreamTells(h)'
  BY <1>3, <1>5, StreamStillTells
<1>7. Chained(h)' /\ ReaderAt(h)'
  BY <1>3, FaithfulStays, ReaderStays DEF InStep
<1>8. SentAre(h)'
  <2>1. Len(sent) <= Len(h)
    BY <1>4
  <2> QED  BY <1>3, <1>4, <2>1, SentStay DEF InStep, WriterAt
<1>9. BrokenFrame(e)'
  <2>1. Len(stream') = Len(stream) + 1 /\ stream'[Len(stream) + 1] = x
    BY <1>3, <1>4, IsAppended
  <2>2. Len(stream') <= EndOf(e)
    BY <1>4, <2>1 DEF EndOf
  <2> QED  BY <1>5, <2>1, <2>2 DEF BrokenFrame
<1>10. Len(received') <= Len(sent')
  BY <1>3 DEF InStep, reader_vars
<1>11. WriterAt(h)'
  BY <1>1, <1>3, <1>4, <1>8, <1>9 DEF WriterAt
<1> QED  BY <1>6, <1>7, <1>10, <1>11 DEF InStep

(* Version 0 stops before a plane with mega blocks.                        *)
LEMMA PlaneRefused ==
  ASSUME Calls, NEW h, InStep(h), AssertNoReordering
  PROVE  InStep(h)'
<1>1. PICK e : e = h[Len(h)]
  OBVIOUS
<1>2. /\ writer = "writing" /\ writer' = "aborted"
      /\ UNCHANGED <<host, script, sending, sent, stream, reader_vars>>
  BY DEF AssertNoReordering
<1>3. /\ Len(h) = Len(sent) + 1
      /\ Len(stream) \in Nat /\ e.start \in Nat
      /\ Len(e.disk) \in Nat /\ Len(sending) \in Nat \ {0}
      /\ e.start + Len(e.disk) = Len(stream) + Len(sending)
  BY <1>1, <1>2, LastFrame
<1>4. Chained(h)' /\ ReaderAt(h)'
  BY <1>2, FaithfulStays, ReaderStays DEF InStep
<1>5. StreamTells(h)' /\ SentAre(h)'
  BY <1>2 DEF InStep, WriterAt, StreamTells, SentAre
<1>6. BrokenFrame(e)'
  <2>1. Len(stream) < EndOf(e)
    BY <1>3 DEF EndOf
  <2>2. EndOf(e) \in Nat
    BY <1>3 DEF EndOf
  <2> QED  BY <1>2, <1>3, <2>1, <2>2 DEF BrokenFrame
<1>7. Len(received') <= Len(sent')
  BY <1>2 DEF InStep, reader_vars
<1>8. WriterAt(h)'
  BY <1>1, <1>2, <1>3, <1>5, <1>6 DEF WriterAt
<1> QED  BY <1>4, <1>5, <1>7, <1>8 DEF InStep

(* The writer ends between two frames.                                     *)
LEMMA WriterEnds ==
  ASSUME NEW h, InStep(h), writer = "idle", writer' \in {"closed", "aborted"},
         UNCHANGED <<host, sent, stream, reader_vars>>
  PROVE  InStep(h)'
<1>1. Chained(h)' /\ ReaderAt(h)'
  BY FaithfulStays, ReaderStays DEF InStep
<1>2. StreamTells(h)' /\ SentAre(h)' /\ BetweenFrames(h)'
  BY DEF InStep, WriterAt, StreamTells, SentAre, BetweenFrames
<1>3. Len(received') <= Len(sent')
  BY DEF InStep, reader_vars
<1> QED  BY <1>1, <1>2, <1>3 DEF InStep, WriterAt

-----------------------------------------------------------------------------
(* What is ahead of the reader, when the structs d of a frame start after  *)
(* the first s of the stream.                                              *)

Told(s, d) == \A o \in Nat : o < Len(d) /\ position = s + o => Next1 = d[o + 1] /\ Next1.kind # "assertion"

LEMMA PlacesInFrame ==
  ASSUME NEW fmt \in Layouts
  PROVE  /\ Len(fmt.planes) \in Nat /\ PayloadAt(fmt) \in Nat /\ 2 + Len(fmt.planes) <= PayloadAt(fmt)
         /\ \A c \in Channels : /\ BlockAt(fmt, c) \in Nat /\ Len(fmt.channel_blocks[c].samples) \in Nat
                                /\ BlockAt(fmt, c) + 1 + Len(fmt.channel_blocks[c].samples) <= PayloadAt(fmt)
<1> USE DEF Channels, ChannelY, ChannelA
<1> DEFINE at(c) == BlockAt(fmt, c)
           n(c) == Len(fmt.channel_blocks[c].samples)
           N == Len(fmt.planes)
<1>1. /\ N \in Nat /\ at(1) = 2 + N
      /\ n(1) \in Nat /\ n(2) \in Nat /\ n(3) \in Nat /\ n(4) \in Nat
      /\ at(1) \in Nat /\ at(2) \in Nat /\ at(3) \in Nat /\ at(4) \in Nat /\ at(5) \in Nat
  <2>1. /\ N \in Nat /\ at(ChannelY) = 2 + N
        /\ \A c \in Channels : n(c) \in Nat
        /\ \A b \in 1 .. 5 : at(b) \in Nat
    BY BlocksFollow
  <2> HIDE DEF at, n, N
  <2> QED  BY <2>1
<1>2. at(2) = at(1) + 1 + n(1) /\ at(3) = at(2) + 1 + n(2) /\ at(4) = at(3) + 1 + n(3) /\ at(5) = at(4) + 1 + n(4)
  <2>1. \A c \in Channels : at(c + 1) = at(c) + 1 + n(c)
    BY BlocksFollow
  <2> HIDE DEF at, n
  <2>2. 1 \in Channels /\ 2 \in Channels /\ 3 \in Channels /\ 4 \in Channels
    OBVIOUS
  <2>3. 1 + 1 = 2 /\ 2 + 1 = 3 /\ 3 + 1 = 4 /\ 4 + 1 = 5
    OBVIOUS
  <2> QED  BY <2>1, <2>2, <2>3
<1>3. PayloadAt(fmt) = at(5)
  BY DEF PayloadAt
<1> HIDE DEF at, n, N
<1>4. PayloadAt(fmt) \in Nat /\ 2 + N <= PayloadAt(fmt)
  BY <1>1, <1>2, <1>3
<1>5. ASSUME NEW c \in Channels
      PROVE  at(c) \in Nat /\ n(c) \in Nat /\ at(c) + 1 + n(c) <= PayloadAt(fmt)
  <2>1. c = 1 \/ c = 2 \/ c = 3 \/ c = 4
    OBVIOUS
  <2>2. at(4) + 1 + n(4) <= PayloadAt(fmt)
    BY <1>1, <1>2, <1>3
  <2>3. at(3) + 1 + n(3) <= PayloadAt(fmt)
    BY <1>1, <1>2, <1>3
  <2>4. at(2) + 1 + n(2) <= PayloadAt(fmt)
    BY <1>1, <1>2, <1>3
  <2>5. at(1) + 1 + n(1) <= PayloadAt(fmt)
    BY <1>1, <1>2, <1>3
  <2> QED  BY <1>1, <2>1, <2>2, <2>3, <2>4, <2>5
<1> QED  BY <1>1, <1>4, <1>5 DEF at, n, N

LEMMA FileHeaderAhead ==
  ASSUME NEW f, f.format \in Layouts, NEW v, NEW w, NEW d, OnDisk(d, f, v, w), NEW s \in Nat, Told(s, d),
         AtFileHeader(s)
  PROVE  Next1.kind = "file_header" /\ Next1.body.version = w /\ Next1.body.size = f.format.size
<1>1. PICK n : n = PayloadAt(f.format)
  OBVIOUS
<1>2. n \in Nat /\ Len(d) = n + 1 /\ position = s + 0
  BY <1>1, PlacesInFrame DEF OnDisk, AtFileHeader
<1>3. Next1 = d[0 + 1]
  BY <1>2 DEF Told
<1> QED  BY <1>3 DEF OnDisk, HeadersOnDisk

LEMMA FrameHeaderAhead ==
  ASSUME NEW f, f.format \in Layouts, NEW v, NEW w, NEW d, OnDisk(d, f, v, w), NEW s \in Nat, Told(s, d),
         AtFrameHeader(f.format, s, w)
  PROVE  /\ Next1 = d[2]
         /\ Next1.kind = "frame_header" /\ Next1.bytes = StructBytes("frame_header", v)
<1>1. PICK n, m : n = PayloadAt(f.format) /\ m = Len(f.format.planes)
  OBVIOUS
<1>2. n \in Nat /\ m \in Nat /\ 2 + m <= n /\ Len(d) = n + 1 /\ position = s + 1
  BY <1>1, PlacesInFrame DEF OnDisk, AtFrameHeader
<1>3. 1 < Len(d)
  BY <1>2
<1>4. Next1 = d[1 + 1]
  BY <1>2, <1>3 DEF Told
<1> QED  BY <1>4 DEF OnDisk, HeadersOnDisk

LEMMA PlaneAhead ==
  ASSUME NEW f, f.format \in Layouts, NEW v, NEW w, NEW d, OnDisk(d, f, v, w), NEW s \in Nat, Told(s, d),
         NEW x, AtPlane(f.format, x, s, w)
  PROVE  /\ Next1.kind = "plane" /\ Next1.bytes = StructBytes("plane", v)
         /\ Next1.body = f.format.planes[Len(f.format.planes) - left + 1]
<1>1. PICK n, m, k, o : n = PayloadAt(f.format) /\ m = Len(f.format.planes) /\ k = m - left + 1 /\ o = 2 + (m - left)
  OBVIOUS
<1>2. n \in Nat /\ m \in Nat /\ 2 + m <= n /\ left \in 1 .. m
  BY <1>1, PlacesInFrame DEF AtPlane
<1>3. Len(d) = n + 1 /\ position = s + 2 + (m - left)
  <2>1. Len(d) = n + 1
    BY <1>1 DEF OnDisk
  <2>2. position = s + 2 + (Len(f.format.planes) - left)
    BY DEF AtPlane
  <2> QED  BY <1>1, <2>1, <2>2
<1>4. k \in 1 .. m /\ o \in Nat /\ o < Len(d) /\ position = s + o /\ o + 1 = 2 + k
  <2>1. k = m - left + 1 /\ o = 2 + (m - left)
    BY <1>1
  <2>2. k \in 1 .. m /\ o \in Nat /\ o < n + 1 /\ s + 2 + (m - left) = s + o /\ o + 1 = 2 + k
    BY <1>2, <2>1
  <2> QED  BY <1>3, <2>2
<1>5. Next1 = d[o + 1] /\ Next1.kind # "assertion"
  BY <1>4 DEF Told
<1>6. Next1 = d[2 + k]
  BY <1>4, <1>5
<1>7. /\ Next1.kind \in {"plane", "assertion"}
      /\ Next1.kind = "plane" => Next1.bytes = StructBytes("plane", v) /\ Next1.body = f.format.planes[k]
  BY <1>1, <1>4, <1>6 DEF OnDisk, PlanesOnDisk
<1> QED  BY <1>1, <1>5, <1>7

LEMMA BlockAhead ==
  ASSUME NEW f, f.format \in Layouts, NEW v, NEW w, NEW d, OnDisk(d, f, v, w), NEW s \in Nat, Told(s, d),
         NEW x, AtBlock(f.format, x, s, w)
  PROVE  /\ Next1.kind = "channel_block" /\ Next1.bytes = StructBytes("channel_block", v)
         /\ Next1.body.w = f.format.channel_blocks[block].w /\ Next1.body.h = f.format.channel_blocks[block].h
         /\ NSamples(Next1.body) = Len(f.format.channel_blocks[block].samples)
<1>1. PICK blk, n, m, o : /\ blk = f.format.channel_blocks[block] /\ n = PayloadAt(f.format)
                          /\ m = Len(f.format.channel_blocks[block].samples) /\ o = BlockAt(f.format, block)
  OBVIOUS
<1>2. block \in Channels /\ position = s + o
  BY <1>1 DEF AtBlock
<1>3. n \in Nat /\ m \in Nat /\ o \in Nat /\ o + 1 + m <= n /\ Len(d) = n + 1
  BY <1>1, <1>2, PlacesInFrame DEF OnDisk
<1>4. o < Len(d)
  BY <1>3
<1>5. Next1 = d[o + 1]
  BY <1>2, <1>3, <1>4 DEF Told
<1>6. BlockOnDisk(d, o, blk, v)
  BY <1>1, <1>2 DEF OnDisk
<1> QED  BY <1>1, <1>5, <1>6 DEF BlockOnDisk

LEMMA SampleAhead ==
  ASSUME NEW f, f.format \in Layouts, NEW v, NEW w, NEW d, OnDisk(d, f, v, w), NEW s \in Nat, Told(s, d),
         NEW x, AtSample(f.format, x, s, w)
  PROVE  /\ Next1.kind = "sample" /\ Next1.bytes = StructBytes("sample", v)
         /\ Next1.body =
              f.format.channel_blocks[block].samples[Len(f.format.channel_blocks[block].samples) - left + 1]
<1>1. PICK blk, n, m, b : /\ blk = f.format.channel_blocks[block] /\ n = PayloadAt(f.format)
                          /\ m = Len(f.format.channel_blocks[block].samples) /\ b = BlockAt(f.format, block)
  OBVIOUS
<1>2. block \in Channels /\ left \in 1 .. m /\ position = s + b + 1 + (m - left)
  BY <1>1 DEF AtSample
<1>3. n \in Nat /\ m \in Nat /\ b \in Nat /\ b + 1 + m <= n /\ Len(d) = n + 1
  BY <1>1, <1>2, PlacesInFrame DEF OnDisk
<1>4. PICK k, o : k = m - left + 1 /\ o = b + 1 + (m - left)
  OBVIOUS
<1>5. k \in 1 .. m /\ o \in Nat /\ o < Len(d) /\ position = s + o /\ o + 1 = b + 1 + k
  BY <1>2, <1>3, <1>4
<1>6. Next1 = d[o + 1]
  BY <1>5 DEF Told
<1>7. Next1 = d[b + 1 + k]
  BY <1>5, <1>6
<1>8. BlockOnDisk(d, b, blk, v)
  BY <1>1, <1>2 DEF OnDisk
<1>9. Len(blk.samples) = m
  BY <1>1
<1>10. Next1.kind = "sample" /\ Next1.bytes = StructBytes("sample", v) /\ Next1.body = blk.samples[k]
  BY <1>5, <1>7, <1>8, <1>9 DEF BlockOnDisk
<1> QED  BY <1>1, <1>4, <1>10

LEMMA PayloadAhead ==
  ASSUME NEW f, f.format \in Layouts, NEW v, NEW w, NEW d, OnDisk(d, f, v, w), NEW s \in Nat, Told(s, d),
         NEW x, AtPayload(f.format, x, s, w)
  PROVE  Next1.kind = "payload" /\ Next1.bytes = f.format.size /\ Next1.body = f.data
<1>1. PICK n : n = PayloadAt(f.format)
  OBVIOUS
<1>2. n \in Nat /\ Len(d) = n + 1 /\ position = s + n
  BY <1>1, PlacesInFrame DEF OnDisk, AtPayload
<1>3. n < Len(d)
  BY <1>2
<1>4. Next1 = d[n + 1]
  BY <1>2, <1>3 DEF Told
<1> QED  BY <1>1, <1>4 DEF OnDisk, PayloadOnDisk

-----------------------------------------------------------------------------
(* The reader's steps.                                                     *)

LEMMA IsTold ==
  ASSUME NEW h, InStep(h), Arrived, Len(received) < Len(h), NEW e, e = h[Len(received) + 1]
  PROVE  Entry(e) /\ e.start \in Nat /\ e.start = FrameStart(h, Len(received) + 1) /\ Told(e.start, e.disk)
<1>1. PICK k : k = Len(received) + 1
  OBVIOUS
<1>2. Len(received) \in Nat /\ Len(h) \in Nat /\ Chained(h) /\ StreamTells(h)
  BY IsAppended DEF InStep, ReaderAt, Chained
<1>3. k \in 1 .. Len(h) /\ e = h[k]
  BY <1>1, <1>2
<1>4. Entry(e) /\ e.start = FrameStart(h, k) /\ Tells(stream, e.start, e.disk) /\ IsSequence(stream)
  BY <1>2, <1>3 DEF Chained, StreamTells
<1>5. PICK s, d, n : s = e.start /\ d = e.disk /\ n = Len(stream)
  OBVIOUS
<1>6. s \in Nat /\ IsSequence(d) /\ n \in Nat
  BY <1>4, <1>5, IsAppended DEF Entry, OnDisk
<1>7. Len(d) \in Nat
  BY <1>6, IsAppended
<1>8. ASSUME NEW o \in Nat, o < Len(d), position = s + o
      PROVE  Next1 = d[o + 1] /\ Next1.kind # "assertion"
  <2>1. PICK j : j = o + 1
    OBVIOUS
  <2>2. j \in 1 .. Len(d) /\ position + 1 = s + j
    BY <1>6, <1>7, <1>8, <2>1
  <2>3. position < n /\ Next1.whole
    BY <1>5 DEF Arrived, Next1
  <2>4. s + j <= n
    BY <1>6, <1>8, <2>1, <2>3
  <2>5. Next1 = stream[s + j]
    BY <2>2 DEF Next1
  <2>6. s + j <= Len(stream) /\ stream[s + j].whole
    BY <1>5, <2>3, <2>4, <2>5
  <2>7. stream[s + j] = d[j] /\ d[j].kind # "assertion"
    BY <1>4, <1>5, <2>2, <2>6 DEF Tells
  <2> QED  BY <2>1, <2>5, <2>7
<1> QED  BY <1>1, <1>4, <1>5, <1>6, <1>8 DEF Told

(* Behind the last frame there is nothing yet.                             *)
LEMMA NothingNext ==
  ASSUME Calls, NEW h, InStep(h), ~ (Len(received) < Len(h)), AtFileHeader(FrameStart(h, Len(received) + 1))
  PROVE  ~ Arrived
<1>1. Len(received) \in Nat /\ Len(h) \in Nat /\ Len(sent) \in Nat /\ Len(stream) \in Nat
  BY IsAppended DEF InStep, ReaderAt, Chained, Calls, StreamTells
<1>2. Len(received) <= Len(h) /\ Len(received) <= Len(sent)
  BY DEF InStep, ReaderAt
<1>3. Len(received) = Len(h) /\ Len(h) # Len(sent) + 1
  BY <1>1, <1>2
<1>4. Len(stream) = FrameStart(h, Len(h) + 1)
  BY <1>3 DEF InStep, WriterAt, BetweenFrames
<1>5. position = Len(stream)
  BY <1>3, <1>4 DEF AtFileHeader
<1> QED  BY <1>1, <1>5 DEF Arrived

LEMMA WriterStays ==
  ASSUME NEW h, InStep(h), UNCHANGED <<host, writer_vars>>, ReaderAt(h)', Len(received') <= Len(sent)
  PROVE  InStep(h)'
<1>1. Chained(h)'
  BY FaithfulStays DEF InStep
<1>2. StreamTells(h)' /\ WriterAt(h)'
  BY DEF InStep, writer_vars, StreamTells, WriterAt, SentAre, BetweenFrames, AmidFrame, BrokenFrame
<1> QED  BY <1>1, <1>2 DEF InStep, writer_vars

LEMMA StaysInFrame ==
  ASSUME NEW h, InStep(h), UNCHANGED <<host, writer_vars, received>>, Len(received) < Len(h),
         NEW e, e = h[Len(received) + 1], InFrame(e)'
  PROVE  InStep(h)'
<1>1. ReaderAt(h)'
  BY DEF InStep, ReaderAt, Returned, Kept
<1> QED  BY <1>1, WriterStays DEF InStep

LEMMA ReaderStops ==
  ASSUME NEW h, InStep(h), UNCHANGED <<host, writer_vars, received>>,
         reader' \in {"aborted", "thrown"} \/ (reader' = "garbled" /\ ~ Faithful)
  PROVE  InStep(h)'
<1>1. Faithful' <=> Faithful
  BY FaithfulStays DEF InStep
<1>2. ReaderAt(h)'
  BY <1>1 DEF InStep, ReaderAt, Returned, Kept
<1> QED  BY <1>2, WriterStays DEF InStep

LEMMA ReaderInFrame ==
  ASSUME NEW h, InStep(h), reader \notin {"file_header", "aborted", "thrown", "garbled"}
  PROVE  Len(received) < Len(h) /\ InFrame(h[Len(received) + 1])
  BY DEF InStep, ReaderAt, AtFileHeader

LEMMA ReaderPlaces ==
  ASSUME NEW fmt, NEW x, NEW s, NEW w, InLayout(fmt, x, s, w)
  PROVE  /\ version = w
         /\ reader = "frame_header" => AtFrameHeader(fmt, s, w)
         /\ reader = "plane" => AtPlane(fmt, x, s, w)
         /\ reader = "channel_block" => AtBlock(fmt, x, s, w)
         /\ reader = "sample" => AtSample(fmt, x, s, w)
         /\ reader = "check" => AtCheck(fmt, x, s, w)
         /\ reader = "payload" => AtPayload(fmt, x, s, w)
         /\ reader \in {"frame_header", "plane", "channel_block", "sample", "check", "payload"}
  BY DEF InLayout, AtFrameHeader, AtPlane, AtBlock, AtSample, AtCheck, AtPayload

LEMMA EntryFormat ==
  ASSUME StreamAssumptions, NEW e, Entry(e)
  PROVE  /\ e.call.frame.format \in Layouts
         /\ OnDisk(e.disk, e.call.frame, e.call.version, e.shown)
         /\ e.shown \in FileFormats /\ (Faithful => e.shown = e.call.version)
<1>1. PICK scr \in Scripts : \E i \in DOMAIN scr : e.call = scr[i]
  BY DEF Entry, Scripted
<1>2. Writable(e.call)
  BY <1>1 DEF StreamAssumptions
<1> QED  BY <1>2 DEF Writable, Entry

LEMMA FileHeaderRead ==
  ASSUME StreamAssumptions, Calls, NEW h, InStep(h), ReadFileHeader
  PROVE  InStep(h)'
<1>1. reader = "file_header" /\ Arrived /\ UNCHANGED <<host, writer_vars, received>>
  BY DEF ReadFileHeader
<1>2. AtFileHeader(FrameStart(h, Len(received) + 1))
  BY <1>1 DEF InStep, ReaderAt, InFrame, InLayout, AtFrameHeader, AtPlane, AtBlock, AtSample, AtCheck, AtPayload
<1>3. Len(received) < Len(h)
  BY <1>1, <1>2, NothingNext
<1>4. PICK e : e = h[Len(received) + 1]
  OBVIOUS
<1>5. Entry(e) /\ e.start \in Nat /\ e.start = FrameStart(h, Len(received) + 1) /\ Told(e.start, e.disk)
  BY <1>1, <1>3, <1>4, IsTold
<1>6. PICK f, s, w, v : f = e.call.frame /\ s = e.start /\ w = e.shown /\ v = e.call.version
  OBVIOUS
<1>7. f.format \in Layouts /\ OnDisk(e.disk, f, v, w) /\ w \in FileFormats
  BY <1>5, <1>6, EntryFormat
<1>8. s \in Nat /\ Told(s, e.disk) /\ AtFileHeader(s)
  BY <1>2, <1>5, <1>6
<1>9. Next1.kind = "file_header" /\ Next1.body.version = w /\ Next1.body.size = f.format.size
  BY <1>7, <1>8, FileHeaderAhead
<1>10. AtFrameHeader(f.format, s, w)'
  BY <1>7, <1>8, <1>9, ReadsFileHeader
<1>11. InFrame(e)'
  BY <1>6, <1>10 DEF InFrame, InLayout
<1> QED  BY <1>1, <1>3, <1>4, <1>11, StaysInFrame

(* The steps inside a frame.                                               *)
LEMMA StructRead ==
  ASSUME StreamAssumptions, NEW h, InStep(h),
         ReadFrameHeader \/ ReadPlane \/ ReadChannelBlock \/ ReadSample
  PROVE  InStep(h)'
<1>1. Arrived /\ UNCHANGED <<host, writer_vars, received>>
  BY DEF ReadFrameHeader, ReadPlane, ReadChannelBlock, ReadSample, Read
<1>2. reader \in {"frame_header", "plane", "channel_block", "sample"}
  BY DEF ReadFrameHeader, ReadPlane, ReadChannelBlock, ReadSample, Read
<1>3. PICK e : e = h[Len(received) + 1]
  OBVIOUS
<1>4. Len(received) < Len(h) /\ InFrame(e)
  BY <1>2, <1>3, ReaderInFrame
<1>5. Entry(e) /\ e.start \in Nat /\ Told(e.start, e.disk)
  BY <1>1, <1>3, <1>4, IsTold
<1>6. PICK f, s, w, v, d, fmt, x : /\ f = e.call.frame /\ s = e.start /\ w = e.shown /\ v = e.call.version
                                   /\ d = e.disk /\ fmt = f.format /\ x = f.matrix
  OBVIOUS
<1>7. f.format \in Layouts /\ OnDisk(d, f, v, w) /\ s \in Nat /\ Told(s, d)
  BY <1>5, <1>6, EntryFormat
<1>8. InLayout(fmt, x, s, w) /\ fmt \in Layouts
  BY <1>4, <1>6, <1>7 DEF InFrame
<1>9. CASE ReadFrameHeader
  <2>1. AtFrameHeader(fmt, s, w)
    BY <1>8, <1>9, ReaderPlaces DEF ReadFrameHeader, Read
  <2>2. Next1 = d[2]
    BY <1>6, <1>7, <2>1, FrameHeaderAhead
  <2>3. HeadersOnDisk(d, f, v, w)
    BY <1>7 DEF OnDisk
  <2>4. /\ Next1.body.n_planes = Len(fmt.planes) /\ Next1.body.matrix = x /\ Next1.body.origin = fmt.origin
        /\ Next1.body.image_w = fmt.image_w /\ Next1.body.image_h = fmt.image_h
        /\ Next1.body.macro_px_w = fmt.macro_px_w /\ Next1.body.macro_px_h = fmt.macro_px_h
    BY <1>6, <2>2, <2>3 DEF HeadersOnDisk
  <2>5. AtPlane(fmt, x, s, w)' \/ AtBlock(fmt, x, s, w)'
    BY <1>7, <1>8, <1>9, <2>1, <2>4, ReadsFrameHeader
  <2> QED  BY <1>1, <1>3, <1>4, <1>6, <2>5, StaysInFrame DEF InFrame, InLayout
<1>10. CASE ReadPlane
  <2>1. AtPlane(fmt, x, s, w)
    BY <1>8, <1>10, ReaderPlaces DEF ReadPlane, Read
  <2>2. Next1.body = fmt.planes[Len(fmt.planes) - left + 1]
    BY <1>6, <1>7, <2>1, PlaneAhead
  <2>3. AtPlane(fmt, x, s, w)' \/ AtBlock(fmt, x, s, w)'
    BY <1>7, <1>8, <1>10, <2>1, <2>2, ReadsPlane
  <2> QED  BY <1>1, <1>3, <1>4, <1>6, <2>3, StaysInFrame DEF InFrame, InLayout
<1>11. CASE ReadChannelBlock
  <2>1. AtBlock(fmt, x, s, w)
    BY <1>8, <1>11, ReaderPlaces DEF ReadChannelBlock, Read
  <2>2. /\ Next1.body.w = fmt.channel_blocks[block].w /\ Next1.body.h = fmt.channel_blocks[block].h
        /\ NSamples(Next1.body) = Len(fmt.channel_blocks[block].samples)
    BY <1>6, <1>7, <2>1, BlockAhead
  <2>3. AtSample(fmt, x, s, w)' \/ AtBlock(fmt, x, s, w)' \/ AtCheck(fmt, x, s, w)'
    BY <1>7, <1>8, <1>11, <2>1, <2>2, ReadsBlock
  <2> QED  BY <1>1, <1>3, <1>4, <1>6, <2>3, StaysInFrame DEF InFrame, InLayout
<1>12. CASE ReadSample
  <2>1. AtSample(fmt, x, s, w)
    BY <1>8, <1>12, ReaderPlaces DEF ReadSample, Read
  <2>2. Next1.body =
          fmt.channel_blocks[block].samples[Len(fmt.channel_blocks[block].samples) - left + 1]
    BY <1>6, <1>7, <2>1, SampleAhead
  <2>3. AtSample(fmt, x, s, w)' \/ AtBlock(fmt, x, s, w)' \/ AtCheck(fmt, x, s, w)'
    BY <1>7, <1>8, <1>12, <2>1, <2>2, ReadsSample
  <2> QED  BY <1>1, <1>3, <1>4, <1>6, <2>3, StaysInFrame DEF InFrame, InLayout
<1> QED  BY <1>9, <1>10, <1>11, <1>12

LEMMA HeaderChecked ==
  ASSUME NEW h, InStep(h), CheckHeader
  PROVE  InStep(h)'
<1>1. reader = "check" /\ UNCHANGED <<host, writer_vars, received>>
  BY DEF CheckHeader
<1>2. PICK e : e = h[Len(received) + 1]
  OBVIOUS
<1>3. Len(received) < Len(h) /\ InFrame(e)
  BY <1>1, <1>2, ReaderInFrame
<1>4. PICK s, w, fmt, x : s = e.start /\ w = e.shown /\ fmt = e.call.frame.format /\ x = e.call.frame.matrix
  OBVIOUS
<1>5. AtCheck(fmt, x, s, w)
  BY <1>1, <1>3, <1>4, ReaderPlaces, SMTT(40) DEF InFrame
<1>6. CASE AtPayload(fmt, x, s, w)'
  BY <1>1, <1>2, <1>3, <1>4, <1>6, StaysInFrame DEF InFrame, InLayout
<1>7. CASE reader' = "thrown"
  BY <1>1, <1>7, ReaderStops
<1> QED  BY <1>5, <1>6, <1>7, ChecksHeader

(* The last struct of a frame is there only when write_frame has returned. *)
LEMMA LastStructSent ==
  ASSUME Calls, NEW h, InStep(h), Len(received) < Len(h), NEW e, e = h[Len(received) + 1], Entry(e),
         Arrived, position \in Nat, position + 1 = EndOf(e)
  PROVE  Len(received) + 1 <= Len(sent)
<1>1. /\ Len(received) \in Nat /\ Len(h) \in Nat /\ Len(sent) \in Nat
      /\ IsSequence(stream) /\ Len(stream) \in Nat /\ Len(received) <= Len(sent)
  BY IsAppended DEF InStep, ReaderAt, Chained, Calls, StreamTells
<1>2. EndOf(e) \in Nat
  <2>1. e.start \in Nat /\ IsSequence(e.disk)
    BY DEF Entry, OnDisk
  <2> QED  BY <2>1, IsAppended DEF EndOf
<1>3. EndOf(e) <= Len(stream) /\ stream[EndOf(e)].whole
  <2>1. PICK n, m : n = Len(stream) /\ m = EndOf(e)
    OBVIOUS
  <2>2. position + 1 = m /\ m \in Nat /\ n \in Nat /\ position < n /\ stream[position + 1].whole
    BY <1>1, <1>2, <2>1 DEF Arrived
  <2>3. PICK p : p = position + 1
    OBVIOUS
  <2>4. p = m /\ stream[m].whole
    BY <2>2, <2>3
  <2>5. m <= n
    BY <2>2
  <2> QED  BY <2>1, <2>4, <2>5
<1>4. SUFFICES ASSUME Len(received) + 1 > Len(sent)
               PROVE  FALSE
  BY <1>1
<1>5. Len(received) = Len(sent) /\ Len(h) # Len(sent)
  BY <1>1, <1>4
<1>6. Len(h) = Len(sent) + 1 /\ e = h[Len(h)] /\ (AmidFrame(e) \/ BrokenFrame(e))
  BY <1>5 DEF InStep, WriterAt, BetweenFrames
<1>7. CASE AmidFrame(e)
  <2>1. IsSequence(sending) /\ sending # <<>> /\ Len(stream) + Len(sending) = EndOf(e)
    BY <1>7 DEF AmidFrame
  <2>2. Len(sending) \in Nat \ {0}
    BY <2>1, IsTaken
  <2> QED  BY <1>1, <1>2, <1>3, <2>1, <2>2
<1>8. CASE BrokenFrame(e)
  <2>1. Len(stream) = EndOf(e)
    BY <1>1, <1>2, <1>3, <1>8 DEF BrokenFrame
  <2> QED  BY <1>3, <1>8, <2>1 DEF BrokenFrame
<1> QED  BY <1>6, <1>7, <1>8

LEMMA PayloadRead ==
  ASSUME StreamAssumptions, Calls, NEW h, InStep(h), ReadPayload
  PROVE  InStep(h)'
<1>1. reader = "payload" /\ Arrived /\ UNCHANGED <<host, writer_vars>>
  BY DEF ReadPayload, Read
<1>k. PICK k : k = Len(received) + 1
  OBVIOUS
<1>2. PICK e : e = h[k]
  OBVIOUS
<1>3. Len(received) < Len(h) /\ InFrame(e)
  BY <1>1, <1>k, <1>2, ReaderInFrame
<1>4. Entry(e) /\ e.start \in Nat /\ Told(e.start, e.disk)
  BY <1>1, <1>k, <1>2, <1>3, IsTold
<1>5. PICK f, s, w, v, d, fmt, x : /\ f = e.call.frame /\ s = e.start /\ w = e.shown /\ v = e.call.version
                                   /\ d = e.disk /\ fmt = f.format /\ x = f.matrix
  OBVIOUS
<1>6. f.format \in Layouts /\ fmt \in Layouts /\ OnDisk(d, f, v, w) /\ s \in Nat /\ Told(s, d)
  BY <1>4, <1>5, EntryFormat
<1>7. AtPayload(fmt, x, s, w)
  BY <1>1, <1>3, <1>5, ReaderPlaces DEF InFrame
<1>8. Next1.body = f.data
  BY <1>5, <1>6, <1>7, PayloadAhead
<1>9. PICK n : n = PayloadAt(fmt)
  OBVIOUS
<1>10. n \in Nat /\ EndOf(e) = s + (n + 1) /\ position = s + n
  BY <1>5, <1>6, <1>7, <1>9, PlacesInFrame DEF OnDisk, EndOf, AtPayload
<1>11. s + n + 1 = EndOf(e)
  BY <1>6, <1>10
<1>12. k \in Nat \ {0} /\ Len(received) \in Nat /\ IsSequence(received) /\ k <= Len(h) /\ Len(h) \in Nat
  BY <1>k, <1>3, IsAppended DEF InStep, ReaderAt, Chained
<1>13. k <= Len(sent)
  <2>1. position \in Nat /\ position + 1 = EndOf(e)
    BY <1>6, <1>10
  <2> QED  BY <1>1, <1>k, <1>2, <1>3, <1>4, <2>1, LastStructSent
<1>14. PICK frame : /\ received' = Append(received, frame)
                    /\ frame.format = fmt /\ ValidateFormat(fmt) = "valid"
                    /\ Kept(frame) = [format |-> fmt, matrix |-> x, data |-> f.data]
  BY <1>7, <1>8, ReadsPayload
<1>15. AtFileHeader(s + PayloadAt(fmt) + 1)'
  BY <1>7, <1>8, ReadsPayload
<1>16. /\ IsSequence(received') /\ Len(received') = k
       /\ received'[k] = frame
       /\ \A i \in 1 .. Len(received) : received'[i] = received[i]
  BY <1>k, <1>12, <1>14, IsAppended
<1>17. Returned(frame, e)
  <2>1. Kept(frame) = Kept(f)
    BY <1>5, <1>14 DEF Kept
  <2> QED  BY <1>5, <1>14, <2>1 DEF Returned
<1>18. AtFileHeader(FrameStart(h, k + 1))'
  <2>1. FrameStart(h, k + 1) = EndOf(e)
    <3>1. PICK m : m = k + 1
      OBVIOUS
    <3>2. m # 1 /\ m - 1 = k
      BY <1>12, <3>1
    <3>3. FrameStart(h, m) = EndOf(h[m - 1])
      BY <3>2, Zenon DEF FrameStart
    <3>4. h[m - 1] = e
      BY <1>2, <3>2, Zenon
    <3> QED  BY <3>1, <3>3, <3>4
  <2>2. AtFileHeader(EndOf(e))'
    BY <1>9, <1>11, <1>15
  <2> QED  BY <2>1, <2>2
<1>19. ReaderAt(h)'
  <2>1. ASSUME NEW i \in 1 .. k
        PROVE  Returned(received'[i], h[i])
    <3>1. CASE i = k
      BY <1>2, <1>16, <1>17, <3>1
    <3>2. CASE i # k
      <4>1. i \in 1 .. Len(received)
        BY <1>k, <1>12, <3>2
      <4>2. Returned(received[i], h[i])
        BY <4>1 DEF InStep, ReaderAt
      <4> QED  BY <1>16, <4>1, <4>2
    <3> QED  BY <3>1, <3>2
  <2>2. \A i \in 1 .. Len(received') : Returned(received'[i], h[i])
    BY <1>16, <2>1
  <2> QED  BY <1>12, <1>16, <1>18, <2>2 DEF ReaderAt, Returned, Kept
<1>20. Len(received') <= Len(sent)
  BY <1>13, <1>16
<1> QED  BY <1>1, <1>19, <1>20, WriterStays

(* Only a header with the wrong version makes the reader take one struct   *)
(* for another.                                                            *)
LEMMA NotGarbled ==
  ASSUME StreamAssumptions, NEW h, InStep(h), Garble
  PROVE  ~ Faithful
<1>1. reader \in Reading \ {"file_header"} /\ Arrived /\ ~ AsExpected(reader)
  BY DEF Garble
<1>2. reader \in {"frame_header", "plane", "channel_block", "sample", "payload"}
  BY <1>1 DEF Reading
<1>3. PICK e : e = h[Len(received) + 1]
  OBVIOUS
<1>4. Len(received) < Len(h) /\ InFrame(e)
  BY <1>2, <1>3, ReaderInFrame
<1>5. Entry(e) /\ e.start \in Nat /\ Told(e.start, e.disk)
  BY <1>1, <1>3, <1>4, IsTold
<1>6. PICK f, s, w, v, d, fmt, x : /\ f = e.call.frame /\ s = e.start /\ w = e.shown /\ v = e.call.version
                                   /\ d = e.disk /\ fmt = f.format /\ x = f.matrix
  OBVIOUS
<1>7. /\ f.format \in Layouts /\ OnDisk(d, f, v, w) /\ s \in Nat /\ Told(s, d)
      /\ Faithful => w = v
  BY <1>5, <1>6, EntryFormat
<1>8. InLayout(fmt, x, s, w) /\ fmt = f.format
  BY <1>4, <1>6 DEF InFrame
<1>9. version = w
  BY <1>8, ReaderPlaces
<1>10. SUFFICES ASSUME v = version
                PROVE  AsExpected(reader)
  BY <1>1, <1>7, <1>9
<1>11. CASE reader = "frame_header"
  <2>1. AtFrameHeader(f.format, s, w)
    BY <1>8, <1>11, ReaderPlaces
  <2>2. Next1.kind = "frame_header" /\ Next1.bytes = StructBytes("frame_header", v)
    BY <1>7, <2>1, FrameHeaderAhead
  <2> QED  BY <1>10, <1>11, <2>2 DEF AsExpected, ExpectedBytes
<1>12. CASE reader = "plane"
  <2>1. AtPlane(f.format, x, s, w)
    BY <1>8, <1>12, ReaderPlaces
  <2>2. Next1.kind = "plane" /\ Next1.bytes = StructBytes("plane", v)
    BY <1>7, <2>1, PlaneAhead
  <2> QED  BY <1>10, <1>12, <2>2 DEF AsExpected, ExpectedBytes
<1>13. CASE reader = "channel_block"
  <2>1. AtBlock(f.format, x, s, w)
    BY <1>8, <1>13, ReaderPlaces
  <2>2. Next1.kind = "channel_block" /\ Next1.bytes = StructBytes("channel_block", v)
    BY <1>7, <2>1, BlockAhead
  <2> QED  BY <1>10, <1>13, <2>2 DEF AsExpected, ExpectedBytes
<1>14. CASE reader = "sample"
  <2>1. AtSample(f.format, x, s, w)
    BY <1>8, <1>14, ReaderPlaces
  <2>2. Next1.kind = "sample" /\ Next1.bytes = StructBytes("sample", v)
    BY <1>7, <2>1, SampleAhead
  <2> QED  BY <1>10, <1>14, <2>2 DEF AsExpected, ExpectedBytes
<1>15. CASE reader = "payload"
  <2>1. AtPayload(f.format, x, s, w)
    BY <1>8, <1>15, ReaderPlaces
  <2>2. Next1.kind = "payload" /\ Next1.bytes = f.format.size
    BY <1>7, <2>1, PayloadAhead
  <2>3. object.format = f.format
    BY <2>1 DEF AtPayload, ObjectIs
  <2> QED  BY <1>15, <2>2, <2>3 DEF AsExpected, ExpectedBytes
<1> QED  BY <1>2, <1>11, <1>12, <1>13, <1>14, <1>15

-----------------------------------------------------------------------------
(* The invariant.                                                          *)

LEMMA StreamBegins ==
  ASSUME StreamAssumptions, Init
  PROVE  StreamInv
<1>1. IsSequence(script) /\ \A i \in DOMAIN script : Scripted(script[i])
  BY DEF Init, StreamAssumptions, Scripted
<1>2. IsSequence(<<>>) /\ Len(<<>>) = 0
  <2>1. <<>> \in Seq({})
    OBVIOUS
  <2> QED  BY <2>1 DEF IsSequence
<1>3. Calls
  <2>1. DOMAIN script = 1 .. Len(script)
    BY <1>1, IsAppended
  <2>2. host \in {"little", "big"} /\ sent = <<>> /\ writer # "writing"
    BY DEF Init, StreamAssumptions
  <2> QED  BY <1>1, <1>2, <2>1, <2>2 DEF Calls
<1>4. IsSequence(stream) /\ (stream = <<>> \/ Foreign(stream))
  BY DEF Init, StreamAssumptions
<1>5. CASE Foreign(stream)
  BY <1>3, <1>4, <1>5 DEF StreamInv, Lost, Init
<1>6. CASE stream = <<>>
  <2>1. PICK h : h = <<>>
    OBVIOUS
  <2>2. Len(h) = 0 /\ IsSequence(h)
    BY <1>2, <2>1
  <2>3. sent = <<>> /\ received = <<>> /\ writer = "idle" /\ reader = "file_header" /\ position = 0
        /\ object = FreshFrame
    BY DEF Init
  <2>4. Len(sent) = 0 /\ Len(stream) = 0 /\ Len(received) = 0 /\ IsSequence(received)
    BY <1>2, <1>6, <2>3
  <2>5. FrameStart(h, 0 + 1) = 0
    BY DEF FrameStart
  <2>6. Chained(h) /\ StreamTells(h)
    BY <1>4, <2>2 DEF Chained, StreamTells
  <2>7. WriterAt(h)
    BY <2>2, <2>3, <2>4, <2>5 DEF WriterAt, SentAre, BetweenFrames
  <2>8. ReaderAt(h)
    BY <2>2, <2>3, <2>4, <2>5 DEF ReaderAt, AtFileHeader
  <2>9. InStep(h)
    BY <2>4, <2>6, <2>7, <2>8 DEF InStep
  <2> QED  BY <1>3, <2>9 DEF StreamInv
<1> QED  BY <1>4, <1>5, <1>6

LEMMA CallsStay ==
  ASSUME Calls, [Next]_vars
  PROVE  Calls'
<1>1. CASE StartFrame
  BY <1>1 DEF StartFrame, Calls, Scripted
<1>2. CASE WriteStruct
  <2>1. script # <<>> /\ host' = host
    BY <1>2 DEF WriteStruct, Calls
  <2>2. CASE UNCHANGED <<script, writer, sent>>
    BY <2>1, <2>2 DEF Calls, Scripted
  <2>3. CASE sent' = Append(sent, Head(script).frame) /\ script' = Tail(script) /\ writer' = "idle"
    <3>1. IsSequence(sent')
      BY <2>3, IsAppended DEF Calls
    <3>2. /\ IsSequence(script') /\ Len(script) \in Nat \ {0} /\ Len(script') = Len(script) - 1
          /\ \A i \in 1 .. Len(script) - 1 : script'[i] = script[i + 1]
      BY <2>1, <2>3, IsTaken DEF Calls
    <3>3. ASSUME NEW i \in 1 .. Len(script')
          PROVE  Scripted(script'[i])
      <4>1. i + 1 \in 1 .. Len(script) /\ i \in 1 .. Len(script) - 1
        BY <3>2
      <4> QED  BY <3>2, <4>1 DEF Calls
    <3> QED  BY <2>1, <2>3, <3>1, <3>2, <3>3 DEF Calls, Scripted
  <2> QED  BY <1>2, <2>2, <2>3 DEF WriteStruct
<1>3. CASE UNCHANGED <<host, script, sent>> /\ (writer' = writer \/ writer' # "writing")
  BY <1>3 DEF Calls, Scripted
<1>4. CASE AssertNoReordering \/ WriteFails \/ CloseStream
  BY <1>3, <1>4, SMTT(40) DEF AssertNoReordering, WriteFails, CloseStream
<1>5. CASE ReadStep \/ Stopped \/ UNCHANGED vars
  BY <1>3, <1>5 DEF ReadStep, ReadFileHeader, ReadFrameHeader, ReadPlane, ReadChannelBlock, ReadSample, CheckHeader,
                    ReadPayload, ShortRead, Garble, Stopped, vars, writer_vars
<1> QED  BY <1>1, <1>2, <1>4, <1>5 DEF Next, Write

(* Whatever is written after a foreign preamble, it is not read.           *)
LEMMA LostStays ==
  ASSUME Lost, [Next]_vars
  PROVE  Lost'
<1>1. IsSequence(stream) /\ Foreign(stream)
  BY DEF Lost
<1>2. (stream' = stream \/ \E x : stream' = Append(stream, x)) => IsSequence(stream') /\ Foreign(stream')
  <2>1. ASSUME NEW x, stream' = Append(stream, x)
        PROVE  IsSequence(stream') /\ Foreign(stream')
    <3>1. Len(stream) \in Nat \ {0} /\ stream # <<>>
      BY <1>1, IsTaken DEF Foreign
    <3>2. /\ IsSequence(stream') /\ Len(stream') = Len(stream) + 1
          /\ \A i \in 1 .. Len(stream) : stream'[i] = stream[i]
      BY <1>1, <2>1, IsAppended
    <3>3. stream'[1] = stream[1]
      BY <3>1, <3>2
    <3>4. stream' # <<>>
      BY <3>1, <3>2
    <3> QED  BY <1>1, <3>2, <3>3, <3>4 DEF Foreign
  <2> QED  BY <1>1, <2>1
<1>3. CASE Write
  <2>1. UNCHANGED reader_vars
    BY <1>3 DEF Write, StartFrame, WriteStruct, AssertNoReordering, WriteFails, CloseStream
  <2>2. stream' = stream \/ \E x : stream' = Append(stream, x)
    BY <1>3 DEF Write, StartFrame, WriteStruct, AssertNoReordering, WriteFails, CloseStream
  <2> QED  BY <1>2, <2>1, <2>2 DEF Lost, reader_vars
<1>4. CASE ReadFileHeader
  <2>1. stream' = stream /\ received' = received
    BY <1>4 DEF ReadFileHeader, writer_vars
  <2>2. reader = "file_header" /\ position = 0 /\ Arrived
    BY <1>4 DEF ReadFileHeader, Lost
  <2>3. Next1 = stream[1] /\ stream[1].whole
    BY <2>2 DEF Next1, Arrived
  <2>4. ~ KnownHeader
    BY <1>1, <2>3 DEF KnownHeader, Foreign
  <2>5. reader' = "aborted"
    BY <1>4, <2>4 DEF ReadFileHeader
  <2> QED  BY <1>2, <2>1, <2>5 DEF Lost
<1>5. CASE ShortRead
  BY <1>2, <1>5 DEF ShortRead, Lost, writer_vars
<1>6. ~ (ReadFrameHeader \/ ReadPlane \/ ReadChannelBlock \/ ReadSample \/ CheckHeader \/ ReadPayload \/ Garble)
  BY DEF Lost, ReadFrameHeader, ReadPlane, ReadChannelBlock, ReadSample, CheckHeader, ReadPayload, Garble, Read, Reading
<1>7. CASE Stopped \/ UNCHANGED vars
  BY <1>2, <1>7 DEF Stopped, vars, writer_vars, reader_vars, Lost
<1> QED  BY <1>3, <1>4, <1>5, <1>6, <1>7 DEF Next, ReadStep

LEMMA StepsKeepInStep ==
  ASSUME StreamAssumptions, Calls, NEW h, InStep(h), [Next]_vars
  PROVE  \E g : InStep(g)'
<1>1. CASE StartFrame
  <2>1. CASE Head(script).version \in FileFormats
    BY <1>1, <2>1, FrameBegins
  <2>2. CASE Head(script).version \notin FileFormats
    <3>1. writer = "idle" /\ writer' = "aborted" /\ UNCHANGED <<host, sent, stream, reader_vars>>
      BY <1>1, <2>2 DEF StartFrame
    <3> QED  BY <3>1, WriterEnds
  <2> QED  BY <2>1, <2>2
<1>2. CASE WriteStruct
  BY <1>2, StructWritten
<1>3. CASE AssertNoReordering
  BY <1>3, PlaneRefused
<1>4. CASE WriteFails
  BY <1>4, StructBroken
<1>5. CASE CloseStream
  <2>1. writer = "idle" /\ writer' = "closed" /\ UNCHANGED <<host, sent, stream, reader_vars>>
    BY <1>5 DEF CloseStream
  <2> QED  BY <2>1, WriterEnds
<1>6. CASE ReadFileHeader
  BY <1>6, FileHeaderRead
<1>7. CASE ReadFrameHeader \/ ReadPlane \/ ReadChannelBlock \/ ReadSample
  BY <1>7, StructRead
<1>8. CASE CheckHeader
  BY <1>8, HeaderChecked
<1>9. CASE ReadPayload
  BY <1>9, PayloadRead
<1>10. CASE ShortRead
  <2>1. reader' = "aborted" /\ UNCHANGED <<host, writer_vars, received>>
    BY <1>10 DEF ShortRead
  <2> QED  BY <2>1, ReaderStops
<1>11. CASE Garble
  <2>1. reader' = "garbled" /\ UNCHANGED <<host, writer_vars, received>>
    BY <1>11 DEF Garble
  <2> QED  BY <1>11, <2>1, NotGarbled, ReaderStops
<1>12. CASE Stopped \/ UNCHANGED vars
  <2>1. UNCHANGED <<host, writer_vars, reader_vars>>
    BY <1>12 DEF Stopped, vars
  <2>2. ReaderAt(h)' /\ received' = received
    BY <2>1, ReaderStays DEF InStep, reader_vars
  <2>3. Len(received') <= Len(sent)
    BY <2>2 DEF InStep
  <2> QED  BY <2>1, <2>2, <2>3, WriterStays
<1> QED  BY <1>1, <1>2, <1>3, <1>4, <1>5, <1>6, <1>7, <1>8, <1>9, <1>10, <1>11, <1>12 DEF Next, Write, ReadStep

(* The reader is always where the structs it has read put it in a frame    *)
(* that write_frame laid out, and what it has of that frame is what was    *)
(* written; or it stopped, or the stream did not start with a frame.       *)
THEOREM ReaderFollowsWriter ==
  ASSUME StreamAssumptions
  PROVE  Spec => []StreamInv
<1>1. Init => StreamInv
  BY StreamBegins
<1>2. StreamInv /\ [Next]_vars => StreamInv'
  <2> SUFFICES ASSUME StreamInv, [Next]_vars
               PROVE  StreamInv'
    OBVIOUS
  <2>1. Calls'
    BY CallsStay DEF StreamInv
  <2>2. CASE Lost
    BY <2>1, <2>2, LostStays DEF StreamInv
  <2>3. CASE \E h : InStep(h)
    <3>1. PICK h : InStep(h)
      BY <2>3
    <3>2. \E g : InStep(g)'
      BY <3>1, StepsKeepInStep DEF StreamInv
    <3> QED  BY <2>1, <3>2 DEF StreamInv
  <2> QED  BY <2>2, <2>3 DEF StreamInv
<1> QED  BY <1>1, <1>2, PTL DEF Spec

-----------------------------------------------------------------------------
(* What follows from the invariant.                                        *)

(* When the headers show the version that was written, because the writing *)
(* host is little-endian or no frame is of version 0, the reader never     *)
(* takes one struct for another, whatever is written, wherever writing     *)
(* fails and however writing and reading alternate.                        *)
THEOREM NothingGarbled ==
  ASSUME StreamAssumptions, Hosts \subseteq {"little"} \/ NoVersion0
  PROVE  Spec => []ReaderInStep
<1>1. Init => Faithful
  BY DEF Init, Faithful
<1>2. Faithful /\ [Next]_vars => Faithful'
  <2>1. [Next]_vars => host' = host
    BY DEF Next, Write, ReadStep, StartFrame, WriteStruct, AssertNoReordering, WriteFails, CloseStream,
           ReadFileHeader, ReadFrameHeader, ReadPlane, ReadChannelBlock, ReadSample, CheckHeader, ReadPayload,
           ShortRead, Garble, Stopped, vars
  <2> QED  BY <2>1, SMTT(40) DEF Faithful
<1>3. Spec => []Faithful
  BY <1>1, <1>2, PTL DEF Spec
<1>4. StreamInv /\ Faithful => ReaderInStep
  BY DEF StreamInv, Lost, InStep, ReaderAt, ReaderInStep, AtFileHeader, InFrame, InLayout, AtFrameHeader, AtPlane,
         AtBlock, AtSample, AtCheck, AtPayload
<1>5. Spec => []StreamInv
  BY ReaderFollowsWriter
<1> QED  BY <1>3, <1>4, <1>5, PTL

LEMMA ReceivedAreSent ==
  ASSUME StreamInv
  PROVE  /\ IsSequence(sent) /\ IsSequence(received)
         /\ Len(sent) \in Nat /\ Len(received) \in Nat /\ Len(received) <= Len(sent)
         /\ DOMAIN sent = 1 .. Len(sent) /\ DOMAIN received = 1 .. Len(received)
         /\ \A i \in 1 .. Len(received) : Kept(received[i]) = Kept(sent[i])
<1>1. IsSequence(sent)
  BY DEF StreamInv, Calls
<1>2. CASE Lost
  <2>1. <<>> \in Seq({}) /\ received = <<>>
    BY <1>2 DEF Lost
  <2>2. IsSequence(received) /\ Len(received) = 0
    BY <2>1 DEF IsSequence
  <2> QED  BY <1>1, <2>2, IsAppended
<1>3. CASE \E h : InStep(h)
  <2>1. PICK h : InStep(h)
    BY <1>3
  <2>2. IsSequence(received) /\ Len(received) <= Len(sent)
    BY <2>1 DEF InStep, ReaderAt
  <2>3. Len(sent) \in Nat /\ Len(received) \in Nat
    BY <1>1, <2>2, IsAppended
  <2>4. ASSUME NEW i \in 1 .. Len(received)
        PROVE  Kept(received[i]) = Kept(sent[i])
    <3>1. i \in 1 .. Len(sent)
      BY <2>2, <2>3
    <3>2. sent[i] = h[i].call.frame
      BY <2>1, <3>1 DEF InStep, WriterAt, SentAre
    <3>3. Kept(received[i]) = Kept(h[i].call.frame)
      BY <2>1 DEF InStep, ReaderAt, Returned
    <3> QED  BY <3>2, <3>3
  <2> QED  BY <1>1, <2>2, <2>3, <2>4, IsAppended
<1> QED  BY <1>2, <1>3 DEF StreamInv

(* The frames returned are those whose write_frame returned, in the order  *)
(* they were written, and each with the layout, matrix and pixel data it   *)
(* was written with: whatever goes wrong in the writing, only the end of   *)
(* the sequence is missing.                                                *)
THEOREM OnlySentIsReceived ==
  ASSUME StreamAssumptions
  PROVE  Spec => []ReceivedInOrder
<1>1. StreamInv => ReceivedInOrder
  <2> SUFFICES ASSUME StreamInv
               PROVE  ReceivedInOrder
    OBVIOUS
  <2>1. PICK m, n : m = Len(received) /\ n = Len(sent)
    OBVIOUS
  <2>2. /\ m \in Nat /\ n \in Nat /\ m <= n
        /\ DOMAIN sent = 1 .. n /\ DOMAIN received = 1 .. m
        /\ \A i \in 1 .. m : Kept(received[i]) = Kept(sent[i])
    BY <2>1, ReceivedAreSent
  <2>3. PICK r, s : r = KeptAll(received) /\ s = KeptAll(sent)
    OBVIOUS
  <2>4. r = [i \in 1 .. m |-> Kept(received[i])] /\ s = [i \in 1 .. n |-> Kept(sent[i])]
    BY <2>2, <2>3, Zenon DEF KeptAll
  <2>5. Len(r) = m /\ Len(s) = n
    BY <2>2, <2>4
  <2>6. \A i \in 1 .. m : i \in 1 .. n /\ r[i] = Kept(received[i]) /\ s[i] = Kept(sent[i])
    BY <2>2, <2>4
  <2>7. \A i \in 1 .. m : r[i] = s[i]
    BY <2>2, <2>6
  <2>8. SubSeq(r, 1, m) = SubSeq(s, 1, m)
    <3>1. r \in Seq({r[i] : i \in 1 .. m} \cup {s[i] : i \in 1 .. n})
      BY <2>2, <2>4
    <3>2. s \in Seq({r[i] : i \in 1 .. m} \cup {s[i] : i \in 1 .. n})
      BY <2>2, <2>4
    <3> QED  BY <2>2, <2>5, <2>7, <3>1, <3>2
  <2>9. IsPrefix(r, s)
    BY <2>2, <2>5, <2>8 DEF IsPrefix
  <2> QED  BY <2>3, <2>9 DEF ReceivedInOrder
<1>2. Spec => []StreamInv
  BY ReaderFollowsWriter
<1> QED  BY <1>1, <1>2, PTL

(* The validator can be run on the layouts that are written: it divides by *)
(* no zero and samples name planes.  Nothing else is assumed of them: they *)
(* may overlap, leave their planes, cut macro pixels or wrap.              *)
CheckableCalls ==
  \A scr \in Scripts : \A i \in DOMAIN scr : WellFormed(scr[i].frame.format)

(* Whatever layouts are written, one that read_frame returns and that has  *)
(* whole macro pixels, numbers that do not wrap in the checks, and planes  *)
(* inside the frame, has all its places where decode_frame may read them,  *)
(* and apart where its planes are.                                         *)
THEOREM ReturnedFramesReadable ==
  ASSUME StreamAssumptions, CheckableCalls
  PROVE  Spec => []ReturnedAreReadable
<1>1. StreamInv => ReturnedAreReadable
  <2> SUFFICES ASSUME StreamInv, NEW i \in DOMAIN received,
                      WholeMacroPixels(received[i].format), Representable(received[i].format),
                      PlanesInFrame(received[i].format)
               PROVE  /\ PlacesInPlane(received[i].format)
                      /\ DisjointPlanes(received[i].format) => PlacesDisjoint(received[i].format)
    BY DEF ReturnedAreReadable
  <2>1. i \in 1 .. Len(received) /\ Len(received) \in Nat
    BY ReceivedAreSent
  <2>2. PICK h : InStep(h)
    <3>1. ~ Lost
      <4>1. ASSUME received = <<>>
            PROVE  FALSE
        BY <2>1, <4>1
      <4> QED  BY <4>1 DEF Lost
    <3> QED  BY <3>1 DEF StreamInv
  <2>3. PICK e : e = h[i]
    OBVIOUS
  <2>4. Returned(received[i], e) /\ Len(received) <= Len(h) /\ Chained(h)
    BY <2>1, <2>2, <2>3 DEF InStep, ReaderAt
  <2>5. Len(h) \in Nat
    BY <2>4, IsAppended DEF Chained
  <2>6. i \in 1 .. Len(h)
    BY <2>1, <2>4, <2>5
  <2>7. Scripted(e.call)
    BY <2>3, <2>4, <2>6 DEF Chained, Entry
  <2>8. PICK fmt : fmt = e.call.frame.format
    OBVIOUS
  <2>9. WellFormed(fmt)
    <3>1. PICK scr \in Scripts : \E j \in DOMAIN scr : e.call = scr[j]
      BY <2>7 DEF Scripted
    <3> QED  BY <2>8, <3>1 DEF CheckableCalls
  <2>10. received[i].format = fmt /\ ValidateFormat(fmt) = "valid"
    BY <2>4, <2>8 DEF Returned
  <2>11. \A j \in DOMAIN fmt.planes : fmt.planes[j].base_offset + fmt.planes[j].size <= fmt.size
    BY <2>10 DEF PlanesInFrame
  <2>12. PlacesInPlane(fmt) /\ (DisjointPlanes(fmt) => PlacesDisjoint(fmt))
    BY <2>9, <2>10, <2>11, AcceptedFormatsAreSound
  <2> QED  BY <2>10, <2>12
<1>2. Spec => []StreamInv
  BY ReaderFollowsWriter
<1> QED  BY <1>1, <1>2, PTL

LEMMA KeptInOrder ==
  ASSUME NEW s, IsSequence(s)
  PROVE  /\ IsSequence(KeptAll(s)) /\ Len(s) \in Nat /\ Len(KeptAll(s)) = Len(s)
         /\ \A i \in 1 .. Len(s) : KeptAll(s)[i] = Kept(s[i])
<1>1. Len(s) \in Nat /\ DOMAIN s = 1 .. Len(s)
  BY IsAppended
<1>2. PICK t, n : t = KeptAll(s) /\ n = Len(s)
  OBVIOUS
<1>3. t = [i \in 1 .. n |-> Kept(s[i])]
  BY <1>1, <1>2, Zenon DEF KeptAll
<1>4. \A i \in 1 .. n : t[i] = Kept(s[i])
  BY <1>3, Zenon
<1>5. t = [i \in 1 .. n |-> t[i]]
  BY <1>3
<1>6. IsSequence(t) /\ Len(t) = n
  BY <1>1, <1>2, <1>5, IsListed
<1> QED  BY <1>1, <1>2, <1>4, <1>6

LEMMA KeptAppended ==
  ASSUME NEW s, NEW e, IsSequence(s)
  PROVE  KeptAll(Append(s, e)) = Append(KeptAll(s), Kept(e))
<1>1. PICK t, u, v, n : t = Append(s, e) /\ u = KeptAll(t) /\ v = Append(KeptAll(s), Kept(e)) /\ n = Len(s)
  OBVIOUS
<1>2. /\ IsSequence(t) /\ n \in Nat /\ Len(t) = n + 1
      /\ t[n + 1] = e /\ \A i \in 1 .. n : t[i] = s[i]
  BY <1>1, IsAppended
<1>3. IsSequence(u) /\ Len(u) = n + 1 /\ \A i \in 1 .. n + 1 : u[i] = Kept(t[i])
  <2>1. IsSequence(u) /\ Len(u) = Len(t) /\ \A i \in 1 .. Len(t) : u[i] = Kept(t[i])
    BY <1>1, <1>2, KeptInOrder
  <2> QED  BY <1>2, <2>1
<1>4. PICK k : k = KeptAll(s)
  OBVIOUS
<1>5. IsSequence(k) /\ Len(k) = n /\ \A i \in 1 .. n : k[i] = Kept(s[i])
  BY <1>1, <1>4, KeptInOrder
<1>6. v = Append(k, Kept(e))
  BY <1>1, <1>4
<1>7. /\ IsSequence(v) /\ Len(v) = n + 1
      /\ v[n + 1] = Kept(e) /\ \A i \in 1 .. n : v[i] = k[i]
  BY <1>5, <1>6, IsAppended
<1>8. ASSUME NEW i \in 1 .. n + 1
      PROVE  u[i] = v[i]
  <2>1. CASE i = n + 1
    BY <1>2, <1>3, <1>7, <2>1
  <2>2. CASE i # n + 1
    <3>1. i \in 1 .. n
      BY <1>2, <2>2
    <3> QED  BY <1>2, <1>3, <1>5, <1>7, <3>1
  <2> QED  BY <2>1, <2>2
<1>9. u = v
  <2>1. DOMAIN u = 1 .. n + 1 /\ DOMAIN v = 1 .. n + 1
    BY <1>3, <1>7, IsAppended
  <2>2. PICK S : u \in Seq(S)
    BY <1>3 DEF IsSequence
  <2>3. PICK T : v \in Seq(T)
    BY <1>7 DEF IsSequence
  <2> QED  BY <1>2, <1>3, <1>7, <1>8, <2>2, <2>3
<1> QED  BY <1>1, <1>9

(* Every step of the writer and the reader is a step of the queue of       *)
(* frames or leaves it alone: the stream is a first-in first-out queue,    *)
(* whatever is written in it and wherever it breaks.  (That every frame    *)
(* does arrive is the queue's fairness, which runs check.)                 *)
THEOREM StreamIsQueue ==
  ASSUME StreamAssumptions
  PROVE  Spec => Fifo!Init /\ [][Fifo!Next]_(Fifo!vars)
<1>1. Init => Fifo!Init
  BY DEF Init, Fifo!Init, KeptAll
<1>2. StreamInv /\ StreamInv' /\ [Next]_vars => [Fifo!Next]_(Fifo!vars)
  <2> SUFFICES ASSUME StreamInv, StreamInv', [Next]_vars
               PROVE  Fifo!Next \/ UNCHANGED <<KeptAll(sent), KeptAll(received)>>
    BY DEF Fifo!vars
  <2>1. CASE UNCHANGED <<sent, received>>
    BY <2>1 DEF KeptAll
  <2>2. CASE WriteStruct /\ sent' # sent
    <3>1. sent' = Append(sent, Head(script).frame) /\ received' = received /\ script # <<>>
      BY <2>2 DEF WriteStruct, reader_vars, StreamInv, Calls
    <3>2. Scripted(Head(script))
      <4>1. Head(script) = script[1] /\ Len(script) \in Nat \ {0}
        BY <3>1, IsTaken DEF StreamInv, Calls
      <4> QED  BY <4>1 DEF StreamInv, Calls
    <3>3. PICK frame : frame = Kept(Head(script).frame)
      OBVIOUS
    <3>4. frame \in AllFrames
      BY <3>2, <3>3 DEF Scripted, AllFrames
    <3>5. KeptAll(sent') = Append(KeptAll(sent), frame)
      BY <3>1, <3>3, KeptAppended DEF StreamInv, Calls
    <3>6. KeptAll(received') = KeptAll(received)
      BY <3>1
    <3>7. Fifo!Send(frame)
      BY <3>5, <3>6 DEF Fifo!Send, KeptAll
    <3> QED  BY <3>4, <3>7 DEF Fifo!Next
  <2>3. CASE ReadPayload
    <3>1. PICK frame : received' = Append(received, frame) /\ sent' = sent
      BY <2>3 DEF ReadPayload, writer_vars
    <3>2. PICK m, n : m = Len(received) /\ n = Len(sent)
      OBVIOUS
    <3>3. /\ IsSequence(sent) /\ IsSequence(received)
          /\ m \in Nat /\ n \in Nat
      BY <3>2, ReceivedAreSent
    <3>4. Len(received') = m + 1 /\ received'[m + 1] = frame
      BY <3>1, <3>2, <3>3, IsAppended
    <3>5. Len(received') <= Len(sent') /\ \A i \in 1 .. Len(received') : Kept(received'[i]) = Kept(sent'[i])
      <4>1. (/\ Len(received) <= Len(sent)
             /\ \A i \in 1 .. Len(received) : Kept(received[i]) = Kept(sent[i]))'
        BY ReceivedAreSent, PTL
      <4> QED  BY <4>1 DEF Kept
    <3>6. m + 1 <= n /\ Kept(frame) = Kept(sent[m + 1])
      <4>1. Len(received') = m + 1 /\ Len(sent') = n /\ m + 1 \in 1 .. m + 1
        BY <3>1, <3>2, <3>3, <3>4
      <4>2. Kept(received'[m + 1]) = Kept(sent'[m + 1])
        BY <3>5, <4>1
      <4> QED  BY <3>1, <3>4, <3>5, <4>1, <4>2
    <3>7. PICK r, s : r = KeptAll(received) /\ s = KeptAll(sent)
      OBVIOUS
    <3>8. Len(r) = m /\ Len(s) = n /\ s[m + 1] = Kept(sent[m + 1])
      <4>1. m + 1 \in 1 .. n
        BY <3>3, <3>6
      <4> QED  BY <3>2, <3>3, <3>7, <4>1, KeptInOrder
    <3>9. KeptAll(received') = Append(r, s[m + 1])
      BY <3>1, <3>3, <3>6, <3>7, <3>8, KeptAppended
    <3>10. Len(r) < Len(s)
      BY <3>3, <3>6, <3>8
    <3>11. KeptAll(sent') = KeptAll(sent)
      BY <3>1
    <3>12. Fifo!Receive
      BY <3>7, <3>8, <3>9, <3>10, <3>11 DEF Fifo!Receive, KeptAll
    <3> QED  BY <3>12 DEF Fifo!Next
  <2>4. (WriteStruct /\ sent' # sent) \/ ReadPayload \/ UNCHANGED <<sent, received>>
    BY DEF Next, Write, ReadStep, StartFrame, WriteStruct, AssertNoReordering, WriteFails, CloseStream,
           ReadFileHeader, ReadFrameHeader, ReadPlane, ReadChannelBlock, ReadSample, CheckHeader,
           ShortRead, Garble, Stopped, vars, writer_vars, reader_vars
  <2> QED  BY <2>1, <2>2, <2>3, <2>4
<1>3. Spec => []StreamInv
  BY ReaderFollowsWriter
<1> QED  BY <1>1, <1>2, <1>3, PTL DEF Spec

=============================================================================
