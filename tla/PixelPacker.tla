----------------------------- MODULE PixelPacker ----------------------------
(***************************************************************************)
(* A yuv_image is packed into a frame (internal_encode_frame) and the      *)
(* frame is unpacked again (decode_frame).                                 *)
(*                                                                         *)
(* What a pixel's value is does not matter to the packing, only which of   *)
(* its bits is where: bit k of pixel i of channel c is the triple          *)
(* <<c, i, k>>, counted from the least significant one, and a buffer maps  *)
(* bit addresses to such triples.  A pixel is named by its index in the    *)
(* surface's row-major storage, so a coordinate beyond the right edge      *)
(* names, as in surface::at, a pixel of the next row.                      *)
(***************************************************************************)
EXTENDS BlockReorder

CONSTANT Formats  \* the xyuv::format records to pack frames for

VARIABLES
  fmt,        \* the format of this frame
  has_alpha,  \* does the image have an alpha plane?
  pc,         \* what happens next
  pos,        \* loop counters: channel, line, block in line, first sample of the pixel
  s,          \* the sample about to be written or read
  it,         \* the block_iterator over the channel's surface
  value,      \* bits of the pixel being moved, least significant first
  plane,      \* the plane about to be reordered
  data,       \* the frame's buffer
  raw,        \* the buffer decode_channel reads: data, or its reordered copy
  image,      \* the decoded surfaces, pixels by channel; <<>> is a new surface's value
  in_bounds   \* has every access so far been inside its surface or buffer?

vars == <<fmt, has_alpha, pc, pos, s, it, value, plane, data, raw, image, in_bounds>>

POISON      == <<0, 0, 0>>  \* a bit that poison_buffer filled in
INDET       == <<0, 0, 1>>  \* a bit of memory nothing initialised
OPAQUE      == 0            \* the "pixel" whose value is the default alpha, 1.0
Bits(c, i, n) == [k \in 1 .. n |-> <<c, i, k>>]

Samples(c) == fmt.channel_blocks[c].samples
Block(c)   == fmt.channel_blocks[c]

(* The bits to_unorm gives for the pixel at index i.                       *)
SourceBits(c, i, n) ==
  IF c = ChannelA /\ ~ has_alpha THEN Bits(ChannelA, OPAQUE, n) ELSE Bits(c, i, n)

SurfaceSize(c)  == SurfaceW(fmt, c) * SurfaceH(fmt, c)
SurfaceIndex(c) == (it.block_y + it.y) * SurfaceW(fmt, c) + it.block_x + it.x + 1

(* Channels encode_channel and decode_channel have any block to visit for. *)
Visits(c) == Samples(c) # <<>> /\ NBlocksInLine(fmt, c) > 0 /\ NBlockLines(fmt, c) > 0

AtChannel(c) == [ch |-> c, line |-> 0, b |-> 0, g |-> 1]
NoChannel    == AtChannel(ChannelA + 1)
FirstFrom(c) ==
  IF \E k \in c .. ChannelA : Visits(k)
  THEN AtChannel(CHOOSE k \in c .. ChannelA : Visits(k) /\ \A j \in c .. k - 1 : ~ Visits(j))
  ELSE NoChannel

(* Where the next channel with anything in it starts.                      *)
NextChannel == FirstFrom(pos.ch + 1)

(* The position after the pixel whose last sample is e.                    *)
NextPos(e) ==
  CASE e < Len(Samples(pos.ch))                   -> [pos EXCEPT !.g = e + 1]
    [] e = Len(Samples(pos.ch)) /\ pos.b + 1 < NBlocksInLine(fmt, pos.ch)
                                                  -> [pos EXCEPT !.g = 1, !.b = @ + 1]
    [] e = Len(Samples(pos.ch)) /\ pos.b + 1 >= NBlocksInLine(fmt, pos.ch)
         /\ pos.line + 1 < NBlockLines(fmt, pos.ch)
                                                  -> [AtChannel(pos.ch) EXCEPT !.line = pos.line + 1]
    [] OTHER                                      -> NextChannel

IteratorStart == [block_x |-> 0, block_y |-> 0, x |-> 0, y |-> 0]

AdvanceMutant(c) ==
  CASE it.x + 1 # Block(c).w -> [it EXCEPT !.x = @ + 1]
    [] it.x + 1 = Block(c).w /\ it.y + 1 # Block(c).h -> [it EXCEPT !.x = 0, !.y = @ + 1]
    [] it.x + 1 = Block(c).w /\ it.y + 1 = Block(c).h
         /\ it.block_x + Block(c).w <= SurfaceW(fmt, c)
         -> [IteratorStart EXCEPT !.block_x = it.block_x + Block(c).w, !.block_y = it.block_y]
    [] OTHER -> [IteratorStart EXCEPT !.block_y = it.block_y + Block(c).h]

Advance(c) ==
  CASE it.x + 1 # Block(c).w -> [it EXCEPT !.x = @ + 1]
    [] it.x + 1 = Block(c).w /\ it.y + 1 # Block(c).h -> [it EXCEPT !.x = 0, !.y = @ + 1]
    [] it.x + 1 = Block(c).w /\ it.y + 1 = Block(c).h
         /\ it.block_x + Block(c).w < SurfaceW(fmt, c)
         -> [IteratorStart EXCEPT !.block_x = it.block_x + Block(c).w, !.block_y = it.block_y]
    [] OTHER -> [IteratorStart EXCEPT !.block_y = it.block_y + Block(c).h]

(* Each channel gets an iterator of its own.                               *)
IteratorFor(next, advanced) == IF next.ch = pos.ch THEN advanced ELSE IteratorStart

AddressesOf(smp) ==
  LET first == SampleBit(fmt, pos.ch, pos.line, pos.b, smp)
  IN  first .. first + SampleBits(smp) - 1

-----------------------------------------------------------------------------
Init ==
  /\ fmt \in Formats
  /\ has_alpha \in BOOLEAN
  /\ pos = FirstFrom(ChannelY)
  /\ pc = IF pos = NoChannel THEN "transform" ELSE "load"
  /\ s = 1
  /\ it = IteratorStart
  /\ value = <<>>
  /\ plane = 1
  /\ data = [a \in 0 .. 8 * fmt.size - 1 |-> POISON]
  /\ raw = <<>>
  /\ image = [c \in Channels |-> IF Samples(c) = <<>> THEN <<>>
                                 ELSE [i \in 1 .. SurfaceSize(c) |-> <<>>]]
  /\ in_bounds = TRUE

(* value = *it.advance(), converted with as many bits as the group has.    *)
LoadPixel ==
  /\ pc = "load"
  /\ LET e == GroupEnd(Samples(pos.ch), pos.g)
     IN  /\ value' = SourceBits(pos.ch, SurfaceIndex(pos.ch), BitsOfSamples(Samples(pos.ch), pos.g, e))
         /\ s' = e
  /\ in_bounds' = (in_bounds /\ SurfaceIndex(pos.ch) \in 1 .. SurfaceSize(pos.ch))
  /\ it' = Advance(pos.ch)
  /\ pc' = "write"
  /\ UNCHANGED <<fmt, has_alpha, pos, plane, data, raw, image>>

(* Is there another sample of the group to write?                          *)
MoreToWrite == s > pos.g

(* write_bits: the value's low bits go out, and are shifted out of it. The *)
(* samples of a group are written last to first.                           *)
WriteSample ==
  LET smp == Samples(pos.ch)[s]
      first == SampleBit(fmt, pos.ch, pos.line, pos.b, smp)
      next == NextPos(GroupEnd(Samples(pos.ch), pos.g))
  IN  /\ pc = "write"
      /\ data' = [a \in DOMAIN data |-> IF a \in AddressesOf(smp) THEN value[a - first + 1] ELSE data[a]]
      /\ in_bounds' = (in_bounds /\ AddressesOf(smp) \subseteq DOMAIN data)
      /\ value' = SubSeq(value, SampleBits(smp) + 1, Len(value))
      /\ \/ /\ MoreToWrite
            /\ s' = s - 1
            /\ UNCHANGED <<pc, pos, it>>
         \/ /\ ~ MoreToWrite
            /\ pos' = next
            /\ it' = IteratorFor(next, it)
            /\ pc' = IF next = NoChannel THEN "transform" ELSE "load"
            /\ UNCHANGED s
      /\ UNCHANGED <<fmt, has_alpha, plane, raw, image>>

(* reorder_transform of one plane; a mega block line that is not a whole   *)
(* number of bytes trips an assertion.                                     *)
TransformPlane ==
  /\ pc = "transform"
  /\ plane \in DOMAIN fmt.planes
  /\ LET pl == fmt.planes[plane]
     IN  \/ /\ HasMegaBlocks(pl) => MegaLineIsWholeBytes(pl)
            /\ data' = ReorderTransform(data, pl, INDET)
            /\ in_bounds' = (in_bounds /\ ~ ReorderOverruns(pl))
            /\ plane' = plane + 1
            /\ UNCHANGED pc
         \/ /\ HasMegaBlocks(pl) /\ ~ MegaLineIsWholeBytes(pl)
            /\ pc' = "aborted"
            /\ UNCHANGED <<data, in_bounds, plane>>
  /\ UNCHANGED <<fmt, has_alpha, pos, s, it, value, raw, image>>

(* The encoded frame is complete; decode_frame starts on it, on a copy if  *)
(* any plane needs reordering.                                             *)
StartDecode ==
  /\ pc = "transform"
  /\ plane = Len(fmt.planes) + 1
  /\ raw' = data
  /\ pos' = FirstFrom(ChannelY)
  /\ it' = IteratorStart
  /\ s' = 1
  /\ plane' = 1
  /\ pc' = CASE NeedsReorder(fmt) -> "inverse"
             [] ~ NeedsReorder(fmt) /\ pos' # NoChannel -> "read"
             [] OTHER -> "done"
  /\ UNCHANGED <<fmt, has_alpha, value, data, image, in_bounds>>

InversePlane ==
  /\ pc = "inverse"
  /\ plane \in DOMAIN fmt.planes
  /\ raw' = ReorderInverse(raw, fmt.planes[plane], INDET)
  /\ in_bounds' = (in_bounds /\ ~ ReorderOverruns(fmt.planes[plane]))
  /\ plane' = plane + 1
  /\ pc' = CASE plane < Len(fmt.planes) -> "inverse"
             [] plane = Len(fmt.planes) /\ pos # NoChannel -> "read"
             [] OTHER -> "done"
  /\ UNCHANGED <<fmt, has_alpha, pos, s, it, value, data, image>>

(* read_bits: the sample's bits become the low bits of the value.          *)
PushBitsMutant(bits, low) == bits \o low
PushBits(bits, low) == low \o bits

(* The samples of a group are read first to last.                          *)
ReadSample ==
  LET smp == Samples(pos.ch)[s]
      first == SampleBit(fmt, pos.ch, pos.line, pos.b, smp)
      BitAt(a) == IF a \in DOMAIN raw THEN raw[a] ELSE INDET
  IN  /\ pc = "read"
      /\ value' = PushBits(value, [k \in 1 .. SampleBits(smp) |-> BitAt(first + k - 1)])
      /\ in_bounds' = (in_bounds /\ AddressesOf(smp) \subseteq DOMAIN raw)
      /\ \/ smp.has_continuation /\ s' = s + 1 /\ UNCHANGED pc
         \/ ~ smp.has_continuation /\ pc' = "store" /\ UNCHANGED s
      /\ UNCHANGED <<fmt, has_alpha, pos, it, plane, data, raw, image>>

(* *it.advance() = value; then on to the next pixel with a fresh value.    *)
StorePixel ==
  LET next == NextPos(s)
      i == SurfaceIndex(pos.ch)
  IN  /\ pc = "store"
      /\ image' = IF i \in 1 .. SurfaceSize(pos.ch) THEN [image EXCEPT ![pos.ch][i] = value] ELSE image
      /\ in_bounds' = (in_bounds /\ i \in 1 .. SurfaceSize(pos.ch))
      /\ value' = <<>>
      /\ pos' = next
      /\ s' = next.g
      /\ it' = IteratorFor(next, Advance(pos.ch))
      /\ pc' = IF next = NoChannel THEN "done" ELSE "read"
      /\ UNCHANGED <<fmt, has_alpha, plane, data, raw>>

Stopped == pc \in {"done", "aborted"} /\ UNCHANGED vars

Next ==
  \/ LoadPixel \/ WriteSample \/ TransformPlane \/ StartDecode
  \/ InversePlane \/ ReadSample \/ StorePixel \/ Stopped

(* The code runs on one thread and none of its loops waits for anything.   *)
Spec == Init /\ [][Next]_vars /\ WF_vars(Next)

-----------------------------------------------------------------------------
(* The block counters of encode_channel/decode_channel and the             *)
(* block_iterator run in step: they are advanced by different conditions   *)
(* (n_blocks_in_line against the surface's width), and only together put   *)
(* pixel (x, y) into block (x/w, y/h).                                     *)
IteratorInStep ==
  pc \in {"load", "read", "store"} =>
    LET blk == Block(pos.ch)
        before == {i \in 1 .. pos.g - 1 : ~ Samples(pos.ch)[i].has_continuation}
    IN  /\ it.block_x = pos.b * blk.w
        /\ it.block_y = pos.line * blk.h
        /\ it.y * blk.w + it.x = Cardinality(before)

(* No access of the packer leaves the surface or the frame's buffer:       *)
(* neither surface::at nor set_bit/get_bit checks an index.                *)
InBounds == in_bounds

(* A bit that holds part of a pixel is not overwritten while packing: no   *)
(* two samples of any two blocks of any two channels share an address.     *)
NoClobber ==
  [][pc = "write" => \A a \in DOMAIN data : data[a] # POISON => data'[a] = data[a]]_vars

(* Every bit of the finished frame is determined by the image: it is a bit *)
(* of a pixel or the fixed poison ("undefined" yet deterministic).         *)
PaddingDeterministic ==
  pc \in {"inverse", "read", "store", "done"} => \A a \in DOMAIN data : data[a] # INDET

(* What arrives of an image is as it was packed, even where blocks or mega *)
(* blocks do not come out even and the iterator is not where the counters  *)
(* are: pixels may be left out, but none gets the bits of another, unless  *)
(* the layout puts two places on one bit (as cut macro pixels may).        *)
NothingArrivesAltered ==
  \A c \in Channels : \A i \in DOMAIN image[c] :
    image[c][i] # <<>> => image[c][i] = SourceBits(c, i, Len(image[c][i]))

(* The image as it should arrive, and what has arrived of it.  How wide a  *)
(* pixel is converted follows from the group of samples of its place.      *)
PixelsOf(c) == {<<c, i>> : i \in 1 .. SurfaceSize(c)}
AllPixels == UNION {PixelsOf(c) : c \in {k \in Channels : Samples(k) # <<>>}}
PixelWidth(c, i) ==
  LET x == ((i - 1) % SurfaceW(fmt, c)) % Block(c).w
      y == ((i - 1) \div SurfaceW(fmt, c)) % Block(c).h
      Ends == {e \in DOMAIN Samples(c) : ~ Samples(c)[e].has_continuation}
      e == CHOOSE e \in Ends : Cardinality({f \in Ends : f < e}) = y * Block(c).w + x
      f == CHOOSE f \in 1 .. e : GroupEnd(Samples(c), f) = e /\ \A h \in 1 .. f - 1 : GroupEnd(Samples(c), h) # e
  IN  BitsOfSamples(Samples(c), f, e)
Source == [p \in AllPixels |-> SourceBits(p[1], p[2], PixelWidth(p[1], p[2]))]
Delivered == [p \in {q \in AllPixels : image[q[1]][q[2]] # <<>>} |-> image[p[1]][p[2]]]

(* Decoding delivers, one by one, every pixel of every channel exactly as  *)
(* it was encoded: split samples, interleaved lines, lower-left origin and *)
(* block order all cancel out. The abstract channel is ImageTransfer.      *)
Transfer == INSTANCE ImageTransfer WITH source <- Source, delivered <- Delivered
ImplementsTransfer == Transfer!Spec

=============================================================================
