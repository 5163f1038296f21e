----------------------------- MODULE FrameStream ----------------------------
(***************************************************************************)
(* The .xyuv file format: write_frame puts frames into a stream, one       *)
(* packed struct after the other, and read_frame takes them out again,     *)
(* from a file or, while they are still being written, from a network      *)
(* connection.  The stream holds the structs with their sizes in bytes; a  *)
(* failing write leaves a struct in it that is not whole.                  *)
(*                                                                         *)
(* A frame is [format, u_point, v_point, matrix, data]: its layout, the    *)
(* two sample points of its chroma siting, its conversion matrix, and its  *)
(* pixel data.                                                             *)
(***************************************************************************)
EXTENDS FormatValidator, SequencesExt

CONSTANTS
  Scripts,    \* calls of write_frame to make: sequences of [frame, version]
  Points,     \* chroma sample points
  Matrices,   \* conversion matrices
  Hosts,      \* byte orders of the writing host: a subset of {"little", "big"}
  Preambles   \* what may be in the stream at first

VARIABLES
  script,    \* the calls still to make
  host,      \* the byte order of the writing host
  writer,    \* "idle", "writing", "closed", "aborted"
  sending,   \* the rest of the frame being written
  sent,      \* the frames whose write_frame returned
  stream,    \* all that has been written
  reader,    \* the struct read_frame reads next, or how it ended
  position,  \* structs read so far
  version,   \* the version in the file header
  block,     \* the channel being read
  left,      \* planes or samples still to be read
  object,    \* the frame object being read into
  received   \* the frames read_frame returned

writer_vars == <<script, writer, sending, sent, stream>>
reader_vars == <<reader, position, version, block, left, object, received>>
vars == <<host, writer_vars, reader_vars>>

CURRENT_FILE_FORMAT_VERSION == 1
FileFormats == {0, 1}

(* The structs of version 1, and of version 0, whose planes have no room   *)
(* for a block order.                                                      *)
StructBytes1 == [file_header |-> 24, frame_header |-> 156, plane |-> 97, channel_block |-> 8, sample |-> 6]
StructBytes0 == [file_header |-> 24, frame_header |-> 156, plane |-> 25, channel_block |-> 8, sample |-> 6]
StructBytes(kind, v) == IF v = 0 THEN StructBytes0[kind] ELSE StructBytes1[kind]

DefaultBlockOrder == [mega_block_width |-> 1, mega_block_height |-> 1, x_mask |-> <<>>, y_mask |-> <<>>]

(* A frame object nothing was read into.                                   *)
FreshFrame ==
  [format |-> [image_w |-> 0, image_h |-> 0, macro_px_w |-> 0, macro_px_h |-> 0,
               origin |-> "upper_left", size |-> 0, planes |-> <<>>,
               channel_blocks |-> [c \in Channels |-> [w |-> 0, h |-> 0, samples |-> <<>>]]],
   u_point |-> CHOOSE p \in Points : TRUE, v_point |-> CHOOSE p \in Points : TRUE,
   matrix |-> CHOOSE x \in Matrices : TRUE, data |-> <<>>]

(* The version in a file header: version 0 stores a converted uint32_t in  *)
(* the uint16_t field, which keeps its low half: nothing of the 1 that a   *)
(* little-endian host has moved to the highest byte.                       *)
VersionOnDisk0 ==
  (IF host = "little" THEN CURRENT_FILE_FORMAT_VERSION * 2^24 ELSE CURRENT_FILE_FORMAT_VERSION) % 2^16
VersionOnDisk(v) == IF v = 0 THEN VersionOnDisk0 ELSE 1

(* A struct, by what from_io_* makes of the bytes to_io_* put into it.     *)
Struct(kind, v, body) == [kind |-> kind, bytes |-> StructBytes(kind, v), whole |-> TRUE, body |-> body]

(* calculate_header_properties.                                            *)
OffsetToData(fmt, v) ==
  (StructBytes("file_header", v) + StructBytes("frame_header", v)
     + StructBytes("plane", v) * Len(fmt.planes)
     + MapThenSumSet(LAMBDA c : StructBytes("channel_block", v) + StructBytes("sample", v)
                                  + Len(fmt.channel_blocks[c].samples), Channels)) % 2^16

(* Version 0 asserts that there is no reordering before it writes a plane. *)
PlaneOnDisk0(pl) ==
  IF HasMegaBlocks(pl) THEN [kind |-> "assertion"]
  ELSE Struct("plane", 0, [pl EXCEPT !.block_order = DefaultBlockOrder])

PlaneOnDisk1Mutant(pl) == Struct("plane", 1, [pl EXCEPT !.block_order = DefaultBlockOrder])
PlaneOnDisk1(pl) == Struct("plane", 1, pl)

PlaneOnDisk(pl, v) == IF v = 0 THEN PlaneOnDisk0(pl) ELSE PlaneOnDisk1(pl)

ChannelOnDisk(blk, v) ==
  <<Struct("channel_block", v,
      [w |-> blk.w, h |-> blk.h, n_continuation |-> (Len(blk.samples) - blk.w * blk.h) % Word])>>
    \o [i \in DOMAIN blk.samples |-> Struct("sample", v, blk.samples[i])]

(* Everything write_frame writes.  The siting's v point goes to the fields *)
(* of the u point, and nothing goes to those of the v point: junk.         *)
FrameOnDisk(frame, v, junk) ==
  LET fmt == frame.format
  IN  <<Struct("file_header", v,
          [version |-> VersionOnDisk(v), size |-> fmt.size, offset_to_data |-> OffsetToData(fmt, v)]),
        Struct("frame_header", v,
          [image_w |-> fmt.image_w, image_h |-> fmt.image_h, n_planes |-> Len(fmt.planes) % 2^8,
           origin |-> fmt.origin, macro_px_w |-> fmt.macro_px_w, macro_px_h |-> fmt.macro_px_h,
           u_point |-> frame.v_point, v_point |-> junk, matrix |-> frame.matrix])>>
      \o [i \in DOMAIN fmt.planes |-> PlaneOnDisk(fmt.planes[i], v)]
      \o ChannelOnDisk(fmt.channel_blocks[ChannelY], v) \o ChannelOnDisk(fmt.channel_blocks[ChannelU], v)
      \o ChannelOnDisk(fmt.channel_blocks[ChannelV], v) \o ChannelOnDisk(fmt.channel_blocks[ChannelA], v)
      \o <<[kind |-> "payload", bytes |-> fmt.size, whole |-> TRUE, body |-> frame.data]>>

Init ==
  /\ script \in Scripts
  /\ host \in Hosts
  /\ writer = "idle"
  /\ sending = <<>>
  /\ sent = <<>>
  /\ stream \in Preambles
  /\ reader = "file_header"
  /\ position = 0
  /\ version = 0
  /\ block = ChannelY
  /\ left = 0
  /\ object = FreshFrame
  /\ received = <<>>

-----------------------------------------------------------------------------
(* write_frame, one struct at a time.                                      *)

StartFrame ==
  /\ writer = "idle"
  /\ script # <<>>
  /\ \/ /\ Head(script).version \in FileFormats
        /\ \E junk \in Points : sending' = FrameOnDisk(Head(script).frame, Head(script).version, junk)
        /\ writer' = "writing"
     \/ /\ Head(script).version \notin FileFormats
        /\ writer' = "aborted"
        /\ UNCHANGED sending
  /\ UNCHANGED <<host, script, sent, stream, reader_vars>>

WriteStruct ==
  /\ writer = "writing"
  /\ Head(sending).kind # "assertion"
  /\ stream' = Append(stream, Head(sending))
  /\ sending' = Tail(sending)
  /\ \/ /\ sending' # <<>>
        /\ UNCHANGED <<script, writer, sent>>
     \/ /\ sending' = <<>>
        /\ sent' = Append(sent, Head(script).frame)
        /\ script' = Tail(script)
        /\ writer' = "idle"
  /\ UNCHANGED <<host, reader_vars>>

AssertNoReordering ==
  /\ writer = "writing"
  /\ Head(sending).kind = "assertion"
  /\ writer' = "aborted"
  /\ UNCHANGED <<host, script, sending, sent, stream, reader_vars>>

(* The stream takes only a part of a struct, and the assertion that        *)
(* follows every write ends the writer.                                    *)
WriteFails ==
  /\ writer = "writing"
  /\ Head(sending).kind # "assertion"
  /\ stream' = Append(stream, [Head(sending) EXCEPT !.whole = FALSE])
  /\ writer' = "aborted"
  /\ UNCHANGED <<host, script, sending, sent, reader_vars>>

CloseStream ==
  /\ writer = "idle"
  /\ script = <<>>
  /\ writer' = "closed"
  /\ UNCHANGED <<host, script, sending, sent, stream, reader_vars>>

-----------------------------------------------------------------------------
(* read_frame, one struct at a time.  A read waits until the struct has    *)
(* arrived, or until it is certain that it will not.                       *)

ArrivedMutant == position < Len(stream)
Arrived == position < Len(stream) /\ stream[position + 1].whole
Next1   == stream[position + 1]

(* The bytes at the head of the stream are a struct of the expected kind.  *)
ExpectedBytes(kind) == IF kind = "payload" THEN object.format.size ELSE StructBytes(kind, version)
AsExpected(kind) == Next1.kind = kind /\ Next1.bytes = ExpectedBytes(kind)

Read(kind) ==
  /\ reader = kind
  /\ Arrived
  /\ AsExpected(kind)
  /\ position' = position + 1

(* The file header's reader checks the version before the magic number.    *)
KnownHeader == Next1.kind = "file_header" /\ Next1.body.version \in FileFormats

ReadFileHeader ==
  /\ reader = "file_header"
  /\ Arrived
  /\ position' = position + 1
  /\ \/ /\ KnownHeader
        /\ version' = Next1.body.version
        /\ object' = [object EXCEPT !.format.size = Next1.body.size]
        /\ reader' = "frame_header"
     \/ /\ ~ KnownHeader
        /\ reader' = "aborted"
        /\ UNCHANGED <<version, object>>
  /\ UNCHANGED <<host, writer_vars, block, left, received>>

(* What is read next when n more of kind are due, and after when none are. *)
Due(n, kind, after) == IF n > 0 THEN kind ELSE after

ReadFrameHeader ==
  LET h == Next1.body
  IN  /\ Read("frame_header")
      /\ object' = [object EXCEPT
           !.format = [@ EXCEPT !.image_w = h.image_w, !.image_h = h.image_h, !.origin = h.origin,
                                !.macro_px_w = h.macro_px_w, !.macro_px_h = h.macro_px_h],
           !.u_point = h.u_point, !.v_point = h.v_point, !.matrix = h.matrix]
      /\ left' = h.n_planes
      /\ block' = ChannelY
      /\ reader' = Due(h.n_planes, "plane", "channel_block")
      /\ UNCHANGED <<host, writer_vars, version, received>>

ReadPlane ==
  /\ Read("plane")
  /\ object' = [object EXCEPT !.format.planes = Append(@, Next1.body)]
  /\ left' = left - 1
  /\ reader' = Due(left - 1, "plane", "channel_block")
  /\ UNCHANGED <<host, writer_vars, version, block, received>>

AfterBlock == IF block = ChannelA THEN "check" ELSE "channel_block"

(* The samples that belong to a channel block.                             *)
NSamplesMutant(h) == h.w * h.h
NSamples(h) == (h.w * h.h + h.n_continuation) % Word

ReadChannelBlock ==
  LET h == Next1.body
      n == NSamples(h)
  IN  /\ Read("channel_block")
      /\ object' = [object EXCEPT !.format.channel_blocks[block] = [@ EXCEPT !.w = h.w, !.h = h.h]]
      /\ left' = n
      /\ block' = IF n = 0 THEN block + 1 ELSE block
      /\ reader' = Due(n, "sample", AfterBlock)
      /\ UNCHANGED <<host, writer_vars, version, received>>

ReadSample ==
  /\ Read("sample")
  /\ object' = [object EXCEPT !.format.channel_blocks[block].samples = Append(@, Next1.body)]
  /\ left' = left - 1
  /\ block' = IF left = 1 THEN block + 1 ELSE block
  /\ reader' = Due(left - 1, "sample", AfterBlock)
  /\ UNCHANGED <<host, writer_vars, version, received>>

(* validate_format on the header that was read; it throws an exception if  *)
(* the format is not valid.                                                *)
CheckHeader ==
  /\ reader = "check"
  /\ reader' = IF ValidateFormat(object.format) = "valid" THEN "payload" ELSE "thrown"
  /\ UNCHANGED <<host, writer_vars, position, version, block, left, object, received>>

(* The callers in the repository pass a new object for every frame.        *)
ReadPayload ==
  /\ Read("payload")
  /\ received' = Append(received, [object EXCEPT !.data = Next1.body])
  /\ object' = FreshFrame
  /\ reader' = "file_header"
  /\ UNCHANGED <<host, writer_vars, version, block, left>>

Reading == {"file_header", "frame_header", "plane", "channel_block", "sample", "payload"}

(* The stream ends before the struct does: an assertion.                   *)
ShortReadMutant ==
  /\ reader = "file_header"
  /\ ~ Arrived
  /\ writer \in {"closed", "aborted"}
  /\ reader' = "aborted"
  /\ UNCHANGED <<host, writer_vars, position, version, block, left, object, received>>

ShortRead ==
  /\ reader \in Reading
  /\ ~ Arrived
  /\ writer \in {"closed", "aborted"}
  /\ reader' = "aborted"
  /\ UNCHANGED <<host, writer_vars, position, version, block, left, object, received>>

(* The bytes of something else are taken for the expected struct.          *)
Garble ==
  /\ reader \in Reading \ {"file_header"}
  /\ Arrived
  /\ ~ AsExpected(reader)
  /\ reader' = "garbled"
  /\ UNCHANGED <<host, writer_vars, position, version, block, left, object, received>>

-----------------------------------------------------------------------------
Write == StartFrame \/ WriteStruct \/ AssertNoReordering \/ WriteFails \/ CloseStream

ReadStep ==
  \/ ReadFileHeader \/ ReadFrameHeader \/ ReadPlane \/ ReadChannelBlock \/ ReadSample
  \/ CheckHeader \/ ReadPayload \/ ShortRead \/ Garble

Stopped ==
  /\ writer \in {"closed", "aborted"}
  /\ reader \in {"aborted", "thrown", "garbled"}
  /\ UNCHANGED vars

Next == Write \/ ReadStep \/ Stopped

(* Both sides are straight-line code: neither stops between two structs.   *)
Spec == Init /\ [][Next]_vars /\ WF_vars(Write) /\ WF_vars(ReadStep)

-----------------------------------------------------------------------------
(* What a frame must keep on its way through a stream.                     *)
Kept(frame) == [format |-> frame.format, matrix |-> frame.matrix, data |-> frame.data]
KeptAll(frames) == [i \in DOMAIN frames |-> Kept(frames[i])]

(* The frames written arrive complete, unaltered and in order, whether or  *)
(* not they are read while later ones are written, and nothing of a frame  *)
(* whose writing failed arrives.  The abstract queue is FrameFifo.         *)
AllFrames == UNION {{Kept(scr[i].frame) : i \in DOMAIN scr} : scr \in Scripts}
Fifo == INSTANCE FrameFifo WITH Frames <- AllFrames, sent <- KeptAll(sent), received <- KeptAll(received)
ImplementsFifo == Fifo!Spec

(* The reader never takes one struct for another: the counts and versions  *)
(* in the headers tell it what follows.                                    *)
ReaderInStep == reader # "garbled"

(* What read_frame's validation is good for: write_frame does not look at  *)
(* the layout, and what is read of it is used before it is checked.  Of a  *)
(* frame that is returned all places decode_frame reads are inside planes  *)
(* and frame and, where planes are apart, no two of them share a bit.      *)
(* That is so for images of whole macro pixels, numbers that did not wrap  *)
(* in the checks, and planes inside the frame: frames that lack one of     *)
(* these are returned as well, and nothing is claimed of their places.     *)
PlanesInFrame(fmt) == \A i \in DOMAIN fmt.planes : fmt.planes[i].base_offset + fmt.planes[i].size <= fmt.size
ReturnedAreReadable ==
  \A i \in DOMAIN received :
    LET fmt == received[i].format
    IN  (WholeMacroPixels(fmt) /\ Representable(fmt) /\ PlanesInFrame(fmt)) =>
          PlacesInPlane(fmt) /\ (DisjointPlanes(fmt) => PlacesDisjoint(fmt))

(* read_frame always ends, however the stream was cut short.               *)
ReaderEnds == <>(reader \in {"aborted", "thrown", "garbled"})

(* A frame read from a stream has the chroma siting it was written with.   *)
SitingKept ==
  \A i \in DOMAIN received : /\ received[i].u_point = sent[i].u_point
                             /\ received[i].v_point = sent[i].v_point

(* The frames returned are those written, in their order and unaltered,    *)
(* from whatever point on reading or writing goes wrong.                   *)
ReceivedInOrder == IsPrefix(KeptAll(received), KeptAll(sent))

=============================================================================
