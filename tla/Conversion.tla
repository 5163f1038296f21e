----------------------------- MODULE Conversion -----------------------------
(***************************************************************************)
(* Converting an image from format to format: convert_frame decodes a      *)
(* frame into an image and encode_frame brings the image to the size and   *)
(* the chroma siting of the new format before it packs it.  Between        *)
(* conversions the program holds the image and may resample it itself.     *)
(*                                                                         *)
(* A target is [w, h, siting, channels]: what encode_frame's conversion    *)
(* depends on of a format.  Packing and unpacking an image is one step     *)
(* here; PixelPacker has the details.                                      *)
(***************************************************************************)
EXTENDS Resampler

CONSTANTS
  Originals,  \* what the image may be like at first
  Targets,    \* the formats to convert to
  MaxCalls,   \* calls made on one image; ONE must be divisible by 4^MaxCalls
  Poison,     \* the content of a frame where nothing is packed
  Opaque,     \* the value 1.0 of an alpha channel that was not there
  NoTarget    \* the target while nothing is being converted

Shapes == Originals \cup Targets

ASSUME ConversionAssumption ==
  /\ MaxCalls \in Nat
  /\ NoTarget \notin Targets
  /\ Outside \notin {Poison, Opaque}
  /\ \A f \in Shapes :
       /\ f.w \in Nat \ {0} /\ f.h \in Nat \ {0}
       /\ f.siting \in [mw : Nat \ {0}, mh : Nat \ {0}, u : Int \X Int, v : Int \X Int]
       /\ f.channels \subseteq Channels

(* A value can be cut into four once for each call: weights are whole      *)
(* parts of ONE where the code has floats, and no division may leave a     *)
(* remainder that the code would keep.                                     *)
ASSUME PrecisionAssumption ==
  /\ ONE \in Nat \ {0}
  /\ \E part \in [0 .. MaxCalls -> 1 .. ONE] :
       /\ part[0] = 1
       /\ \A k \in 1 .. MaxCalls : part[k] = 4 * part[k - 1]
       /\ \A k \in 0 .. MaxCalls : ONE % part[k] = 0

VARIABLES
  image,    \* the image as it is now
  target,   \* the format it is being converted to
  stage,    \* where encode_frame is: "idle", "size", "siting", "pack"
  calls,    \* calls that have returned
  history   \* the image before the first call and after each one

vars == <<image, target, stage, calls, history>>

(* An image with a source pixel of its own in every place.                 *)
ImageOf(f) ==
  [w |-> f.w, h |-> f.h, siting |-> f.siting,
   planes |-> [c \in Channels |->
     IF c \notin f.channels THEN Empty
     ELSE LET w == PlaneW(f.w, f.siting, c)
              h == PlaneH(f.h, f.siting, c)
          IN  [w |-> w, h |-> h, at |-> [q \in Pixels(w, h) |-> Only(q)]]]]

Init ==
  /\ \E f \in Originals : image = ImageOf(f)
  /\ target = NoTarget
  /\ stage = "idle"
  /\ calls = 0
  /\ history = <<image>>

(* The short path, or which conversion to begin with.                      *)
FirstStage(f) ==
  CASE image.w = f.w /\ image.h = f.h /\ image.siting = f.siting   -> "pack"
    [] image.w = f.w /\ image.h = f.h /\ image.siting # f.siting -> "siting"
    [] image.w # f.w \/ image.h # f.h                            -> "size"

StartEncode ==
  /\ stage = "idle"
  /\ calls < MaxCalls
  /\ \E f \in Targets : target' = f /\ stage' = FirstStage(f)
  /\ UNCHANGED <<image, calls, history>>

UpSampleToScale ==
  /\ stage = "size"
  /\ ~ Is444(image.siting)
  /\ image' = UpSample(image)
  /\ UNCHANGED <<target, stage, calls, history>>

Scale ==
  /\ stage = "size"
  /\ Is444(image.siting)
  /\ image' = ScaleImage(image, target.w, target.h)
  /\ stage' = "siting"
  /\ UNCHANGED <<target, calls, history>>

UpSampleToResite ==
  /\ stage = "siting"
  /\ image.siting # target.siting
  /\ ~ Is444(image.siting)
  /\ image' = UpSample(image)
  /\ UNCHANGED <<target, stage, calls, history>>

(* The image is 444 and the target is not.                                 *)
DownSampleToTarget ==
  /\ stage = "siting"
  /\ image.siting # target.siting
  /\ Is444(image.siting)
  /\ ~ Is444(target.siting)
  /\ image' = DownSample(image, target.siting)
  /\ stage' = "pack"
  /\ UNCHANGED <<target, calls, history>>

(* Nothing is left to convert; the points of a 444 siting do not matter.   *)
ConvertedMutant == Is444(target.siting) \/ image.siting = target.siting
Converted == image.siting = target.siting \/ (Is444(image.siting) /\ Is444(target.siting))

EndConversion ==
  /\ stage = "siting"
  /\ Converted
  /\ stage' = "pack"
  /\ UNCHANGED <<image, target, calls, history>>

(* What comes back of channel c when the frame is decoded.                 *)
Unpacked(c) ==
  LET s == image.planes[c]
      w == PlaneW(target.w, target.siting, c)
      h == PlaneH(target.h, target.siting, c)
      missing == IF c = ChannelA THEN Only(Opaque) ELSE Only(Poison)
  IN  IF c \notin target.channels THEN Empty
      ELSE [w |-> w, h |-> h, at |-> [q \in Pixels(w, h) |->
              IF IsEmpty(s) THEN missing
              ELSE IF q \in Pixels(s.w, s.h) THEN s.at[q] ELSE Only(Poison)]]

PackAndUnpack ==
  /\ stage = "pack"
  /\ image' = [w |-> target.w, h |-> target.h, siting |-> target.siting,
               planes |-> [c \in Channels |-> Unpacked(c)]]
  /\ calls' = calls + 1
  /\ history' = Append(history, image')
  /\ target' = NoTarget
  /\ stage' = "idle"

(* The program resamples the image by a call of its own.                   *)
Resample ==
  /\ stage = "idle"
  /\ calls < MaxCalls
  /\ \/ image' = UpSample(image)
     \/ \E f \in Targets : image' = DownSample(image, f.siting)
     \/ \E f \in Targets : image' = ScaleImage(image, f.w, f.h)
  /\ calls' = calls + 1
  /\ history' = Append(history, image')
  /\ UNCHANGED <<target, stage>>

Finished ==
  /\ stage = "idle"
  /\ calls = MaxCalls
  /\ UNCHANGED vars

Next ==
  \/ StartEncode \/ UpSampleToScale \/ Scale \/ UpSampleToResite
  \/ DownSampleToTarget \/ EndConversion \/ PackAndUnpack \/ Resample \/ Finished

Spec == Init /\ [][Next]_vars

-----------------------------------------------------------------------------
Fits(s, w, h, siting, c) == s.w = PlaneW(w, siting, c) /\ s.h = PlaneH(h, siting, c)

(* The surface of every channel that is there has the size that the        *)
(* image's own size and siting give it.                                    *)
SurfacesFit(img) ==
  \A c \in Channels : IsEmpty(img.planes[c]) \/ Fits(img.planes[c], img.w, img.h, img.siting, c)

Sitings == {Full} \cup {f.siting : f \in Shapes}

(* Variables keep their types; an image always has surfaces that fit it.   *)
TypeOK ==
  /\ stage \in {"idle", "size", "siting", "pack"}
  /\ target \in (IF stage = "idle" THEN {NoTarget} ELSE Targets)
  /\ calls \in 0 .. MaxCalls
  /\ image.w \in Nat \ {0} /\ image.h \in Nat \ {0}
  /\ image.siting \in Sitings
  /\ SurfacesFit(image)

(* Whatever conversions were needed, the packer finds surfaces of the size *)
(* its loops expect for the format: encode_channel takes its counts from   *)
(* the surface and its addresses from the format.                          *)
SurfacesFitTarget ==
  stage = "pack" => \A c \in Channels : \/ IsEmpty(image.planes[c])
                                        \/ Fits(image.planes[c], target.w, target.h, target.siting, c)

Timeline == Append(history, image)
Sources(s) == UNION {DOMAIN s.at[q] : q \in Pixels(s.w, s.h)}

(* The points lie among the pixels of the macro pixel, and in a high one   *)
(* in the same row.                                                        *)
WellPlaced(siting) ==
  /\ {siting.u, siting.v} \subseteq (0 .. 2 * (siting.mw - 1)) \X (0 .. 2 * (siting.mh - 1))
  /\ siting.mh > 2 => siting.u[2] = siting.v[2]

(* Every value is an average: its weights are positive and add up to one,  *)
(* however often the image was resampled and wherever its edges are, if    *)
(* the sitings are well placed; for other points weights are negative or   *)
(* lost.                                                                   *)
ValuesAreAverages ==
  (\A i \in DOMAIN Timeline : WellPlaced(Timeline[i].siting)) =>
    \A c \in Channels : LET s == image.planes[c]
                        IN  \A q \in Pixels(s.w, s.h) :
                              /\ \A t \in DOMAIN s.at[q] : s.at[q][t] > 0
                              /\ MapThenSumSet(LAMBDA t : s.at[q][t], DOMAIN s.at[q]) = ONE

Inside(img) == \A c \in Channels : Outside \notin Sources(img.planes[c])

(* sample() reads beyond the end of a surface only when it scales to twice *)
(* the width or height, or more; nothing else ever does.                   *)
OutsideOnlyWhenDoubling ==
  [][Inside(image) /\ image'.w < 2 * image.w /\ image'.h < 2 * image.h => Inside(image')]_vars

(* The image has been of one size all the time.                            *)
OneSize == \A i \in DOMAIN Timeline : Timeline[i].w = image.w /\ Timeline[i].h = image.h

Genuine(s) == Sources(s) \cap {Outside, Poison, Opaque} = {}

(* The chroma of a macro pixel that was taken from a full resolution image *)
(* is centred on the siting's sample point, u and v each on its own.       *)
SampledAtPoint ==
  LET st == image.siting
      whole == {q \in Pixels(image.w, image.h) : (q[1] + 1) * st.mw <= image.w /\ (q[2] + 1) * st.mh <= image.h}
      centred(c, p) ==
        LET s == image.planes[c]
            moment(q, i) == MapThenSumSet(LAMBDA t : 2 * t[i] * s.at[q][t], DOMAIN s.at[q])
        IN  ~ IsEmpty(s) /\ Genuine(s) =>
              \A q \in whole : /\ moment(q, 1) = ONE * (2 * st.mw * q[1] + p[1])
                               /\ moment(q, 2) = ONE * (2 * st.mh * q[2] + p[2])
      before == {1} \cup {i \in DOMAIN history : i < Len(history) \/ history[i] # image}
  IN  /\ OneSize
      /\ WellPlaced(st)
      /\ \A i \in before : Is444(history[i].siting) /\ WellPlaced(history[i].siting)
      => centred(ChannelU, st.u) /\ centred(ChannelV, st.v)

(* At full resolution nothing gets lost: converted to it and back to the   *)
(* siting it had before, an image has the chroma, luma and alpha it had,   *)
(* also where its edges cut through a macro pixel.                         *)
FullResolutionKeepsAll ==
  \A i, j \in DOMAIN history :
    /\ i < j
    /\ history[i].siting = history[j].siting
    /\ \A k \in i .. j : /\ history[k].w = history[i].w /\ history[k].h = history[i].h
                         /\ history[k].siting \in {Full, history[i].siting}
                         /\ WellPlaced(history[k].siting)
    => \A c \in Channels :
         (\A k \in i .. j : ~ IsEmpty(history[k].planes[c])) => history[i].planes[c] = history[j].planes[c]

(* Scaled and up-sampled, in any order, the chroma of a pixel still comes  *)
(* from the macro pixel its luma comes from.                               *)
ChromaFollowsLuma ==
  LET first == history[1].siting
      from(c, q) == DOMAIN image.planes[c].at[q] \ {Outside, Poison, Opaque}
  IN  /\ Is444(image.siting) /\ \A i \in 2 .. Len(history) : Is444(history[i].siting)
      /\ ~ IsEmpty(image.planes[ChannelY])
      => \A c \in {ChannelU, ChannelV} : ~ IsEmpty(image.planes[c]) =>
           \A q \in Pixels(image.w, image.h) : \A l \in from(ChannelY, q), s \in from(c, q) :
             s = <<l[1] \div first.mw, l[2] \div first.mh>>

=============================================================================
