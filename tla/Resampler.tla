------------------------------ MODULE Resampler -----------------------------
(***************************************************************************)
(* Changing the resolution of an image's chroma (up_sample, down_sample)   *)
(* and of a whole image (surface::scale, scale_yuv_image).                 *)
(*                                                                         *)
(* All of it is linear, so a pixel value is kept as what it is made of: a  *)
(* bag of source pixels, ONE of them in all for an unscaled value.  An     *)
(* image is [w, h, siting, planes], with a surface [w, h, at] per channel; *)
(* the surface of an absent channel is Empty.  A siting is                 *)
(* [mw, mh, u, v]: the size of a macro pixel and its two sample points,    *)
(* in units of half a pixel from the centre of its first pixel.            *)
(***************************************************************************)
EXTENDS FormatLayout, FiniteSetsExt

CONSTANTS
  ONE,      \* the weight of a whole pixel
  Outside   \* what is read beyond the end of a surface's memory

Pixels(w, h) == (0 .. w - 1) \X (0 .. h - 1)
Only(source) == [s \in {source} |-> ONE]

Empty == [w |-> 0, h |-> 0, at |-> <<>>]
IsEmpty(s) == s.w = 0 \/ s.h = 0

Is444(siting) == siting.mw = 1 /\ siting.mh = 1
Full == [mw |-> 1, mh |-> 1, u |-> <<0, 0>>, v |-> <<0, 0>>]

(* The dimensions of channel c's surface, by create_yuv_image.             *)
PlaneW(w, siting, c) == IF c \in {ChannelU, ChannelV} THEN CeilDiv(w, siting.mw) ELSE w
PlaneH(h, siting, c) == IF c \in {ChannelU, ChannelV} THEN CeilDiv(h, siting.mh) ELSE h

(* surface::get: coordinates become an index without further checks.       *)
Get(s, x, y) ==
  LET i == y * s.w + x
  IN  IF i < s.w * s.h THEN s.at[<<i % s.w, i \div s.w>>] ELSE Only(Outside)

-----------------------------------------------------------------------------
(* Up-sampling: every pixel of a macro pixel gets a copy of its sample.    *)

UpSampleSurfaceMutant(s, w, h, siting) ==
  [w |-> w, h |-> h, at |-> [q \in Pixels(w, h) |->
     Get(s, (q[1] + 1) \div siting.mw, q[2] \div siting.mh)]]
UpSampleSurface(s, w, h, siting) ==
  [w |-> w, h |-> h, at |-> [q \in Pixels(w, h) |->
     Get(s, q[1] \div siting.mw, q[2] \div siting.mh)]]

UpSample(img) ==
  IF Is444(img.siting) THEN img
  ELSE [img EXCEPT !.siting = Full,
                   !.planes = [c \in Channels |->
                     IF c \in {ChannelU, ChannelV} /\ ~ IsEmpty(@[c])
                     THEN UpSampleSurface(@[c], img.w, img.h, img.siting) ELSE @[c]]]

-----------------------------------------------------------------------------
(* Down-sampling: a weighted average of the pixels of a macro pixel.       *)

AbsOf(n) == IF n < 0 THEN -n ELSE n

(* One minus the distance between a point and a pixel, in half pixels.     *)
Nearness(point, b) == 2 - AbsOf(point - 2 * b)

(* The weight of pixel b of a macro pixel, in quarters, for the channel    *)
(* with sample point own while the other one's is other.  A row is skipped *)
(* only if it is too far from both points.                                 *)
WeightMutant(own, other, b) ==
  IF Nearness(own[1], b[2]) <= 0 \/ Nearness(own[2], b[1]) < 0 THEN 0
  ELSE Nearness(own[1], b[2]) * Nearness(own[2], b[1])
WeightUnguarded(own, other, b) == Nearness(own[1], b[1]) * Nearness(own[2], b[2])
Weight(own, other, b) ==
  LET dx == Nearness(own[1], b[1])
      dy == Nearness(own[2], b[2])
  IN  IF (dy < 0 /\ Nearness(other[2], b[2]) < 0) \/ dx <= 0 THEN 0 ELSE dx * dy

(* The sum of the values, each as often as its weight in quarters says.    *)
Blend(weights, values) ==
  LET sources == UNION {DOMAIN values[b] : b \in DOMAIN values}
      share(s, b) == IF s \in DOMAIN values[b] THEN weights[b] * values[b][s] ELSE 0
      total == [s \in sources |-> MapThenSumSet(LAMBDA b : share(s, b), DOMAIN values) \div 4]
  IN  [s \in {t \in sources : total[t] # 0} |-> total[s]]

AtMost(n, limit) == IF n < limit THEN n ELSE limit

DownSampleSurface(s, w, h, siting, own, other) ==
  LET macro == Pixels(siting.mw, siting.mh)
      weights == [b \in macro |-> Weight(own, other, b)]
      around(x, y) == [b \in {m \in macro : weights[m] # 0} |->
                         Get(s, AtMost(x * siting.mw + b[1], w - 1), AtMost(y * siting.mh + b[2], h - 1))]
      sw == CeilDiv(w, siting.mw)
      sh == CeilDiv(h, siting.mh)
  IN  [w |-> sw, h |-> sh, at |-> [q \in Pixels(sw, sh) |-> Blend(weights, around(q[1], q[2]))]]

DownSample(image, siting) ==
  LET img == UpSample(image)
      below(c, own, other) == IF IsEmpty(img.planes[c]) THEN img.planes[c]
                              ELSE DownSampleSurface(img.planes[c], img.w, img.h, siting, own, other)
  IN  IF image.siting = siting THEN image
      ELSE [img EXCEPT !.siting = siting,
                       !.planes[ChannelU] = below(ChannelU, siting.u, siting.v),
                       !.planes[ChannelV] = below(ChannelV, siting.v, siting.u)]

-----------------------------------------------------------------------------
(* Scaling: the nearest neighbour of x / w of a line of old pixels, by     *)
(* surface::sample, which clamps to old and not to old - 1.  The quotients *)
(* are exact here; see the README for the sizes at which a float's are.    *)
NearestMutant(x, w, old) == AtMost((2 * x * old + 2 * w) \div (2 * w), old)
Nearest(x, w, old) == AtMost((2 * x * old + w) \div (2 * w), old)

ScaleSurface(s, w, h) ==
  [w |-> w, h |-> h, at |-> [q \in Pixels(w, h) |-> Get(s, Nearest(q[1], w, s.w), Nearest(q[2], h, s.h))]]

ScaleImageMutant(img, w, h) ==
  [UpSample(img) EXCEPT !.planes = [c \in Channels |-> IF IsEmpty(@[c]) THEN @[c] ELSE ScaleSurface(@[c], w, h)]]
ScaleImage(img, w, h) ==
  LET full == UpSample(img)
      scaled == [full EXCEPT !.w = w, !.h = h,
                   !.planes = [c \in Channels |-> IF IsEmpty(@[c]) THEN @[c] ELSE ScaleSurface(@[c], w, h)]]
  IN  IF img.w = w /\ img.h = h THEN img
      ELSE IF Is444(img.siting) THEN scaled ELSE DownSample(scaled, img.siting)

=============================================================================
