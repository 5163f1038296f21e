--------------------------- MODULE ConversionProofs -------------------------
(***************************************************************************)
(* Theorems about Conversion, for every choice of its constants: the       *)
(* surfaces of an image always fit it, they fit the format when it is      *)
(* packed, values from beyond a surface come in only by doubling, and at   *)
(* full resolution chroma stays with its luma. Every value is an average   *)
(* of what it was made of, a stay at full resolution loses nothing, and    *)
(* chroma that was sampled down is centred on the sample points.           *)
(***************************************************************************)
EXTENDS Conversion, FiniteSetTheorems, TLAPS, WellFoundedInduction

(* An image with all its fields, whose surfaces fit it.                    *)
WellFormed(img) ==
  /\ img = [w |-> img.w, h |-> img.h, siting |-> img.siting, planes |-> img.planes]
  /\ img.planes = [c \in Channels |-> img.planes[c]]
  /\ img.w \in Nat \ {0} /\ img.h \in Nat \ {0}
  /\ img.siting \in Sitings
  /\ SurfacesFit(img)

(* What the stages of encode_frame have achieved so far: when the siting   *)
(* is dealt with the size is right, and when the image is packed both are. *)
StageInv ==
  /\ stage \in {"idle", "size", "siting", "pack"}
  /\ target \in (IF stage = "idle" THEN {NoTarget} ELSE Targets)
  /\ calls \in 0 .. MaxCalls
  /\ stage # "idle" => calls < MaxCalls
  /\ stage \in {"siting", "pack"} => image.w = target.w /\ image.h = target.h
  /\ stage = "pack" => Converted

Inv == WellFormed(image) /\ StageInv

-----------------------------------------------------------------------------
(* Arithmetic of coordinates.                                              *)

(* A pixel's macro pixel is one of those that cover the line: up_sample    *)
(* reads inside the subsampled surface.                                    *)
LEMMA MacroPixelInside ==
  ASSUME NEW x \in Nat, NEW w \in Nat \ {0}, NEW m \in Nat \ {0}, x < w
  PROVE  /\ x \div m \in Nat
         /\ x \div m < CeilDiv(w, m)
<1> DEFINE q == x \div m
           r == (w + m - 1) \div m
<1>1. q \in Nat /\ m * q <= x
  BY Z3
<1>2. r \in Int /\ w + m - 1 < m * r + m
  BY Z3
<1>3. CASE q < r
  BY <1>1, <1>3 DEF CeilDiv
<1>4. CASE q >= r
  <2>1. m * q >= m * r
    BY <1>1, <1>2, <1>4, Z3
  <2> QED
    BY <1>1, <1>2, <2>1
<1> QED
  BY <1>1, <1>2, <1>3, <1>4

(* Rounding up cannot make a line of pixels empty.                         *)
LEMMA CeilDivPositive ==
  ASSUME NEW w \in Nat \ {0}, NEW m \in Nat \ {0}
  PROVE  CeilDiv(w, m) \in Nat \ {0}
<1>1. 0 \div m < CeilDiv(w, m) /\ 0 \div m \in Nat
  BY MacroPixelInside
<1>2. CeilDiv(w, m) \in Int
  BY DEF CeilDiv
<1> QED
  BY <1>1, <1>2

LEMMA CeilDivByOne ==
  ASSUME NEW w \in Nat
  PROVE  CeilDiv(w, 1) = w
BY DEF CeilDiv

(* The pixel that sample() takes is inside the old line if the new line is *)
(* shorter than twice the old one.                                         *)
LEMMA NearestInside ==
  ASSUME NEW w \in Nat \ {0}, NEW old \in Nat \ {0}, NEW x \in Nat, x < w, w < 2 * old
  PROVE  Nearest(x, w, old) \in Nat /\ Nearest(x, w, old) < old
<1> DEFINE a == 2 * x * old + w
           q == a \div (2 * w)
<1>1. x * old \in Nat /\ (x + 1) * old = x * old + old /\ (x + 1) * old <= w * old
  BY Z3
<1>2. a \in Nat /\ 2 * w \in Nat \ {0}
  BY <1>1
<1>3. q \in Nat /\ (2 * w) * q <= a
  BY <1>2, Z3
<1>4. CASE q < old
  BY <1>3, <1>4 DEF Nearest, AtMost
<1>5. CASE q >= old
  <2>1. w * q >= w * old
    BY <1>3, <1>5, Z3
  <2>2. w * q \in Nat /\ w * old \in Nat /\ (2 * w) * q = 2 * (w * q)
    BY <1>3
  <2> QED
    BY <1>1, <1>3, <2>1, <2>2
<1> QED
  BY <1>3, <1>4, <1>5

(* get() with coordinates inside a surface takes a value of the surface.   *)
LEMMA GetInside ==
  ASSUME NEW s, s.w \in Nat, s.h \in Nat, NEW x \in Nat, NEW y \in Nat, x < s.w, y < s.h
  PROVE  \E q \in Pixels(s.w, s.h) : Get(s, x, y) = s.at[q]
<1> DEFINE w == s.w
           h == s.h
           i == y * w + x
<1>1. y * w \in Nat /\ (y + 1) * w = y * w + w /\ (y + 1) * w <= w * h
  BY Z3
<1>2. i \in Nat /\ i < w * h
  BY <1>1
<1>3. i % w \in 0 .. w - 1
  BY <1>2, Z3
<1>4. i \div w \in Nat /\ w * (i \div w) <= i
  BY <1>2, Z3
<1>5. i \div w < h
  <2>1. CASE i \div w >= h
    <3>1. w * (i \div w) >= w * h
      BY <1>4, <2>1, Z3
    <3> QED
      BY <1>2, <1>4, <3>1
  <2> QED
    BY <1>4, <2>1
<1>6. <<i % w, i \div w>> \in Pixels(s.w, s.h)
  BY <1>3, <1>4, <1>5 DEF Pixels
<1> QED
  BY <1>2, <1>6 DEF Get

LEMMA SitingTypes ==
  ASSUME NEW st \in Sitings
  PROVE  st.mw \in Nat \ {0} /\ st.mh \in Nat \ {0}
BY ConversionAssumption DEF Sitings, Full

LEMMA FullSiting ==
  /\ Full \in Sitings
  /\ Is444(Full)
BY DEF Sitings, Full, Is444

-----------------------------------------------------------------------------
(* Each operation on an image leaves it well formed and, but for scaling   *)
(* to twice its size, takes all it reads from inside.                      *)

(* An image of which some fields are replaced.                             *)
Resized(img, x, y, z) == [img EXCEPT !.w = x, !.h = y, !.planes = z]
Resited(img, x, i, a, j, b) == [img EXCEPT !.siting = x, !.planes[i] = a, !.planes[j] = b]

LEMMA ChangedSize ==
  ASSUME NEW img, img = [w |-> img.w, h |-> img.h, siting |-> img.siting, planes |-> img.planes],
         NEW x, NEW y, NEW z
  PROVE  Resized(img, x, y, z) = [w |-> x, h |-> y, siting |-> img.siting, planes |-> z]
<1> DEFINE e == [img EXCEPT !.w = x, !.h = y, !.planes = z]
<1>1. DOMAIN img = {"w", "h", "siting", "planes"}
  BY Zenon
<1>2. e.w = x
  BY <1>1
<1>3. e.h = y
  BY <1>1
<1>4. e.planes = z
  BY <1>1
<1>5. e.siting = img.siting
  BY <1>1
<1>6. e = [f \in {"w", "h", "siting", "planes"} |-> e[f]]
  BY <1>1
<1> HIDE DEF e
<1>7. e = [w |-> e.w, h |-> e.h, siting |-> e.siting, planes |-> e.planes]
  BY <1>6
<1>8. e = [w |-> x, h |-> y, siting |-> img.siting, planes |-> z]
  BY <1>2, <1>3, <1>4, <1>5, <1>7
<1> QED
  BY <1>8 DEF e, Resized

LEMMA ChangedChroma ==
  ASSUME NEW img, img = [w |-> img.w, h |-> img.h, siting |-> img.siting, planes |-> img.planes],
         NEW x, NEW i, NEW a, NEW j, NEW b
  PROVE  Resited(img, x, i, a, j, b) = [w |-> img.w, h |-> img.h, siting |-> x, planes |-> [img.planes EXCEPT ![i] = a, ![j] = b]]
<1> DEFINE e == [img EXCEPT !.siting = x, !.planes[i] = a, !.planes[j] = b]
<1>1. DOMAIN img = {"w", "h", "siting", "planes"}
  BY Zenon
<1>2. e.w = img.w
  BY <1>1
<1>3. e.h = img.h
  BY <1>1
<1>4. e.planes = [img.planes EXCEPT ![i] = a, ![j] = b]
  BY <1>1
<1>5. e.siting = x
  BY <1>1
<1>6. e = [f \in {"w", "h", "siting", "planes"} |-> e[f]]
  BY <1>1
<1> HIDE DEF e
<1>7. e = [w |-> e.w, h |-> e.h, siting |-> e.siting, planes |-> e.planes]
  BY <1>6
<1>8. e = [w |-> img.w, h |-> img.h, siting |-> x, planes |-> [img.planes EXCEPT ![i] = a, ![j] = b]]
  BY <1>2, <1>3, <1>4, <1>5, <1>7
<1> QED
  BY <1>8 DEF e, Resited

LEMMA FromInside ==
  ASSUME NEW s, Outside \notin Sources(s), NEW q \in Pixels(s.w, s.h)
  PROVE  Outside \notin DOMAIN s.at[q]
BY DEF Sources

LEMMA UpSampleStaysInside ==
  ASSUME NEW s, NEW w \in Nat \ {0}, NEW h \in Nat \ {0}, NEW st \in Sitings,
         s.w = CeilDiv(w, st.mw), s.h = CeilDiv(h, st.mh), Outside \notin Sources(s)
  PROVE  Outside \notin Sources(UpSampleSurface(s, w, h, st))
<1> DEFINE t == UpSampleSurface(s, w, h, st)
<1>1. t.w = w /\ t.h = h /\ \A q \in Pixels(w, h) : t.at[q] = Get(s, q[1] \div st.mw, q[2] \div st.mh)
  BY DEF UpSampleSurface
<1>2. s.w \in Nat /\ s.h \in Nat
  BY CeilDivPositive, SitingTypes
<1>3. ASSUME NEW q \in Pixels(w, h)
      PROVE  Outside \notin DOMAIN t.at[q]
  <2>1. q[1] \in Nat /\ q[1] < w /\ q[2] \in Nat /\ q[2] < h
    BY DEF Pixels
  <2>2. /\ q[1] \div st.mw \in Nat /\ q[1] \div st.mw < s.w
        /\ q[2] \div st.mh \in Nat /\ q[2] \div st.mh < s.h
    BY <2>1, MacroPixelInside, SitingTypes
  <2>3. PICK p \in Pixels(s.w, s.h) : Get(s, q[1] \div st.mw, q[2] \div st.mh) = s.at[p]
    BY <1>2, <2>2, GetInside
  <2> QED
    BY <1>1, <2>3, FromInside
<1> QED
  BY <1>1, <1>3 DEF Sources

LEMMA UpSampleKeeps ==
  ASSUME NEW img, WellFormed(img)
  PROVE  /\ WellFormed(UpSample(img))
         /\ Is444(UpSample(img).siting)
         /\ UpSample(img).w = img.w /\ UpSample(img).h = img.h
         /\ Inside(img) => Inside(UpSample(img))
<1>1. CASE Is444(img.siting)
  BY <1>1 DEF UpSample
<1>2. CASE ~ Is444(img.siting)
  <2> DEFINE full(c) == IF c \in {ChannelU, ChannelV} /\ ~ IsEmpty(img.planes[c])
                        THEN UpSampleSurface(img.planes[c], img.w, img.h, img.siting) ELSE img.planes[c]
             u == [w |-> img.w, h |-> img.h, siting |-> Full, planes |-> [c \in Channels |-> full(c)]]
  <2>1. UpSample(img) = u
    BY <1>2 DEF UpSample, WellFormed
  <2>2. img.w \in Nat \ {0} /\ img.h \in Nat \ {0} /\ img.siting \in Sitings /\ SurfacesFit(img)
    BY DEF WellFormed
  <2>3. ASSUME NEW c \in Channels
        PROVE  /\ IsEmpty(full(c)) \/ Fits(full(c), img.w, img.h, Full, c)
               /\ Outside \notin Sources(img.planes[c]) => Outside \notin Sources(full(c))
    <3>0. IsEmpty(img.planes[c]) \/ Fits(img.planes[c], img.w, img.h, img.siting, c)
      BY <2>2 DEF SurfacesFit
    <3>1. CASE c \in {ChannelU, ChannelV} /\ ~ IsEmpty(img.planes[c])
      <4>1. full(c) = UpSampleSurface(img.planes[c], img.w, img.h, img.siting)
        BY <3>1
      <4>2. full(c).w = img.w /\ full(c).h = img.h
        BY <4>1 DEF UpSampleSurface
      <4>3. Fits(full(c), img.w, img.h, Full, c)
        BY <2>2, <4>2, CeilDivByOne DEF Fits, PlaneW, PlaneH, Full
      <4>4. img.planes[c].w = CeilDiv(img.w, img.siting.mw) /\ img.planes[c].h = CeilDiv(img.h, img.siting.mh)
        BY <3>0, <3>1 DEF Fits, PlaneW, PlaneH
      <4> QED
        BY <2>2, <4>1, <4>3, <4>4, UpSampleStaysInside
    <3>2. CASE ~ (c \in {ChannelU, ChannelV} /\ ~ IsEmpty(img.planes[c]))
      <4>1. full(c) = img.planes[c]
        BY <3>2
      <4> QED
        BY <3>0, <3>2, <4>1 DEF Fits, PlaneW, PlaneH
    <3> QED
      BY <3>1, <3>2
  <2>4. WellFormed(u)
    <3>1. SurfacesFit(u)
      BY <2>3 DEF SurfacesFit
    <3> QED
      BY <2>2, <3>1, FullSiting DEF WellFormed
  <2>5. Inside(img) => Inside(u)
    BY <2>3 DEF Inside
  <2> QED
    BY <2>1, <2>4, <2>5, FullSiting
<1> QED
  BY <1>1, <1>2

LEMMA DownSampleStaysInside ==
  ASSUME NEW s, NEW w \in Nat \ {0}, NEW h \in Nat \ {0}, NEW st \in Sitings, NEW own, NEW other,
         s.w = w, s.h = h, Outside \notin Sources(s)
  PROVE  Outside \notin Sources(DownSampleSurface(s, w, h, st, own, other))
<1> DEFINE t == DownSampleSurface(s, w, h, st, own, other)
           macro == Pixels(st.mw, st.mh)
           weights == [b \in macro |-> Weight(own, other, b)]
           around(x, y) == [b \in {m \in macro : weights[m] # 0} |->
                              Get(s, AtMost(x * st.mw + b[1], w - 1), AtMost(y * st.mh + b[2], h - 1))]
           sw == CeilDiv(w, st.mw)
           sh == CeilDiv(h, st.mh)
<1>1. /\ t.w = sw /\ t.h = sh
      /\ \A q \in Pixels(sw, sh) : t.at[q] = Blend(weights, around(q[1], q[2]))
  BY DEF DownSampleSurface
<1>2. ASSUME NEW q \in Pixels(sw, sh)
      PROVE  Outside \notin DOMAIN t.at[q]
  <2> DEFINE values == around(q[1], q[2])
  <2>1. q[1] \in Nat /\ q[2] \in Nat
    BY DEF Pixels
  <2>2. ASSUME NEW b \in DOMAIN values
        PROVE  Outside \notin DOMAIN values[b]
    <3>1. b \in macro
      OBVIOUS
    <3>2. b[1] \in Nat /\ b[2] \in Nat
      BY <3>1 DEF Pixels
    <3> DEFINE x == q[1] * st.mw + b[1]
               y == q[2] * st.mh + b[2]
    <3>3. x \in Nat /\ y \in Nat
      BY <2>1, <3>2, SitingTypes, Z3
    <3>4. /\ AtMost(x, w - 1) \in Nat /\ AtMost(x, w - 1) < w
          /\ AtMost(y, h - 1) \in Nat /\ AtMost(y, h - 1) < h
      BY <3>3 DEF AtMost
    <3>5. PICK p \in Pixels(s.w, s.h) : Get(s, AtMost(x, w - 1), AtMost(y, h - 1)) = s.at[p]
      BY <3>4, GetInside
    <3>6. values[b] = Get(s, AtMost(x, w - 1), AtMost(y, h - 1))
      OBVIOUS
    <3> QED
      BY <3>5, <3>6, FromInside
  <2>3. DOMAIN Blend(weights, values) \subseteq UNION {DOMAIN values[b] : b \in DOMAIN values}
    BY DEF Blend
  <2>4. t.at[q] = Blend(weights, values)
    BY <1>1
  <2>5. Outside \notin UNION {DOMAIN values[b] : b \in DOMAIN values}
    BY <2>2
  <2> HIDE DEF t, weights, values
  <2> QED
    BY <2>3, <2>4, <2>5
<1> QED
  BY <1>1, <1>2 DEF Sources

LEMMA DownSampleKeeps ==
  ASSUME NEW img, WellFormed(img), NEW st \in Sitings
  PROVE  /\ WellFormed(DownSample(img, st))
         /\ DownSample(img, st).siting = st
         /\ DownSample(img, st).w = img.w /\ DownSample(img, st).h = img.h
         /\ Inside(img) => Inside(DownSample(img, st))
<1>1. CASE img.siting = st
  BY <1>1 DEF DownSample
<1>2. CASE img.siting # st
  <2> DEFINE up == UpSample(img)
             below(c, own, other) == IF IsEmpty(up.planes[c]) THEN up.planes[c]
                                     ELSE DownSampleSurface(up.planes[c], up.w, up.h, st, own, other)
             plane(c) == CASE c = ChannelU -> below(ChannelU, st.u, st.v)
                           [] c = ChannelV -> below(ChannelV, st.v, st.u)
                           [] OTHER -> up.planes[c]
             d == [w |-> up.w, h |-> up.h, siting |-> st, planes |-> [c \in Channels |-> plane(c)]]
  <2>1. /\ WellFormed(up) /\ Is444(up.siting)
        /\ up.w = img.w /\ up.h = img.h
        /\ Inside(img) => Inside(up)
    BY UpSampleKeeps
  <2> HIDE DEF up
  <2>2. DownSample(img, st) = d
    <3>1. DownSample(img, st) = [up EXCEPT !.siting = st,
                                           !.planes[ChannelU] = below(ChannelU, st.u, st.v),
                                           !.planes[ChannelV] = below(ChannelV, st.v, st.u)]
      BY <1>2 DEF DownSample, up
    <3>2. up = [w |-> up.w, h |-> up.h, siting |-> up.siting, planes |-> up.planes]
          /\ up.planes = [c \in Channels |-> up.planes[c]]
      BY <2>1 DEF WellFormed
    <3> DEFINE a == below(ChannelU, st.u, st.v)
               b == below(ChannelV, st.v, st.u)
    <3>3. [c \in Channels |-> plane(c)] = [c \in Channels |-> IF c = ChannelU THEN a ELSE IF c = ChannelV THEN b
                                                           ELSE up.planes[c]]
      BY DEF ChannelU, ChannelV
    <3> HIDE DEF below, plane, a, b
    <3>4. [c \in Channels |-> plane(c)] = [up.planes EXCEPT ![ChannelU] = a, ![ChannelV] = b]
      BY <3>2, <3>3 DEF Channels, ChannelY, ChannelU, ChannelV, ChannelA
    <3> DEFINE changed == [up EXCEPT !.siting = st, !.planes[ChannelU] = a, !.planes[ChannelV] = b]
    <3>5. changed = [w |-> up.w, h |-> up.h, siting |-> st,
                     planes |-> [up.planes EXCEPT ![ChannelU] = a, ![ChannelV] = b]]
      <4>1. changed = Resited(up, st, ChannelU, a, ChannelV, b)
        BY DEF Resited
      <4> HIDE DEF changed
      <4> QED
        BY <3>2, <4>1, ChangedChroma
    <3>6. changed = d
      BY <3>4, <3>5
    <3>7. DownSample(img, st) = changed
      BY <3>1 DEF a, b
    <3> QED
      BY <3>6, <3>7
  <2>3. up.w \in Nat \ {0} /\ up.h \in Nat \ {0} /\ SurfacesFit(up)
    BY <2>1 DEF WellFormed
  <2>4. ASSUME NEW c \in {ChannelU, ChannelV}, NEW own, NEW other
        PROVE  /\ IsEmpty(below(c, own, other)) \/ Fits(below(c, own, other), up.w, up.h, st, c)
               /\ Outside \notin Sources(up.planes[c]) => Outside \notin Sources(below(c, own, other))
    <3> DEFINE s == up.planes[c]
    <3>1. CASE IsEmpty(s)
      BY <3>1
    <3>2. CASE ~ IsEmpty(s)
      <4>1. below(c, own, other) = DownSampleSurface(s, up.w, up.h, st, own, other)
        BY <3>2
      <4>2. Fits(s, up.w, up.h, up.siting, c)
        BY <2>3, <3>2 DEF SurfacesFit, Channels, ChannelU, ChannelV, ChannelA, ChannelY
      <4>3. s.w = up.w /\ s.h = up.h
        BY <2>1, <2>3, <4>2, CeilDivByOne DEF Fits, PlaneW, PlaneH, Is444
      <4>4. Fits(DownSampleSurface(s, up.w, up.h, st, own, other), up.w, up.h, st, c)
        BY DEF Fits, PlaneW, PlaneH, DownSampleSurface
      <4> QED
        BY <2>3, <4>1, <4>3, <4>4, DownSampleStaysInside
    <3> QED
      BY <3>1, <3>2
  <2>5. ASSUME NEW c \in Channels
        PROVE  /\ IsEmpty(plane(c)) \/ Fits(plane(c), up.w, up.h, st, c)
               /\ Outside \notin Sources(up.planes[c]) => Outside \notin Sources(plane(c))
    <3>1. CASE c \in {ChannelU, ChannelV}
      <4>1. plane(c) = below(c, st.u, st.v) \/ plane(c) = below(c, st.v, st.u)
        BY <3>1 DEF ChannelU, ChannelV
      <4> HIDE DEF below, plane
      <4> QED
        BY <2>4, <3>1, <4>1
    <3>2. CASE c \notin {ChannelU, ChannelV}
      <4>1. plane(c) = up.planes[c]
        BY <3>2
      <4>2. IsEmpty(up.planes[c]) \/ Fits(up.planes[c], up.w, up.h, up.siting, c)
        BY <2>3 DEF SurfacesFit
      <4> QED
        BY <3>2, <4>1, <4>2 DEF Fits, PlaneW, PlaneH
    <3> QED
      BY <3>1, <3>2
  <2> HIDE DEF plane
  <2>6. WellFormed(d)
    <3>1. SurfacesFit(d)
      BY <2>5 DEF SurfacesFit
    <3> QED
      BY <2>3, <3>1 DEF WellFormed
  <2>7. Inside(up) => Inside(d)
    BY <2>5 DEF Inside
  <2> QED
    BY <2>1, <2>2, <2>6, <2>7
<1> QED
  BY <1>1, <1>2

LEMMA ScaleStaysInside ==
  ASSUME NEW s, NEW w \in Nat \ {0}, NEW h \in Nat \ {0}, s.w \in Nat \ {0}, s.h \in Nat \ {0},
         w < 2 * s.w, h < 2 * s.h, Outside \notin Sources(s)
  PROVE  Outside \notin Sources(ScaleSurface(s, w, h))
<1> DEFINE t == ScaleSurface(s, w, h)
<1>1. /\ t.w = w /\ t.h = h
      /\ \A q \in Pixels(w, h) : t.at[q] = Get(s, Nearest(q[1], w, s.w), Nearest(q[2], h, s.h))
  BY DEF ScaleSurface
<1>2. ASSUME NEW q \in Pixels(w, h)
      PROVE  Outside \notin DOMAIN t.at[q]
  <2>1. q[1] \in Nat /\ q[1] < w /\ q[2] \in Nat /\ q[2] < h
    BY DEF Pixels
  <2>2. /\ Nearest(q[1], w, s.w) \in Nat /\ Nearest(q[1], w, s.w) < s.w
        /\ Nearest(q[2], h, s.h) \in Nat /\ Nearest(q[2], h, s.h) < s.h
    BY <2>1, NearestInside
  <2>3. PICK p \in Pixels(s.w, s.h) : Get(s, Nearest(q[1], w, s.w), Nearest(q[2], h, s.h)) = s.at[p]
    BY <2>2, GetInside
  <2> QED
    BY <1>1, <2>3, FromInside
<1> QED
  BY <1>1, <1>2 DEF Sources

LEMMA ScaleKeeps ==
  ASSUME NEW img, WellFormed(img), NEW w \in Nat \ {0}, NEW h \in Nat \ {0}
  PROVE  /\ WellFormed(ScaleImage(img, w, h))
         /\ ScaleImage(img, w, h).w = w /\ ScaleImage(img, w, h).h = h
         /\ ScaleImage(img, w, h).siting = img.siting
         /\ Inside(img) /\ w < 2 * img.w /\ h < 2 * img.h => Inside(ScaleImage(img, w, h))
<1> DEFINE full == UpSample(img)
           plane(c) == IF IsEmpty(full.planes[c]) THEN full.planes[c] ELSE ScaleSurface(full.planes[c], w, h)
           scaled == [w |-> w, h |-> h, siting |-> full.siting, planes |-> [c \in Channels |-> plane(c)]]
<1>1. /\ WellFormed(full) /\ Is444(full.siting)
      /\ full.w = img.w /\ full.h = img.h
      /\ Inside(img) => Inside(full)
      /\ Is444(img.siting) => full = img
  BY UpSampleKeeps DEF UpSample
<1> HIDE DEF full
<1>2. full = [w |-> full.w, h |-> full.h, siting |-> full.siting, planes |-> full.planes]
      /\ SurfacesFit(full) /\ full.w \in Nat \ {0} /\ full.h \in Nat \ {0} /\ full.siting \in Sitings
  BY <1>1 DEF WellFormed
<1>3. ScaleImage(img, w, h) = IF img.w = w /\ img.h = h THEN img
                              ELSE IF Is444(img.siting) THEN scaled ELSE DownSample(scaled, img.siting)
  <2> DEFINE changed == [full EXCEPT !.w = w, !.h = h, !.planes = [c \in Channels |-> plane(c)]]
  <2>0. changed = [w |-> w, h |-> h, siting |-> full.siting, planes |-> [c \in Channels |-> plane(c)]]
    <3> DEFINE z == [c \in Channels |-> plane(c)]
    <3>1. changed = Resized(full, w, h, z)
      BY DEF Resized
    <3> HIDE DEF z, changed
    <3>2. Resized(full, w, h, z) = [w |-> w, h |-> h, siting |-> full.siting, planes |-> z]
      BY <1>2, ChangedSize
    <3> QED
      BY <3>1, <3>2 DEF z
  <2>1. scaled = changed
    BY <2>0
  <2>2. ScaleImage(img, w, h) = IF img.w = w /\ img.h = h THEN img
                                ELSE IF Is444(img.siting) THEN changed ELSE DownSample(changed, img.siting)
    BY DEF ScaleImage, full
  <2> HIDE DEF scaled, changed
  <2> QED
    BY <2>1, <2>2
<1>4. ASSUME NEW c \in Channels
      PROVE  /\ IsEmpty(plane(c)) \/ Fits(plane(c), w, h, full.siting, c)
             /\ Outside \notin Sources(full.planes[c]) /\ w < 2 * full.w /\ h < 2 * full.h
                  => Outside \notin Sources(plane(c))
  <2> DEFINE s == full.planes[c]
  <2>1. CASE IsEmpty(s)
    BY <2>1
  <2>2. CASE ~ IsEmpty(s)
    <3>1. plane(c) = ScaleSurface(s, w, h)
      BY <2>2
    <3>2. s.w = full.w /\ s.h = full.h
      BY <1>1, <1>2, <2>2, CeilDivByOne DEF SurfacesFit, Fits, PlaneW, PlaneH, Is444
    <3>3. Fits(ScaleSurface(s, w, h), w, h, full.siting, c)
      BY <1>1, CeilDivByOne DEF Fits, PlaneW, PlaneH, Is444, ScaleSurface
    <3> QED
      BY <1>2, <3>1, <3>2, <3>3, ScaleStaysInside
  <2> QED
    BY <2>1, <2>2
<1> HIDE DEF plane
<1>5. WellFormed(scaled)
  <2>1. SurfacesFit(scaled)
    BY <1>4 DEF SurfacesFit
  <2> QED
    BY <1>2, <2>1 DEF WellFormed
<1>6. Inside(full) /\ w < 2 * full.w /\ h < 2 * full.h => Inside(scaled)
  BY <1>4 DEF Inside
<1>7. scaled.w = w /\ scaled.h = h /\ scaled.siting = full.siting
  OBVIOUS
<1> HIDE DEF scaled
<1>8. img.siting \in Sitings
  BY DEF WellFormed
<1>9. CASE img.w = w /\ img.h = h
  BY <1>3, <1>9
<1>10. CASE ~ (img.w = w /\ img.h = h) /\ Is444(img.siting)
  BY <1>1, <1>3, <1>5, <1>6, <1>7, <1>10
<1>11. CASE ~ (img.w = w /\ img.h = h) /\ ~ Is444(img.siting)
  <2>1. ScaleImage(img, w, h) = DownSample(scaled, img.siting)
    BY <1>3, <1>11
  <2>2. /\ WellFormed(DownSample(scaled, img.siting))
        /\ DownSample(scaled, img.siting).w = w /\ DownSample(scaled, img.siting).h = h
        /\ DownSample(scaled, img.siting).siting = img.siting
        /\ Inside(scaled) => Inside(DownSample(scaled, img.siting))
    BY <1>5, <1>7, <1>8, DownSampleKeeps
  <2> QED
    BY <1>1, <1>6, <1>11, <2>1, <2>2
<1> QED
  BY <1>9, <1>10, <1>11

-----------------------------------------------------------------------------
(* The invariant.                                                          *)

LEMMA TargetTypes ==
  ASSUME NEW f \in Shapes
  PROVE  f.w \in Nat \ {0} /\ f.h \in Nat \ {0} /\ f.siting \in Sitings
BY ConversionAssumption DEF Sitings

LEMMA OriginalWellFormed ==
  ASSUME NEW f \in Originals
  PROVE  WellFormed(ImageOf(f))
<1> DEFINE img == ImageOf(f)
           plane(c) == IF c \notin f.channels THEN Empty
                       ELSE [w |-> PlaneW(f.w, f.siting, c), h |-> PlaneH(f.h, f.siting, c),
                             at |-> [q \in Pixels(PlaneW(f.w, f.siting, c), PlaneH(f.h, f.siting, c)) |-> Only(q)]]
<1>1. img = [w |-> f.w, h |-> f.h, siting |-> f.siting, planes |-> [c \in Channels |-> plane(c)]]
  BY DEF ImageOf
<1>2. f.w \in Nat \ {0} /\ f.h \in Nat \ {0} /\ f.siting \in Sitings
  BY TargetTypes DEF Shapes
<1>3. ASSUME NEW c \in Channels
      PROVE  IsEmpty(plane(c)) \/ Fits(plane(c), f.w, f.h, f.siting, c)
  BY DEF IsEmpty, Empty, Fits
<1> HIDE DEF plane
<1>4. SurfacesFit(img)
  BY <1>1, <1>3 DEF SurfacesFit
<1> QED
  BY <1>1, <1>2, <1>4 DEF WellFormed

LEMMA UnpackedKeeps ==
  ASSUME target \in Targets, NEW c \in Channels
  PROVE  /\ IsEmpty(Unpacked(c)) \/ Fits(Unpacked(c), target.w, target.h, target.siting, c)
         /\ Outside \notin Sources(image.planes[c]) => Outside \notin Sources(Unpacked(c))
<1>1. CASE c \notin target.channels
  <2>1. Unpacked(c) = Empty
    BY <1>1 DEF Unpacked
  <2>2. Pixels(0, 0) = {}
    BY DEF Pixels
  <2> QED
    BY <2>1, <2>2 DEF Empty, IsEmpty, Sources
<1>2. CASE c \in target.channels
  <2> DEFINE s == image.planes[c]
             w == PlaneW(target.w, target.siting, c)
             h == PlaneH(target.h, target.siting, c)
             missing == IF c = ChannelA THEN Only(Opaque) ELSE Only(Poison)
             value(q) == IF IsEmpty(s) THEN missing ELSE IF q \in Pixels(s.w, s.h) THEN s.at[q] ELSE Only(Poison)
  <2>1. Unpacked(c) = [w |-> w, h |-> h, at |-> [q \in Pixels(w, h) |-> value(q)]]
    BY <1>2 DEF Unpacked
  <2>2. Outside \notin DOMAIN Only(Opaque) /\ Outside \notin DOMAIN Only(Poison)
    BY ConversionAssumption DEF Only
  <2>3. ASSUME Outside \notin Sources(s), NEW q \in Pixels(w, h)
        PROVE  Outside \notin DOMAIN value(q)
    BY <2>2, <2>3, FromInside
  <2> HIDE DEF value
  <2>4. Outside \notin Sources(s) => Outside \notin Sources(Unpacked(c))
    BY <2>1, <2>3 DEF Sources
  <2> QED
    BY <2>1, <2>4 DEF Fits
<1> QED
  BY <1>1, <1>2

(* A step's effect on the image: it stays well formed, and nothing comes   *)
(* from outside unless the size doubles.                                   *)
ImageStep ==
  /\ WellFormed(image')
  /\ Inside(image) /\ image'.w < 2 * image.w /\ image'.h < 2 * image.h => Inside(image')

LEMMA InvInit == Init => Inv
<1> SUFFICES ASSUME Init PROVE Inv
  OBVIOUS
<1>1. WellFormed(image)
  BY OriginalWellFormed DEF Init
<1>2. StageInv
  BY ConversionAssumption DEF Init, StageInv
<1> QED
  BY <1>1, <1>2 DEF Inv

LEMMA InvStep == Inv /\ [Next]_vars => Inv' /\ ImageStep
<1> SUFFICES ASSUME Inv, [Next]_vars PROVE Inv' /\ ImageStep
  OBVIOUS
<1>0. WellFormed(image) /\ StageInv
  BY DEF Inv
<1>1. ASSUME image' = image PROVE ImageStep
  BY <1>0, <1>1 DEF ImageStep
<1>2. CASE StartEncode
  <2>1. ImageStep
    BY <1>1, <1>2 DEF StartEncode
  <2>2. StageInv'
    BY <1>0, <1>2, ConversionAssumption DEF StartEncode, StageInv, FirstStage, Converted
  <2> QED
    BY <2>1, <2>2 DEF Inv, ImageStep
<1>3. CASE UpSampleToScale
  <2>1. /\ WellFormed(image')
        /\ image'.w = image.w /\ image'.h = image.h
        /\ Inside(image) => Inside(image')
    BY <1>0, <1>3, UpSampleKeeps DEF UpSampleToScale
  <2>2. StageInv'
    BY <1>0, <1>3, <2>1 DEF UpSampleToScale, StageInv
  <2> QED
    BY <2>1, <2>2 DEF Inv, ImageStep
<1>4. CASE Scale
  <2>1. target \in Targets
    BY <1>0, <1>4 DEF Scale, StageInv
  <2>2. target.w \in Nat \ {0} /\ target.h \in Nat \ {0}
    BY <2>1, TargetTypes DEF Shapes
  <2>3. /\ WellFormed(image')
        /\ image'.w = target.w /\ image'.h = target.h
        /\ Inside(image) /\ target.w < 2 * image.w /\ target.h < 2 * image.h => Inside(image')
    <3>1. PICK w \in Nat \ {0}, h \in Nat \ {0} : w = target.w /\ h = target.h
      BY <2>2
    <3>2. image' = ScaleImage(image, w, h)
      BY <1>4, <3>1 DEF Scale
    <3>3. /\ WellFormed(ScaleImage(image, w, h))
          /\ ScaleImage(image, w, h).w = w
          /\ ScaleImage(image, w, h).h = h
          /\ Inside(image) /\ w < 2 * image.w /\ h < 2 * image.h => Inside(ScaleImage(image, w, h))
      BY <1>0, ScaleKeeps
    <3> QED
      BY <3>1, <3>2, <3>3, Zenon
  <2>4. StageInv'
    BY <1>0, <1>4, <2>3 DEF Scale, StageInv
  <2> QED
    BY <2>3, <2>4 DEF Inv, ImageStep
<1>5. CASE UpSampleToResite
  <2>1. /\ WellFormed(image')
        /\ image'.w = image.w /\ image'.h = image.h
        /\ Inside(image) => Inside(image')
    BY <1>0, <1>5, UpSampleKeeps DEF UpSampleToResite
  <2>2. StageInv'
    BY <1>0, <1>5, <2>1 DEF UpSampleToResite, StageInv
  <2> QED
    BY <2>1, <2>2 DEF Inv, ImageStep
<1>6. CASE DownSampleToTarget
  <2>1. target \in Targets
    BY <1>0, <1>6 DEF DownSampleToTarget, StageInv
  <2>2. target.siting \in Sitings
    BY <2>1, TargetTypes DEF Shapes
  <2>3. /\ WellFormed(image')
        /\ image'.siting = target.siting
        /\ image'.w = image.w /\ image'.h = image.h
        /\ Inside(image) => Inside(image')
    BY <1>0, <1>6, <2>2, DownSampleKeeps DEF DownSampleToTarget
  <2>4. StageInv'
    BY <1>0, <1>6, <2>3 DEF DownSampleToTarget, StageInv, Converted
  <2> QED
    BY <2>3, <2>4 DEF Inv, ImageStep
<1>7. CASE EndConversion
  <2>1. ImageStep
    BY <1>1, <1>7 DEF EndConversion
  <2>2. StageInv'
    BY <1>0, <1>7 DEF EndConversion, StageInv, Converted
  <2> QED
    BY <2>1, <2>2 DEF Inv, ImageStep
<1>8. CASE PackAndUnpack
  <2>1. target \in Targets
    BY <1>0, <1>8 DEF PackAndUnpack, StageInv
  <2>2. target.w \in Nat \ {0} /\ target.h \in Nat \ {0} /\ target.siting \in Sitings
    BY <2>1, TargetTypes DEF Shapes
  <2>3. image' = [w |-> target.w, h |-> target.h, siting |-> target.siting,
                  planes |-> [c \in Channels |-> Unpacked(c)]]
    BY <1>8 DEF PackAndUnpack
  <2>4. SurfacesFit(image')
    BY <2>1, <2>3, UnpackedKeeps DEF SurfacesFit
  <2>5. WellFormed(image')
    BY <2>2, <2>3, <2>4 DEF WellFormed
  <2>6. Inside(image) => Inside(image')
    BY <2>1, <2>3, UnpackedKeeps DEF Inside
  <2>7. StageInv'
    BY <1>0, <1>8, ConversionAssumption DEF PackAndUnpack, StageInv
  <2> QED
    BY <2>5, <2>6, <2>7 DEF Inv, ImageStep
<1>9. CASE Resample
  <2>1. ImageStep
    <3>1. CASE image' = UpSample(image)
      BY <1>0, <3>1, UpSampleKeeps DEF ImageStep
    <3>2. CASE \E f \in Targets : image' = DownSample(image, f.siting)
      <4>1. PICK f \in Targets : image' = DownSample(image, f.siting)
        BY <3>2
      <4>2. f.siting \in Sitings
        BY TargetTypes DEF Shapes
      <4> QED
        BY <1>0, <4>1, <4>2, DownSampleKeeps DEF ImageStep
    <3>3. CASE \E f \in Targets : image' = ScaleImage(image, f.w, f.h)
      <4>1. PICK f \in Targets : image' = ScaleImage(image, f.w, f.h)
        BY <3>3
      <4>2. f.w \in Nat \ {0} /\ f.h \in Nat \ {0}
        BY TargetTypes DEF Shapes
      <4> QED
        BY <1>0, <4>1, <4>2, ScaleKeeps DEF ImageStep
    <3> QED
      BY <1>9, <3>1, <3>2, <3>3 DEF Resample
  <2>2. StageInv'
    BY <1>0, <1>9, ConversionAssumption DEF Resample, StageInv
  <2> QED
    BY <2>1, <2>2 DEF Inv, ImageStep
<1>10. CASE Finished \/ UNCHANGED vars
  <2>1. UNCHANGED vars
    BY <1>10 DEF Finished
  <2>2. ImageStep
    BY <1>1, <2>1 DEF vars
  <2>3. StageInv'
    BY <1>0, <2>1 DEF vars, StageInv, Converted
  <2> QED
    BY <2>2, <2>3 DEF Inv, ImageStep
<1> QED
  BY <1>2, <1>3, <1>4, <1>5, <1>6, <1>7, <1>8, <1>9, <1>10 DEF Next

THEOREM Invariance == Spec => []Inv
<1>1. Inv /\ [Next]_vars => Inv'
  BY InvStep
<1> QED
  BY InvInit, <1>1, PTL DEF Spec

-----------------------------------------------------------------------------
(* Whatever is converted to what, an image's surfaces fit its size and     *)
(* siting, in every step of encode_frame and between calls.                *)
THEOREM TypeCorrect == Spec => []TypeOK
<1>1. Inv => TypeOK
  BY DEF Inv, WellFormed, StageInv, TypeOK
<1> QED
  BY Invariance, <1>1, PTL

(* Whatever is converted to what, encode_channel finds surfaces of the     *)
(* size that the format it packs for calls for.                            *)
THEOREM PackerFindsItsSize == Spec => []SurfacesFitTarget
<1>1. Inv => SurfacesFitTarget
  <2> SUFFICES ASSUME Inv, stage = "pack", NEW c \in Channels
               PROVE  \/ IsEmpty(image.planes[c])
                      \/ Fits(image.planes[c], target.w, target.h, target.siting, c)
    BY DEF SurfacesFitTarget
  <2>1. image.w = target.w /\ image.h = target.h /\ Converted
    BY DEF Inv, StageInv
  <2>2. IsEmpty(image.planes[c]) \/ Fits(image.planes[c], image.w, image.h, image.siting, c)
    BY DEF Inv, WellFormed, SurfacesFit
  <2> QED
    BY <2>1, <2>2 DEF Converted, Is444, Fits, PlaneW, PlaneH
<1> QED
  BY Invariance, <1>1, PTL

(* Only scaling to twice the width or height, or more, makes the surfaces  *)
(* read beyond their memory; no size, siting or order of calls does else.  *)
THEOREM NothingFromOutside == Spec => OutsideOnlyWhenDoubling
<1>1. Inv /\ [Next]_vars
        => [Inside(image) /\ image'.w < 2 * image.w /\ image'.h < 2 * image.h => Inside(image')]_vars
  BY InvStep DEF ImageStep
<1> QED
  BY Invariance, <1>1, PTL DEF Spec, OutsideOnlyWhenDoubling

-----------------------------------------------------------------------------
(* Chroma and luma stay together.                                          *)

Special == {Outside, Poison, Opaque}

(* The source pixels of a chroma value are the macro pixels, by the        *)
(* siting the image had at first, of those of a luma value.                *)
Together(luma, chroma, first) ==
  \A l \in DOMAIN luma \ Special, s \in DOMAIN chroma \ Special :
    s = <<l[1] \div first.mw, l[2] \div first.mh>>

Aligned(img, first) ==
  \A c \in {ChannelU, ChannelV} :
    ~ IsEmpty(img.planes[ChannelY]) /\ ~ IsEmpty(img.planes[c]) =>
      \A q \in Pixels(img.w, img.h) : Together(img.planes[ChannelY].at[q], img.planes[c].at[q], first)

(* An image that nobody has sampled down: at full resolution, or as it was *)
(* at first.                                                               *)
Original(img, first) == \E f \in Originals : img = ImageOf(f) /\ f.siting = first

Matched(img, first) ==
  /\ Is444(img.siting) => Aligned(img, first)
  /\ ~ Is444(img.siting) => Original(img, first)

LEMMA TwoDigits ==
  ASSUME NEW w \in Nat, NEW x \in Nat, NEW y \in Nat, x < w
  PROVE  (y * w + x) \div w = y /\ (y * w + x) % w = x
<1>1. y * w \in Nat
  BY Z3
<1>2. (y * w + x) \div w = y
  BY <1>1, Z3
<1>3. (y * w + x) % w = x
  BY <1>1, <1>2, Z3
<1> QED
  BY <1>2, <1>3

(* The index of a pixel inside a surface is that pixel's alone.            *)
LEMMA GetExact ==
  ASSUME NEW s, s.w \in Nat, s.h \in Nat, NEW x \in Nat, NEW y \in Nat, x < s.w, y < s.h
  PROVE  Get(s, x, y) = s.at[<<x, y>>]
<1> DEFINE w == s.w
           h == s.h
           i == y * w + x
<1>1. y * w \in Nat /\ (y + 1) * w = y * w + w /\ (y + 1) * w <= w * h
  BY Z3
<1>2. i \in Nat /\ i < w * h
  BY <1>1
<1>3. i \div w = y /\ i % w = x
  BY TwoDigits
<1> QED
  BY <1>2, <1>3 DEF Get

(* get() with the same coordinates in surfaces of the same size takes the  *)
(* same pixel, or what lies beyond both.                                   *)
LEMMA GetAlike ==
  ASSUME NEW s, NEW t, s.w \in Nat \ {0}, s.h \in Nat \ {0}, t.w = s.w, t.h = s.h, NEW x \in Nat, NEW y \in Nat
  PROVE  \/ \E q \in Pixels(s.w, s.h) : Get(s, x, y) = s.at[q] /\ Get(t, x, y) = t.at[q]
         \/ Get(s, x, y) = Only(Outside)
<1> DEFINE w == s.w
           h == s.h
           i == y * w + x
<1>1. i \in Nat
  BY Z3
<1>2. CASE i >= w * h
  <2>1. ~ (i < w * h)
    BY <1>1, <1>2, Z3
  <2> QED
    BY <2>1 DEF Get
<1>3. CASE i < w * h
  <2>1. i % w \in 0 .. w - 1 /\ i \div w \in Nat /\ w * (i \div w) <= i
    BY <1>1, Z3
  <2>2. i \div w < h
    <3>1. CASE i \div w >= h
      <4>1. w * (i \div w) >= w * h
        BY <2>1, <3>1, Z3
      <4> QED
        BY <1>1, <1>3, <2>1, <4>1
    <3> QED
      BY <2>1, <3>1
  <2>3. <<i % w, i \div w>> \in Pixels(s.w, s.h)
    BY <2>1, <2>2 DEF Pixels
  <2> QED
    BY <1>3, <2>3 DEF Get
<1> QED
  BY <1>1, <1>2, <1>3

LEMMA NearestIsNatural ==
  ASSUME NEW x \in Nat, NEW w \in Nat \ {0}, NEW old \in Nat \ {0}
  PROVE  Nearest(x, w, old) \in Nat
<1> DEFINE a == 2 * x * old + w
<1>1. a \in Nat /\ 2 * w \in Nat \ {0}
  BY Z3
<1>2. a \div (2 * w) \in Nat
  BY <1>1, Z3
<1> QED
  BY <1>2 DEF Nearest, AtMost

(* What comes from no source pixel contradicts nothing.                    *)
LEMMA SpecialTogether ==
  ASSUME NEW a, NEW b, NEW first, DOMAIN a \subseteq Special \/ DOMAIN b \subseteq Special
  PROVE  Together(a, b, first)
BY DEF Together

LEMMA OnlySource ==
  ASSUME NEW t
  PROVE  DOMAIN Only(t) = {t}
BY DEF Only

(* Values made of fewer source pixels stay together.                       *)
LEMMA LessTogether ==
  ASSUME NEW a, NEW b, NEW first, Together(a, b, first), NEW d, DOMAIN d \subseteq DOMAIN b
  PROVE  Together(a, d, first)
BY DEF Together

-----------------------------------------------------------------------------
(* What each operation does to the planes.                                 *)

LEMMA UpSampledPlanes ==
  ASSUME NEW img, WellFormed(img), ~ Is444(img.siting), NEW c \in Channels
  PROVE  UpSample(img).planes[c] = IF c \in {ChannelU, ChannelV} /\ ~ IsEmpty(img.planes[c])
                                   THEN UpSampleSurface(img.planes[c], img.w, img.h, img.siting)
                                   ELSE img.planes[c]
<1> DEFINE full(d) == IF d \in {ChannelU, ChannelV} /\ ~ IsEmpty(img.planes[d])
                      THEN UpSampleSurface(img.planes[d], img.w, img.h, img.siting) ELSE img.planes[d]
           u == [w |-> img.w, h |-> img.h, siting |-> Full, planes |-> [d \in Channels |-> full(d)]]
<1>1. UpSample(img) = u
  BY DEF UpSample, WellFormed
<1> QED
  BY <1>1

LEMMA ScaledPlanes ==
  ASSUME NEW img, WellFormed(img), Is444(img.siting), NEW w, NEW h, ~ (img.w = w /\ img.h = h), NEW c \in Channels
  PROVE  ScaleImage(img, w, h).planes[c] = IF IsEmpty(img.planes[c]) THEN img.planes[c]
                                           ELSE ScaleSurface(img.planes[c], w, h)
<1> DEFINE z == [d \in Channels |-> IF IsEmpty(img.planes[d]) THEN img.planes[d] ELSE ScaleSurface(img.planes[d], w, h)]
           changed == [img EXCEPT !.w = w, !.h = h, !.planes = z]
<1>1. UpSample(img) = img
  BY DEF UpSample
<1>2. ScaleImage(img, w, h) = changed
  BY <1>1 DEF ScaleImage
<1>3. changed = Resized(img, w, h, z)
  BY DEF Resized
<1>4. z[c] = IF IsEmpty(img.planes[c]) THEN img.planes[c] ELSE ScaleSurface(img.planes[c], w, h)
  OBVIOUS
<1> HIDE DEF z, changed
<1>5. Resized(img, w, h, z) = [w |-> w, h |-> h, siting |-> img.siting, planes |-> z]
  BY ChangedSize DEF WellFormed
<1>6. ScaleImage(img, w, h).planes = z
  BY <1>2, <1>3, <1>5
<1> QED
  BY <1>4, <1>6

LEMMA DownSampledPlanes ==
  ASSUME NEW img, WellFormed(img), NEW st \in Sitings, img.siting # st
  PROVE  LET up == UpSample(img)
             below(c, own, other) == IF IsEmpty(up.planes[c]) THEN up.planes[c]
                                     ELSE DownSampleSurface(up.planes[c], up.w, up.h, st, own, other)
         IN  /\ DownSample(img, st).planes[ChannelY] = up.planes[ChannelY]
             /\ DownSample(img, st).planes[ChannelA] = up.planes[ChannelA]
             /\ DownSample(img, st).planes[ChannelU] = below(ChannelU, st.u, st.v)
             /\ DownSample(img, st).planes[ChannelV] = below(ChannelV, st.v, st.u)
<1> DEFINE up == UpSample(img)
           below(c, own, other) == IF IsEmpty(up.planes[c]) THEN up.planes[c]
                                   ELSE DownSampleSurface(up.planes[c], up.w, up.h, st, own, other)
           a == below(ChannelU, st.u, st.v)
           b == below(ChannelV, st.v, st.u)
           changed == [up EXCEPT !.siting = st, !.planes[ChannelU] = a, !.planes[ChannelV] = b]
<1>1. DownSample(img, st) = changed
  BY DEF DownSample
<1>2. up = [w |-> up.w, h |-> up.h, siting |-> up.siting, planes |-> up.planes]
      /\ up.planes = [c \in Channels |-> up.planes[c]]
  BY UpSampleKeeps DEF WellFormed
<1>3. changed = Resited(up, st, ChannelU, a, ChannelV, b)
  BY DEF Resited
<1> HIDE DEF up, a, b, changed
<1>4. changed.planes = [up.planes EXCEPT ![ChannelU] = a, ![ChannelV] = b]
  BY <1>2, <1>3, ChangedChroma
<1>5. /\ changed.planes[ChannelY] = up.planes[ChannelY] /\ changed.planes[ChannelA] = up.planes[ChannelA]
      /\ changed.planes[ChannelU] = a /\ changed.planes[ChannelV] = b
  BY <1>2, <1>4 DEF Channels, ChannelY, ChannelU, ChannelV, ChannelA
<1> QED
  BY <1>1, <1>5 DEF up, a, b

-----------------------------------------------------------------------------
(* Each operation leaves chroma with its luma.                             *)

LEMMA ChannelNames ==
  /\ Channels = {ChannelY, ChannelA, ChannelU, ChannelV}
  /\ ChannelY \in Channels /\ ChannelU \in Channels /\ ChannelV \in Channels
  /\ ChannelY \notin {ChannelU, ChannelV} /\ ChannelU # ChannelV /\ ChannelA \notin {ChannelU, ChannelV}
BY DEF Channels, ChannelY, ChannelU, ChannelV, ChannelA

(* At full resolution all surfaces have the size of the image.             *)
LEMMA FullSizes ==
  ASSUME NEW img, WellFormed(img), Is444(img.siting), NEW c \in Channels, ~ IsEmpty(img.planes[c])
  PROVE  img.planes[c].w = img.w /\ img.planes[c].h = img.h
BY CeilDivByOne DEF WellFormed, SurfacesFit, Fits, PlaneW, PlaneH, Is444

(* What an original has in a place is that place.                          *)
LEMMA OriginalPlanes ==
  ASSUME NEW f \in Originals, NEW c \in Channels, ~ IsEmpty(ImageOf(f).planes[c])
  PROVE  LET s == ImageOf(f).planes[c]
         IN  /\ s.w = PlaneW(f.w, f.siting, c) /\ s.h = PlaneH(f.h, f.siting, c)
             /\ \A q \in Pixels(s.w, s.h) : s.at[q] = Only(q)
<1> DEFINE w == PlaneW(f.w, f.siting, c)
           h == PlaneH(f.h, f.siting, c)
           there == [w |-> w, h |-> h, at |-> [q \in Pixels(w, h) |-> Only(q)]]
<1>1. ImageOf(f).planes[c] = IF c \notin f.channels THEN Empty ELSE there
  BY DEF ImageOf
<1>2. ImageOf(f).planes[c] = there
  BY <1>1 DEF IsEmpty, Empty
<1> HIDE DEF w, h
<1> QED
  BY <1>2 DEF w, h

(* A source pixel is together with the macro pixel it lies in.             *)
LEMMA OwnMacroPixel ==
  ASSUME NEW q, NEW first
  PROVE  Together(Only(q), Only(<<q[1] \div first.mw, q[2] \div first.mh>>), first)
<1>1. PICK p : p = <<q[1] \div first.mw, q[2] \div first.mh>>
  OBVIOUS
<1>2. DOMAIN Only(q) = {q} /\ DOMAIN Only(p) = {p}
  BY OnlySource
<1>3. ASSUME NEW l \in DOMAIN Only(q) \ Special, NEW s \in DOMAIN Only(p) \ Special
      PROVE  s = <<l[1] \div first.mw, l[2] \div first.mh>>
  <2>1. l = q /\ s = p
    BY <1>2
  <2> QED
    BY <1>1, <2>1
<1> QED
  BY <1>1, <1>3 DEF Together

LEMMA UpSampledAligned ==
  ASSUME NEW img, WellFormed(img), NEW first, Matched(img, first)
  PROVE  Aligned(UpSample(img), first)
<1>1. CASE Is444(img.siting)
  BY <1>1 DEF UpSample, Matched
<1>2. CASE ~ Is444(img.siting)
  <2> DEFINE up == UpSample(img)
  <2>1. PICK f \in Originals : img = ImageOf(f) /\ f.siting = first
    BY <1>2 DEF Matched, Original
  <2>2. img.w = f.w /\ img.h = f.h /\ img.siting = first /\ first \in Sitings
        /\ f.w \in Nat \ {0} /\ f.h \in Nat \ {0}
    BY <2>1, TargetTypes DEF ImageOf, Shapes
  <2>3. up.w = img.w /\ up.h = img.h
    BY UpSampleKeeps
  <2> SUFFICES ASSUME NEW c \in {ChannelU, ChannelV}, ~ IsEmpty(up.planes[ChannelY]), ~ IsEmpty(up.planes[c]),
                      NEW q \in Pixels(img.w, img.h)
               PROVE  Together(up.planes[ChannelY].at[q], up.planes[c].at[q], first)
    BY <2>3 DEF Aligned
  <2>4. up.planes[ChannelY] = img.planes[ChannelY]
    BY <1>2, UpSampledPlanes, ChannelNames
  <2>5. up.planes[ChannelY].at[q] = Only(q)
    BY <2>1, <2>2, <2>4, OriginalPlanes, ChannelNames DEF PlaneW, PlaneH
  <2> DEFINE s == img.planes[c]
             x == q[1] \div first.mw
             y == q[2] \div first.mh
  <2>6. c \in Channels
    BY ChannelNames
  <2>7. ~ IsEmpty(s) /\ up.planes[c] = UpSampleSurface(s, img.w, img.h, img.siting)
    BY <1>2, <2>6, UpSampledPlanes
  <2>8. up.planes[c].at[q] = Get(s, x, y)
    BY <2>2, <2>7 DEF UpSampleSurface
  <2>9. /\ s.w = CeilDiv(img.w, first.mw) /\ s.h = CeilDiv(img.h, first.mh)
        /\ \A p \in Pixels(s.w, s.h) : s.at[p] = Only(p)
    BY <2>1, <2>2, <2>6, <2>7, OriginalPlanes DEF PlaneW, PlaneH
  <2>10. q[1] \in Nat /\ q[1] < img.w /\ q[2] \in Nat /\ q[2] < img.h
    BY <2>2 DEF Pixels
  <2>11. x \in Nat /\ x < s.w /\ y \in Nat /\ y < s.h
    BY <2>2, <2>9, <2>10, MacroPixelInside, SitingTypes
  <2>12. s.w \in Nat /\ s.h \in Nat
    BY <2>2, <2>9, CeilDivPositive, SitingTypes
  <2>13. Get(s, x, y) = s.at[<<x, y>>]
    BY <2>11, <2>12, GetExact
  <2>14. <<x, y>> \in Pixels(s.w, s.h)
    BY <2>11, <2>12 DEF Pixels
  <2>15. up.planes[c].at[q] = Only(<<x, y>>)
    BY <2>8, <2>9, <2>13, <2>14
  <2> QED
    BY <2>5, <2>15, OwnMacroPixel
<1> QED
  BY <1>1, <1>2

(* An original at full resolution needs no up-sampling.                    *)
LEMMA OriginalAligned ==
  ASSUME NEW f \in Originals
  PROVE  Matched(ImageOf(f), f.siting)
<1> DEFINE img == ImageOf(f)
           first == f.siting
<1>1. img.siting = first /\ img.w = f.w /\ img.h = f.h
  BY DEF ImageOf
<1>2. Original(img, first)
  BY DEF Original
<1>3. ASSUME Is444(first)
      PROVE  Aligned(img, first)
  <2> SUFFICES ASSUME NEW c \in {ChannelU, ChannelV}, ~ IsEmpty(img.planes[ChannelY]), ~ IsEmpty(img.planes[c]),
                      NEW q \in Pixels(f.w, f.h)
               PROVE  Together(img.planes[ChannelY].at[q], img.planes[c].at[q], first)
    BY <1>1 DEF Aligned
  <2>1. WellFormed(img)
    BY OriginalWellFormed
  <2>2. \A d \in {ChannelY, c} : img.planes[d].w = f.w /\ img.planes[d].h = f.h
    BY <1>1, <1>3, <2>1, FullSizes, ChannelNames
  <2>3. \A d \in {ChannelY, c} : img.planes[d].at[q] = Only(q)
    BY <2>2, OriginalPlanes, ChannelNames
  <2>4. q = <<q[1], q[2]>> /\ q[1] \in Int /\ q[2] \in Int
    BY TargetTypes DEF Pixels, Shapes
  <2>5. q[1] \div first.mw = q[1] /\ q[2] \div first.mh = q[2]
    BY <1>3, <2>4 DEF Is444
  <2>6. Together(Only(q), Only(<<q[1] \div first.mw, q[2] \div first.mh>>), first)
    BY OwnMacroPixel
  <2> QED
    BY <2>3, <2>4, <2>5, <2>6
<1> QED
  BY <1>1, <1>2, <1>3 DEF Matched

LEMMA ScaledAligned ==
  ASSUME NEW img, WellFormed(img), NEW first, Aligned(img, first), Is444(img.siting),
         NEW w \in Nat \ {0}, NEW h \in Nat \ {0}
  PROVE  Aligned(ScaleImage(img, w, h), first)
<1>1. CASE img.w = w /\ img.h = h
  BY <1>1 DEF ScaleImage
<1>2. CASE ~ (img.w = w /\ img.h = h)
  <2> DEFINE new == ScaleImage(img, w, h)
  <2>1. new.w = w /\ new.h = h
    BY ScaleKeeps
  <2>2. \A c \in Channels : new.planes[c] = IF IsEmpty(img.planes[c]) THEN img.planes[c]
                                            ELSE ScaleSurface(img.planes[c], w, h)
    BY <1>2, ScaledPlanes
  <2> HIDE DEF new
  <2> SUFFICES ASSUME NEW c \in {ChannelU, ChannelV}, ~ IsEmpty(new.planes[ChannelY]), ~ IsEmpty(new.planes[c]),
                      NEW q \in Pixels(w, h)
               PROVE  Together(new.planes[ChannelY].at[q], new.planes[c].at[q], first)
    BY <2>1 DEF Aligned, new
  <2> DEFINE s == img.planes[ChannelY]
             t == img.planes[c]
             x == Nearest(q[1], w, img.w)
             y == Nearest(q[2], h, img.h)
  <2>3. ~ IsEmpty(s) /\ new.planes[ChannelY] = ScaleSurface(s, w, h)
    BY <2>2, ChannelNames
  <2>4. ~ IsEmpty(t) /\ new.planes[c] = ScaleSurface(t, w, h)
    BY <2>2, ChannelNames
  <2>5. s.w = img.w /\ s.h = img.h /\ t.w = img.w /\ t.h = img.h
    BY <2>3, <2>4, FullSizes, ChannelNames
  <2>6. new.planes[ChannelY].at[q] = Get(s, x, y) /\ new.planes[c].at[q] = Get(t, x, y)
    BY <2>3, <2>4, <2>5 DEF ScaleSurface
  <2>7. img.w \in Nat \ {0} /\ img.h \in Nat \ {0}
    BY DEF WellFormed
  <2>8. q[1] \in Nat /\ q[2] \in Nat
    BY DEF Pixels
  <2>9. x \in Nat /\ y \in Nat
    BY <2>7, <2>8, NearestIsNatural
  <2> HIDE DEF s, t, x, y
  <2>10. \/ \E p \in Pixels(s.w, s.h) : Get(s, x, y) = s.at[p] /\ Get(t, x, y) = t.at[p]
         \/ Get(s, x, y) = Only(Outside)
    BY <2>5, <2>7, <2>9, GetAlike
  <2>11. CASE Get(s, x, y) = Only(Outside)
    <3>1. DOMAIN Only(Outside) = {Outside} /\ {Outside} \subseteq Special
      BY OnlySource DEF Special
    <3>2. Together(Only(Outside), Get(t, x, y), first)
      BY <3>1, SpecialTogether
    <3> QED
      BY <2>6, <2>11, <3>2
  <2>12. CASE \E p \in Pixels(s.w, s.h) : Get(s, x, y) = s.at[p] /\ Get(t, x, y) = t.at[p]
    BY <2>3, <2>4, <2>5, <2>6, <2>12 DEF Aligned, s, t
  <2> QED
    BY <2>10, <2>11, <2>12
<1> QED
  BY <1>1, <1>2

LEMMA ScaledMatched ==
  ASSUME NEW img, WellFormed(img), NEW first, Matched(img, first),
         NEW w \in Nat \ {0}, NEW h \in Nat \ {0}, Is444(ScaleImage(img, w, h).siting)
  PROVE  Aligned(ScaleImage(img, w, h), first)
<1>1. ScaleImage(img, w, h).siting = img.siting
  BY ScaleKeeps
<1> QED
  BY <1>1, ScaledAligned DEF Matched

(* Down-sampling to a siting of full resolution takes each pixel from the  *)
(* pixel itself, whatever the sample point.                                *)
LEMMA DownSampledInPlace ==
  ASSUME NEW s, NEW w \in Nat \ {0}, NEW h \in Nat \ {0}, NEW st \in Sitings, NEW own, NEW other,
         s.w = w, s.h = h, Is444(st), NEW q \in Pixels(w, h)
  PROVE  DOMAIN DownSampleSurface(s, w, h, st, own, other).at[q] \subseteq DOMAIN s.at[q]
<1> DEFINE t == DownSampleSurface(s, w, h, st, own, other)
           macro == Pixels(st.mw, st.mh)
           weights == [b \in macro |-> Weight(own, other, b)]
           around(x, y) == [b \in {m \in macro : weights[m] # 0} |->
                              Get(s, AtMost(x * st.mw + b[1], w - 1), AtMost(y * st.mh + b[2], h - 1))]
           values == around(q[1], q[2])
<1>1. CeilDiv(w, st.mw) = w /\ CeilDiv(h, st.mh) = h /\ st.mw = 1 /\ st.mh = 1
  BY CeilDivByOne DEF Is444
<1>2. t.at[q] = Blend(weights, values)
  BY <1>1 DEF DownSampleSurface
<1>3. DOMAIN Blend(weights, values) \subseteq UNION {DOMAIN values[b] : b \in DOMAIN values}
  BY DEF Blend
<1>4. q[1] \in Nat /\ q[1] < w /\ q[2] \in Nat /\ q[2] < h /\ q = <<q[1], q[2]>>
  BY DEF Pixels
<1>5. ASSUME NEW b \in DOMAIN values
      PROVE  values[b] = s.at[q]
  <2>1. b \in Pixels(1, 1)
    BY <1>1
  <2>2. b[1] = 0 /\ b[2] = 0
    BY <2>1 DEF Pixels
  <2>3. values[b] = Get(s, AtMost(q[1] * st.mw + b[1], w - 1), AtMost(q[2] * st.mh + b[2], h - 1))
    OBVIOUS
  <2>4. AtMost(q[1] * st.mw + b[1], w - 1) = q[1] /\ AtMost(q[2] * st.mh + b[2], h - 1) = q[2]
    BY <1>1, <1>4, <2>2 DEF AtMost
  <2>5. Get(s, q[1], q[2]) = s.at[<<q[1], q[2]>>]
    BY <1>4, GetExact
  <2> QED
    BY <1>4, <2>3, <2>4, <2>5
<1> HIDE DEF t, weights, values
<1> QED
  BY <1>2, <1>3, <1>5 DEF t

LEMMA DownSampledMatched ==
  ASSUME NEW img, WellFormed(img), NEW first, Matched(img, first), NEW st \in Sitings, Is444(st)
  PROVE  Aligned(DownSample(img, st), first)
<1>1. CASE img.siting = st
  BY <1>1 DEF DownSample, Matched
<1>2. CASE img.siting # st
  <2> DEFINE up == UpSample(img)
             new == DownSample(img, st)
             below(c, own, other) == IF IsEmpty(up.planes[c]) THEN up.planes[c]
                                     ELSE DownSampleSurface(up.planes[c], up.w, up.h, st, own, other)
  <2>1. /\ WellFormed(up) /\ Is444(up.siting)
        /\ up.w = img.w /\ up.h = img.h /\ up.w \in Nat \ {0} /\ up.h \in Nat \ {0}
    BY UpSampleKeeps DEF WellFormed
  <2>2. Aligned(up, first)
    BY UpSampledAligned
  <2>3. new.w = img.w /\ new.h = img.h
    BY DownSampleKeeps
  <2>4. /\ new.planes[ChannelY] = up.planes[ChannelY]
        /\ new.planes[ChannelU] = below(ChannelU, st.u, st.v)
        /\ new.planes[ChannelV] = below(ChannelV, st.v, st.u)
    BY <1>2, DownSampledPlanes
  <2> HIDE DEF up, new
  <2> SUFFICES ASSUME NEW c \in {ChannelU, ChannelV}, ~ IsEmpty(new.planes[ChannelY]), ~ IsEmpty(new.planes[c]),
                      NEW q \in Pixels(img.w, img.h)
               PROVE  Together(new.planes[ChannelY].at[q], new.planes[c].at[q], first)
    BY <2>3 DEF Aligned, new
  <2>5. PICK own, other : new.planes[c] = below(c, own, other)
    BY <2>4
  <2>6. ~ IsEmpty(up.planes[c]) /\ new.planes[c] = DownSampleSurface(up.planes[c], up.w, up.h, st, own, other)
    BY <2>5
  <2>7. up.planes[c].w = up.w /\ up.planes[c].h = up.h
    BY <2>1, <2>6, FullSizes, ChannelNames
  <2>8. Together(up.planes[ChannelY].at[q], up.planes[c].at[q], first)
    BY <2>1, <2>2, <2>4, <2>6 DEF Aligned
  <2>9. DOMAIN new.planes[c].at[q] \subseteq DOMAIN up.planes[c].at[q]
    BY <2>1, <2>6, <2>7, DownSampledInPlace
  <2> QED
    BY <2>4, <2>8, <2>9, LessTogether
<1> QED
  BY <1>1, <1>2

(* What comes back of a channel in a place: what was packed there, if that *)
(* is inside and was there at all.                                         *)
LEMMA UnpackedValue ==
  ASSUME NEW c \in Channels, ~ IsEmpty(Unpacked(c)), Is444(target.siting), target \in Targets,
         NEW q \in Pixels(target.w, target.h)
  PROVE  \/ ~ IsEmpty(image.planes[c]) /\ Unpacked(c).at[q] = image.planes[c].at[q]
         \/ DOMAIN Unpacked(c).at[q] \subseteq Special
<1> DEFINE s == image.planes[c]
           w == PlaneW(target.w, target.siting, c)
           h == PlaneH(target.h, target.siting, c)
           missing == IF c = ChannelA THEN Only(Opaque) ELSE Only(Poison)
           value(p) == IF IsEmpty(s) THEN missing ELSE IF p \in Pixels(s.w, s.h) THEN s.at[p] ELSE Only(Poison)
<1>1. w = target.w /\ h = target.h
  BY CeilDivByOne, TargetTypes DEF PlaneW, PlaneH, Is444, Shapes
<1>2. Unpacked(c) = [w |-> w, h |-> h, at |-> [p \in Pixels(w, h) |-> value(p)]]
  BY DEF Unpacked, IsEmpty, Empty
<1>3. Unpacked(c).at[q] = value(q)
  BY <1>1, <1>2
<1>4. DOMAIN Only(Opaque) = {Opaque} /\ DOMAIN Only(Poison) = {Poison}
  BY OnlySource
<1>5. DOMAIN missing \subseteq Special /\ DOMAIN Only(Poison) \subseteq Special
  BY <1>4 DEF Special
<1>6. CASE IsEmpty(s)
  BY <1>3, <1>5, <1>6
<1>7. CASE ~ IsEmpty(s)
  BY <1>3, <1>5, <1>7
<1> QED
  BY <1>6, <1>7

-----------------------------------------------------------------------------
(* The invariant: since the image is only at full resolution, chroma is    *)
(* with its luma.  An image that was returned subsampled ends the promise; *)
(* encode_frame samples down only to pack the image right away.            *)

IsHistory == (\E S : history \in Seq(S)) /\ history # <<>>

First == history[1].siting
AlwaysFull == \A i \in 2 .. Len(history) : Is444(history[i].siting)

ChromaInv ==
  /\ IsHistory
  /\ AlwaysFull => (Matched(image, First) \/ (stage = "pack" /\ ~ Is444(image.siting)))

LEMMA Appended ==
  ASSUME NEW img, NEW h, (\E S : h \in Seq(S)), h # <<>>
  PROVE  /\ \E S : Append(h, img) \in Seq(S)
         /\ Append(h, img) # <<>>
         /\ Len(h) \in Nat \ {0} /\ Len(Append(h, img)) = Len(h) + 1
         /\ \A i \in 1 .. Len(h) : Append(h, img)[i] = h[i]
         /\ Append(h, img)[Len(h) + 1] = img
<1>1. PICK S : h \in Seq(S)
  OBVIOUS
<1>2. h \in Seq(S \cup {img}) /\ img \in S \cup {img}
  BY <1>1
<1>3. Append(h, img) \in Seq(S \cup {img})
  BY <1>2
<1> QED
  BY <1>2, <1>3

(* A call that returned: the promise is about it too.                      *)
LEMMA Returned ==
  ASSUME IsHistory, history' = Append(history, image')
  PROVE  /\ IsHistory'
         /\ First' = First
         /\ AlwaysFull' <=> AlwaysFull /\ Is444(image'.siting)
<1>1. PICK img, h : img = image' /\ h = history
  OBVIOUS
<1>2. (\E S : h \in Seq(S)) /\ h # <<>> /\ history' = Append(h, img)
  BY <1>1 DEF IsHistory
<1>3. /\ \E S : Append(h, img) \in Seq(S)
      /\ Append(h, img) # <<>>
      /\ Len(h) \in Nat \ {0} /\ Len(Append(h, img)) = Len(h) + 1
      /\ \A i \in 1 .. Len(h) : Append(h, img)[i] = h[i]
      /\ Append(h, img)[Len(h) + 1] = img
  BY <1>2, Appended
<1>4. IsHistory'
  BY <1>2, <1>3 DEF IsHistory
<1>5. First' = First
  BY <1>1, <1>2, <1>3 DEF First
<1> DEFINE g == Append(h, img)
<1>6. (\A i \in 2 .. Len(g) : Is444(g[i].siting)) <=> (\A i \in 2 .. Len(h) : Is444(h[i].siting)) /\ Is444(img.siting)
  <2> HIDE DEF g
  <2>1. 2 .. Len(g) = (2 .. Len(h)) \cup {Len(h) + 1}
    BY <1>3 DEF g
  <2>2. (\A i \in 2 .. Len(h) : g[i] = h[i]) /\ g[Len(h) + 1] = img
    BY <1>3 DEF g
  <2> QED
    BY <2>1, <2>2
<1>7. AlwaysFull' <=> (\A i \in 2 .. Len(g) : Is444(g[i].siting))
  BY <1>2 DEF AlwaysFull
<1>8. AlwaysFull <=> (\A i \in 2 .. Len(h) : Is444(h[i].siting))
  BY <1>1 DEF AlwaysFull
<1> QED
  BY <1>1, <1>4, <1>5, <1>6, <1>7, <1>8

(* An image at full resolution that was always so is in order, and so is   *)
(* one that ends the promise.                                              *)
LEMMA ChromaReturned ==
  ASSUME IsHistory, history' = Append(history, image'),
         AlwaysFull /\ Is444(image'.siting) => Aligned(image', First)
  PROVE  ChromaInv'
<1>1. PICK img, first : img = image' /\ first = First
  OBVIOUS
<1>2. /\ IsHistory' /\ First' = first
      /\ AlwaysFull' <=> AlwaysFull /\ Is444(img.siting)
  BY <1>1, Returned
<1>3. AlwaysFull /\ Is444(img.siting) => Aligned(img, first)
  BY <1>1
<1>4. AlwaysFull' => Matched(img, first)
  BY <1>2, <1>3 DEF Matched
<1>5. AlwaysFull' => Matched(image', First')
  BY <1>1, <1>2, <1>4
<1> QED
  BY <1>2, <1>5 DEF ChromaInv

LEMMA PackedStaysTogether ==
  ASSUME Inv, ChromaInv, PackAndUnpack
  PROVE  ChromaInv'
<1>1. IsHistory /\ history' = Append(history, image')
  BY DEF ChromaInv, PackAndUnpack
<1>2. stage = "pack" /\ target \in Targets /\ image.w = target.w /\ image.h = target.h /\ Converted
  BY DEF Inv, StageInv, PackAndUnpack
<1>3. image' = [w |-> target.w, h |-> target.h, siting |-> target.siting,
                planes |-> [c \in Channels |-> Unpacked(c)]]
  BY DEF PackAndUnpack
<1>4. PICK new, first : new = image' /\ first = First
  OBVIOUS
<1>5. /\ new.w = target.w /\ new.h = target.h /\ new.siting = target.siting
      /\ \A c \in Channels : new.planes[c] = Unpacked(c)
  BY <1>3, <1>4
<1>6. ASSUME AlwaysFull, Is444(target.siting)
      PROVE  Aligned(new, first)
  <2>1. Is444(image.siting)
    BY <1>2, <1>6 DEF Converted
  <2>2. Aligned(image, first)
    BY <1>4, <1>6, <2>1 DEF ChromaInv, Matched
  <2> SUFFICES ASSUME NEW c \in {ChannelU, ChannelV}, ~ IsEmpty(new.planes[ChannelY]), ~ IsEmpty(new.planes[c]),
                      NEW q \in Pixels(target.w, target.h)
               PROVE  Together(new.planes[ChannelY].at[q], new.planes[c].at[q], first)
    BY <1>5 DEF Aligned
  <2>3. \A d \in {ChannelY, c} :
          \/ ~ IsEmpty(image.planes[d]) /\ new.planes[d].at[q] = image.planes[d].at[q]
          \/ DOMAIN new.planes[d].at[q] \subseteq Special
    BY <1>2, <1>5, <1>6, UnpackedValue, ChannelNames
  <2>4. CASE \A d \in {ChannelY, c} : ~ IsEmpty(image.planes[d]) /\ new.planes[d].at[q] = image.planes[d].at[q]
    BY <1>2, <2>2, <2>4 DEF Aligned
  <2>5. CASE \E d \in {ChannelY, c} : DOMAIN new.planes[d].at[q] \subseteq Special
    BY <2>5, SpecialTogether
  <2> QED
    BY <2>3, <2>4, <2>5
<1>7. AlwaysFull /\ Is444(image'.siting) => Aligned(image', First)
  BY <1>4, <1>5, <1>6
<1> QED
  BY <1>1, <1>7, ChromaReturned

LEMMA ResampledStaysTogether ==
  ASSUME Inv, ChromaInv, Resample
  PROVE  ChromaInv'
<1>1. IsHistory /\ history' = Append(history, image') /\ stage = "idle"
  BY DEF ChromaInv, Resample
<1>2. PICK img, new, first : img = image /\ new = image' /\ first = First
  OBVIOUS
<1>3. WellFormed(img)
  BY <1>2 DEF Inv
<1>4. ASSUME AlwaysFull, Is444(new.siting)
      PROVE  Aligned(new, first)
  <2>1. Matched(img, first)
    BY <1>1, <1>2, <1>4 DEF ChromaInv
  <2>2. CASE new = UpSample(img)
    BY <1>3, <2>1, <2>2, UpSampledAligned
  <2>3. CASE \E f \in Targets : new = DownSample(img, f.siting)
    <3>1. PICK f \in Targets : new = DownSample(img, f.siting)
      BY <2>3
    <3>2. PICK st \in Sitings : st = f.siting
      BY TargetTypes DEF Shapes
    <3>3. new.siting = st
      BY <1>3, <3>1, <3>2, DownSampleKeeps
    <3> QED
      BY <1>3, <1>4, <2>1, <3>1, <3>2, <3>3, DownSampledMatched
  <2>4. CASE \E f \in Targets : new = ScaleImage(img, f.w, f.h)
    <3>1. PICK f \in Targets : new = ScaleImage(img, f.w, f.h)
      BY <2>4
    <3>2. PICK w \in Nat \ {0}, h \in Nat \ {0} : w = f.w /\ h = f.h
      BY TargetTypes DEF Shapes
    <3> QED
      BY <1>3, <1>4, <2>1, <3>1, <3>2, ScaledMatched
  <2> QED
    BY <1>2, <2>2, <2>3, <2>4 DEF Resample
<1>5. AlwaysFull /\ Is444(image'.siting) => Aligned(image', First)
  BY <1>2, <1>4
<1> QED
  BY <1>1, <1>5, ChromaReturned

LEMMA ChromaStep == Inv /\ ChromaInv /\ [Next]_vars => ChromaInv'
<1> SUFFICES ASSUME Inv, ChromaInv, [Next]_vars PROVE ChromaInv'
  OBVIOUS
<1>1. PICK img, new, first : img = image /\ new = image' /\ first = First
  OBVIOUS
<1>2. WellFormed(img) /\ IsHistory
  BY <1>1 DEF Inv, ChromaInv
<1>3. ASSUME history' = history,
             AlwaysFull => (Matched(new, first) \/ (stage' = "pack" /\ ~ Is444(new.siting)))
      PROVE  ChromaInv'
  <2>1. IsHistory' /\ First' = first /\ (AlwaysFull' <=> AlwaysFull)
    BY <1>1, <1>2, <1>3 DEF IsHistory, First, AlwaysFull
  <2> QED
    BY <1>1, <1>3, <2>1 DEF ChromaInv
<1>4. ASSUME AlwaysFull, stage # "pack" \/ Is444(img.siting)
      PROVE  Matched(img, first)
  BY <1>1, <1>4 DEF ChromaInv
<1>5. CASE StartEncode
  BY <1>1, <1>3, <1>4, <1>5 DEF StartEncode
<1>6. CASE UpSampleToScale \/ UpSampleToResite
  <2>1. stage # "pack" /\ new = UpSample(img) /\ history' = history
    BY <1>1, <1>6 DEF UpSampleToScale, UpSampleToResite
  <2>2. AlwaysFull => Matched(new, first)
    BY <1>2, <1>4, <2>1, UpSampledAligned, UpSampleKeeps DEF Matched
  <2> QED
    BY <1>3, <2>1, <2>2
<1>7. CASE Scale
  <2>1. stage # "pack" /\ history' = history /\ Is444(img.siting) /\ target \in Targets
    BY <1>1, <1>7 DEF Scale, Inv, StageInv
  <2>2. PICK w \in Nat \ {0}, h \in Nat \ {0} : w = target.w /\ h = target.h
    BY <2>1, TargetTypes DEF Shapes
  <2>3. new = ScaleImage(img, w, h)
    BY <1>1, <1>7, <2>2 DEF Scale
  <2>4. Is444(new.siting)
    BY <1>2, <2>1, <2>3, ScaleKeeps
  <2>5. AlwaysFull => Matched(new, first)
    BY <1>2, <1>4, <2>1, <2>3, <2>4, ScaledMatched DEF Matched
  <2> QED
    BY <1>3, <2>1, <2>5
<1>8. CASE DownSampleToTarget
  <2>1. target \in Targets /\ ~ Is444(target.siting) /\ stage' = "pack" /\ history' = history
    BY <1>8 DEF DownSampleToTarget, Inv, StageInv
  <2>2. PICK st \in Sitings : st = target.siting
    BY <2>1, TargetTypes DEF Shapes
  <2>3. new = DownSample(img, st)
    BY <1>1, <1>8, <2>2 DEF DownSampleToTarget
  <2>4. new.siting = st
    BY <1>2, <2>3, DownSampleKeeps
  <2> QED
    BY <1>3, <2>1, <2>2, <2>4
<1>9. CASE EndConversion
  BY <1>1, <1>3, <1>4, <1>9 DEF EndConversion
<1>10. CASE PackAndUnpack
  BY <1>10, PackedStaysTogether
<1>11. CASE Resample
  BY <1>11, ResampledStaysTogether
<1>12. CASE Finished \/ UNCHANGED vars
  <2>1. image' = image /\ stage' = stage /\ history' = history
    BY <1>12 DEF Finished, vars
  <2> QED
    BY <2>1 DEF ChromaInv, IsHistory, First, AlwaysFull
<1> QED
  BY <1>5, <1>6, <1>7, <1>8, <1>9, <1>10, <1>11, <1>12 DEF Next

LEMMA ChromaStart == Init => ChromaInv
<1> SUFFICES ASSUME Init PROVE ChromaInv
  OBVIOUS
<1>1. PICK f \in Originals : image = ImageOf(f)
  BY DEF Init
<1>2. PICK img : img = image
  OBVIOUS
<1>3. history = <<img>>
  BY <1>2 DEF Init
<1>4. <<img>> \in Seq({img}) /\ <<img>> # <<>> /\ <<img>>[1] = img
  OBVIOUS
<1>5. IsHistory /\ First = img.siting
  BY <1>3, <1>4 DEF IsHistory, First
<1>6. img = ImageOf(f) /\ img.siting = f.siting
  BY <1>1, <1>2 DEF ImageOf
<1> QED
  BY <1>2, <1>5, <1>6, OriginalAligned DEF ChromaInv

(* Scaled, up-sampled and converted between formats of full resolution, in *)
(* any order and to any sizes, an image never shows the chroma of another  *)
(* macro pixel than the one its luma is from.                              *)
THEOREM ChromaStaysWithLuma == Spec => []ChromaFollowsLuma
<1>1. ChromaInv => ChromaFollowsLuma
  <2> SUFFICES ASSUME ChromaInv PROVE ChromaFollowsLuma
    OBVIOUS
  <2>1. PICK img, first : img = image /\ first = First
    OBVIOUS
  <2>2. Is444(img.siting) /\ AlwaysFull => Aligned(img, first)
    BY <2>1 DEF ChromaInv, Matched
  <2> SUFFICES ASSUME Is444(image.siting), \A i \in 2 .. Len(history) : Is444(history[i].siting),
                      ~ IsEmpty(image.planes[ChannelY]),
                      NEW c \in {ChannelU, ChannelV}, ~ IsEmpty(image.planes[c]),
                      NEW q \in Pixels(image.w, image.h),
                      NEW l \in DOMAIN image.planes[ChannelY].at[q] \ {Outside, Poison, Opaque},
                      NEW s \in DOMAIN image.planes[c].at[q] \ {Outside, Poison, Opaque}
               PROVE  s = <<l[1] \div history[1].siting.mw, l[2] \div history[1].siting.mh>>
    BY DEF ChromaFollowsLuma
  <2>3. Aligned(img, first)
    BY <2>1, <2>2 DEF AlwaysFull
  <2>4. Together(img.planes[ChannelY].at[q], img.planes[c].at[q], first)
    BY <2>1, <2>3 DEF Aligned
  <2>5. s = <<l[1] \div first.mw, l[2] \div first.mh>>
    BY <2>1, <2>4 DEF Together, Special
  <2> QED
    BY <2>1, <2>5 DEF First
<1>2. Inv /\ ChromaInv /\ [Next]_vars => ChromaInv'
  BY ChromaStep
<1> QED
  BY <1>1, <1>2, ChromaStart, Invariance, PTL DEF Spec

-----------------------------------------------------------------------------
(* Sums over finite sets, as MapThenSumSet adds them up. Induction is over *)
(* the subsets of the set summed over.                                     *)

(* Induction over a finite set, for a set of subsets in place of a         *)
(* predicate.                                                              *)
LEMMA SubsetInduction ==
  ASSUME NEW T, IsFiniteSet(T), NEW G, {} \in G,
         \A s \in SUBSET T, x \in T : s \in G /\ x \notin s => s \cup {x} \in G
  PROVE  T \in G
<1> SUFFICES ASSUME T \notin G PROVE FALSE
  OBVIOUS
<1> DEFINE bad == {s \in SUBSET T : s \notin G}
<1>1. IsWellFoundedOn(StrictSubsetOrdering(T), SUBSET T)
  BY FS_StrictSubsetOrderingWellFounded, FS_FiniteSubsetsOfFinite
<1>2. bad \subseteq SUBSET T /\ T \in bad
  OBVIOUS
<1>3. PICK s \in bad : \A r \in bad : ~ (<<r, s>> \in StrictSubsetOrdering(T))
  <2> HIDE DEF bad
  <2> QED  BY <1>1, <1>2, WFMin
<1>4. PICK x \in s : TRUE
  BY <1>3
<1>5. s \ {x} \in SUBSET T /\ s \ {x} # s /\ s \ {x} \subseteq s /\ (s \ {x}) \cup {x} = s /\ x \in T
  OBVIOUS
<1>6. <<s \ {x}, s>> \in StrictSubsetOrdering(T)
  BY <1>5 DEF StrictSubsetOrdering
<1>7. s \ {x} \in G
  BY <1>3, <1>5, <1>6
<1>8. s \in G
  BY <1>5, <1>7
<1> QED  BY <1>8

(* MapThenSumSet: the sum of v over T, taken apart by the elements that    *)
(* CHOOSE happens to pick.                                                 *)
Sum(v, T) == MapThenSumSet(LAMBDA t : v[t], T)

(* The element that CHOOSE takes out first, and the running total it       *)
(* makes.                                                                  *)
Pick(s) == CHOOSE x \in s : TRUE
Tally(v, T, g) == g = [s \in SUBSET T |-> IF s = {} THEN 0 ELSE v[Pick(s)] + g[s \ {Pick(s)}]]

(* A tally of the subsets up to a size.                                    *)
Small(T, n) == {u \in SUBSET T : Cardinality(u) <= n}
TallyUpTo(v, T, n, g) ==
  g = [s \in Small(T, n) |-> IF s = {} THEN 0 ELSE v[Pick(s)] + g[s \ {Pick(s)}]]

(* What is picked from a set is in it.                                     *)
LEMMA Picked ==
  ASSUME NEW s, s # {}
  PROVE  Pick(s) \in s
BY DEF Pick

(* There is such a tally: the function that MapThenSumSet chooses exists.  *)
LEMMA TallyExists ==
  ASSUME NEW T, IsFiniteSet(T), NEW v
  PROVE  \E g : Tally(v, T, g)
<1> DEFINE G == {s \in SUBSET T : \E g : TallyUpTo(v, T, Cardinality(s), g)}
<1>1. \A u \in SUBSET T : IsFiniteSet(u) /\ Cardinality(u) \in Nat
  BY FS_Subset, FS_CardinalityType
<1>2. {} \in G
  <2> DEFINE g == [s \in {{}} |-> 0]
  <2>1. Cardinality({}) = 0 /\ Small(T, 0) = {{}}
    BY <1>1, FS_EmptySet DEF Small
  <2>2. g[{}] = 0 /\ g = [s \in {{}} |-> IF s = {} THEN 0 ELSE v[Pick(s)] + g[s \ {Pick(s)}]]
    OBVIOUS
  <2>3. TallyUpTo(v, T, 0, g)
    BY <2>1, <2>2 DEF TallyUpTo
  <2> QED  BY <2>1, <2>3
<1>3. ASSUME NEW s \in SUBSET T, NEW x \in T, s \in G, x \notin s
      PROVE  s \cup {x} \in G
  <2> DEFINE n == Cardinality(s)
  <2>1. PICK g : TallyUpTo(v, T, n, g)
    BY <1>3
  <2>2. Cardinality(s \cup {x}) = n + 1 /\ n \in Nat
    BY <1>1, <1>3, FS_AddElement
  <2> DEFINE m == n + 1
             value(u) == IF u = {} THEN 0 ELSE v[Pick(u)] + g[u \ {Pick(u)}]
             h == [u \in Small(T, m) |-> value(u)]
  <2> HIDE DEF n, value
  <2>3. \A u \in Small(T, n) : u \in Small(T, m) /\ g[u] = value(u) /\ h[u] = value(u)
    <3>1. ASSUME NEW u \in Small(T, n)
          PROVE  u \in Small(T, m)
      <4>1. u \in SUBSET T /\ Cardinality(u) \in Nat /\ Cardinality(u) <= n
        BY <1>1 DEF Small
      <4> QED  BY <2>2, <4>1 DEF n, Small
    <3>2. \A u \in Small(T, n) : g[u] = value(u)
      BY <2>1 DEF TallyUpTo, value
    <3> QED  BY <3>1, <3>2
  <2>4. ASSUME NEW u \in Small(T, m), u # {}
        PROVE  u \ {Pick(u)} \in Small(T, n)
    <3>1. Pick(u) \in u
      BY <2>4, Picked
    <3>2. u \in SUBSET T /\ Cardinality(u) <= m
      BY DEF Small
    <3>3. Cardinality(u \ {Pick(u)}) = Cardinality(u) - 1
      BY <1>1, <3>1, <3>2, FS_RemoveElement
    <3> QED  BY <1>1, <2>2, <3>2, <3>3 DEF Small
  <2>5. \A u \in Small(T, m) : value(u) = (IF u = {} THEN 0 ELSE v[Pick(u)] + h[u \ {Pick(u)}])
    BY <2>3, <2>4 DEF value
  <2>6. TallyUpTo(v, T, m, h)
    <3>1. h = [u \in Small(T, m) |-> IF u = {} THEN 0 ELSE v[Pick(u)] + h[u \ {Pick(u)}]]
      BY <2>5
    <3> HIDE DEF h
    <3> QED  BY <3>1 DEF TallyUpTo
  <2> QED  BY <2>2, <2>6
<1>4. T \in G
  <2> HIDE DEF G
  <2> QED  BY <1>2, <1>3, SubsetInduction
<1>5. PICK g : TallyUpTo(v, T, Cardinality(T), g)
  BY <1>4
<1>6. Small(T, Cardinality(T)) = SUBSET T
  BY FS_Subset DEF Small
<1> QED  BY <1>5, <1>6 DEF TallyUpTo, Tally

(* In a tally it does not matter which element is taken first.             *)
LEMMA TallyInAnyOrder ==
  ASSUME NEW T, IsFiniteSet(T), NEW v, \A t \in T : v[t] \in Int, NEW g, Tally(v, T, g)
  PROVE  /\ g[{}] = 0
         /\ \A s \in SUBSET T : g[s] \in Int /\ \A x \in s : g[s] = v[x] + g[s \ {x}]
<1> DEFINE good(s) == g[s] \in Int /\ \A x \in s : g[s] = v[x] + g[s \ {x}]
           bad == {s \in SUBSET T : ~ good(s)}
<1>0. \A s \in SUBSET T : g[s] = IF s = {} THEN 0 ELSE v[Pick(s)] + g[s \ {Pick(s)}]
  BY DEF Tally
<1>1. g[{}] = 0
  BY <1>0
<1>2. SUFFICES ASSUME bad # {} PROVE FALSE
  BY <1>1
<1>3. IsWellFoundedOn(StrictSubsetOrdering(T), SUBSET T)
  BY FS_StrictSubsetOrderingWellFounded, FS_FiniteSubsetsOfFinite
<1>4. bad \subseteq SUBSET T
  OBVIOUS
<1>5. PICK s \in bad : \A r \in bad : ~ (<<r, s>> \in StrictSubsetOrdering(T))
  <2> HIDE DEF bad
  <2> QED  BY <1>2, <1>3, <1>4, WFMin
<1>6. ASSUME NEW r \in SUBSET s, r # s
      PROVE  good(r)
  <2>1. r \in SUBSET T /\ <<r, s>> \in StrictSubsetOrdering(T)
    BY <1>6 DEF StrictSubsetOrdering
  <2> QED  BY <1>5, <2>1
<1>7. s # {}
  <2>1. good({})
    BY <1>1
  <2>2. ~ good(s)
    BY <1>5
  <2> HIDE DEF good
  <2> QED  BY <2>1, <2>2
<1>8. PICK y \in s : y = Pick(s) /\ g[s] = v[y] + g[s \ {y}]
  BY <1>0, <1>7, Picked
<1>9. good(s \ {y}) /\ v[y] \in Int
  BY <1>6
<1>10. ASSUME NEW x \in s
       PROVE  g[s] = v[x] + g[s \ {x}]
  <2>1. CASE x = y
    BY <1>8, <2>1
  <2>2. CASE x # y
    <3>1. g[s \ {y}] = v[x] + g[(s \ {y}) \ {x}]
      BY <1>9, <2>2
    <3>2. good(s \ {x}) /\ v[x] \in Int
      BY <1>6
    <3>3. g[s \ {x}] = v[y] + g[(s \ {x}) \ {y}]
      BY <2>2, <3>2
    <3>4. (s \ {x}) \ {y} = (s \ {y}) \ {x} /\ (s \ {y}) \ {x} # s
      OBVIOUS
    <3>5. g[(s \ {y}) \ {x}] \in Int
      BY <1>6, <3>4
    <3> DEFINE a == g[(s \ {y}) \ {x}]
    <3>6. g[s] = v[y] + (v[x] + a) /\ g[s \ {x}] = v[y] + a
      BY <1>8, <3>1, <3>3, <3>4
    <3>7. a \in Int /\ v[x] \in Int /\ v[y] \in Int
      BY <1>9, <3>2, <3>5
    <3> HIDE DEF a
    <3>8. v[y] + (v[x] + a) = v[x] + (v[y] + a)
      BY <3>7
    <3> QED  BY <3>6, <3>8
  <2> QED  BY <2>1, <2>2
<1>11. g[s] \in Int
  BY <1>8, <1>9
<1> QED  BY <1>10, <1>11

(* What is equal to the tally where it does.                               *)
LEMMA TallyUnique ==
  ASSUME NEW T, IsFiniteSet(T), NEW v, NEW g, Tally(v, T, g), NEW S \in SUBSET T, NEW h, Tally(v, S, h)
  PROVE  g[S] = h[S]
<1> DEFINE G == {s \in SUBSET S : g[s] = h[s]}
           bad == {s \in SUBSET S : s \notin G}
<1>0. \A s \in SUBSET T : g[s] = IF s = {} THEN 0 ELSE v[Pick(s)] + g[s \ {Pick(s)}]
  BY DEF Tally
<1>1. \A s \in SUBSET S : h[s] = IF s = {} THEN 0 ELSE v[Pick(s)] + h[s \ {Pick(s)}]
  BY DEF Tally
<1>2. SUFFICES ASSUME bad # {} PROVE FALSE
  OBVIOUS
<1>3. IsWellFoundedOn(StrictSubsetOrdering(S), SUBSET S)
  BY FS_Subset, FS_StrictSubsetOrderingWellFounded, FS_FiniteSubsetsOfFinite
<1>4. bad \subseteq SUBSET S
  OBVIOUS
<1>5. PICK s \in bad : \A r \in bad : ~ (<<r, s>> \in StrictSubsetOrdering(S))
  <2> HIDE DEF bad
  <2> QED  BY <1>2, <1>3, <1>4, WFMin
<1>6. s # {}
  BY <1>0, <1>1
<1>7. PICK y \in s : y = Pick(s)
  BY <1>6, Picked
<1>8. s \ {y} \in SUBSET S /\ <<s \ {y}, s>> \in StrictSubsetOrdering(S)
  BY DEF StrictSubsetOrdering
<1>9. g[s \ {y}] = h[s \ {y}]
  BY <1>5, <1>8
<1>10. g[s] = v[y] + g[s \ {y}] /\ h[s] = v[y] + h[s \ {y}]
  BY <1>0, <1>1, <1>6, <1>7
<1> QED  BY <1>9, <1>10

(* A sum is what the tally says of the whole set.                          *)
LEMMA SumIsTally ==
  ASSUME NEW T, IsFiniteSet(T), NEW v
  PROVE  \E g : Tally(v, T, g) /\ Sum(v, T) = g[T]
<1> DEFINE it == CHOOSE g : Tally(v, T, g)
<1>1. Sum(v, T) = it[T]
  BY DEF Sum, MapThenSumSet, MapThenFoldSet, Tally, Pick
<1>2. Tally(v, T, it)
  BY TallyExists
<1> QED  BY <1>1, <1>2

(* Nothing adds up to zero.                                                *)
LEMMA SumOfNone ==
  ASSUME NEW v
  PROVE  Sum(v, {}) = 0
<1>1. PICK g : Tally(v, {}, g) /\ Sum(v, {}) = g[{}]
  BY SumIsTally, FS_EmptySet
<1> QED  BY <1>1 DEF Tally

(* Any element can be taken out of a sum.                                  *)
LEMMA SumTakesOut ==
  ASSUME NEW T, IsFiniteSet(T), NEW v, \A t \in T : v[t] \in Int
  PROVE  /\ Sum(v, T) \in Int
         /\ \A x \in T : Sum(v, T) = v[x] + Sum(v, T \ {x})
<1>1. PICK g : Tally(v, T, g) /\ Sum(v, T) = g[T]
  BY SumIsTally
<1>2. g[T] \in Int /\ \A x \in T : g[T] = v[x] + g[T \ {x}]
  BY <1>1, TallyInAnyOrder
<1>3. ASSUME NEW x \in T
      PROVE  Sum(v, T \ {x}) = g[T \ {x}]
  <2>1. IsFiniteSet(T \ {x})
    BY FS_RemoveElement
  <2>2. PICK h : Tally(v, T \ {x}, h) /\ Sum(v, T \ {x}) = h[T \ {x}]
    BY <2>1, SumIsTally
  <2>3. T \ {x} \in SUBSET T
    OBVIOUS
  <2> QED  BY <1>1, <2>2, <2>3, TallyUnique
<1> QED  BY <1>1, <1>2, <1>3

(* An element more adds its value.                                         *)
LEMMA SumAdds ==
  ASSUME NEW T, IsFiniteSet(T), NEW v, \A t \in T : v[t] \in Int, NEW s \in SUBSET T, NEW x \in T, x \notin s
  PROVE  Sum(v, s \cup {x}) = v[x] + Sum(v, s) /\ Sum(v, s) \in Int
<1>1. IsFiniteSet(s) /\ IsFiniteSet(s \cup {x})
  BY FS_Subset, FS_AddElement
<1>2. (s \cup {x}) \ {x} = s /\ x \in s \cup {x} /\ (\A t \in s \cup {x} : v[t] \in Int) /\ \A t \in s : v[t] \in Int
  OBVIOUS
<1>3. Sum(v, s \cup {x}) = v[x] + Sum(v, (s \cup {x}) \ {x})
  BY <1>1, <1>2, SumTakesOut
<1>4. Sum(v, s) \in Int
  BY <1>1, <1>2, SumTakesOut
<1> QED  BY <1>2, <1>3, <1>4

(* Sums are linear in what is summed.                                      *)
LEMMA SumIsLinear ==
  ASSUME NEW T, IsFiniteSet(T), NEW k \in Int, NEW a, NEW b, NEW c,
         \A t \in T : a[t] \in Int /\ b[t] \in Int /\ c[t] = k * a[t] + b[t]
  PROVE  Sum(c, T) = k * Sum(a, T) + Sum(b, T)
<1> DEFINE G == {s \in SUBSET T : Sum(c, s) = k * Sum(a, s) + Sum(b, s)}
<1>0. \A t \in T : k * a[t] \in Int /\ c[t] \in Int
  OBVIOUS
<1>1. {} \in G
  <2>1. Sum(a, {}) = 0 /\ Sum(b, {}) = 0 /\ Sum(c, {}) = 0
    BY SumOfNone
  <2>2. Sum(c, {}) = k * Sum(a, {}) + Sum(b, {})
    BY <2>1
  <2> QED  BY <2>2
<1>2. ASSUME NEW s \in SUBSET T, NEW x \in T, s \in G, x \notin s
      PROVE  s \cup {x} \in G
  <2>1. Sum(a, s \cup {x}) = a[x] + Sum(a, s) /\ Sum(a, s) \in Int
    BY <1>2, SumAdds
  <2>2. Sum(b, s \cup {x}) = b[x] + Sum(b, s) /\ Sum(b, s) \in Int
    BY <1>2, SumAdds
  <2>3. Sum(c, s \cup {x}) = c[x] + Sum(c, s)
    BY <1>0, <1>2, SumAdds
  <2>4. Sum(c, s) = k * Sum(a, s) + Sum(b, s)
    BY <1>2
  <2> DEFINE p == Sum(a, s)
             q == Sum(b, s)
  <2>5. p \in Int /\ q \in Int /\ a[x] \in Int /\ b[x] \in Int /\ c[x] = k * a[x] + b[x]
    BY <2>1, <2>2
  <2> HIDE DEF p, q
  <2>6. (k * a[x] + b[x]) + (k * p + q) = k * (a[x] + p) + (b[x] + q)
    <3>1. k * (a[x] + p) = k * a[x] + k * p /\ k * a[x] \in Int /\ k * p \in Int
      BY <2>5, Z3
    <3> QED  BY <2>5, <3>1
  <2>7. Sum(c, s \cup {x}) = k * Sum(a, s \cup {x}) + Sum(b, s \cup {x})
    BY <2>1, <2>2, <2>3, <2>4, <2>5, <2>6 DEF p, q
  <2> QED  BY <2>7
<1>3. T \in G
  <2> HIDE DEF G
  <2> QED  BY <1>1, <1>2, SubsetInduction
<1> QED  BY <1>3

(* Functions that agree have the same sum.                                 *)
LEMMA SumAgrees ==
  ASSUME NEW T, IsFiniteSet(T), NEW v, NEW w, \A t \in T : v[t] \in Int /\ w[t] = v[t]
  PROVE  Sum(w, T) = Sum(v, T)
<1>1. \A t \in T : w[t] = 0 * v[t] + v[t]
  OBVIOUS
<1>2. Sum(w, T) = 0 * Sum(v, T) + Sum(v, T) /\ Sum(v, T) \in Int
  BY <1>1, SumIsLinear, SumTakesOut
<1> QED  BY <1>2

(* Where a function is zero it adds nothing.                               *)
LEMMA SumWithoutZeros ==
  ASSUME NEW T, IsFiniteSet(T), NEW v, \A t \in T : v[t] \in Int, NEW S \in SUBSET T, \A t \in T \ S : v[t] = 0
  PROVE  Sum(v, T) = Sum(v, S)
<1> DEFINE G == {s \in SUBSET T : Sum(v, s) = Sum(v, s \cap S)}
<1>1. {} \in G
  <2>1. {} \cap S = {}
    OBVIOUS
  <2> QED  BY <2>1
<1>2. ASSUME NEW s \in SUBSET T, NEW x \in T, s \in G, x \notin s
      PROVE  s \cup {x} \in G
  <2>1. Sum(v, s \cup {x}) = v[x] + Sum(v, s)
    BY <1>2, SumAdds
  <2>2. CASE x \in S
    <3>1. (s \cup {x}) \cap S = (s \cap S) \cup {x} /\ s \cap S \in SUBSET T /\ x \notin s \cap S
      BY <1>2, <2>2
    <3>2. Sum(v, (s \cap S) \cup {x}) = v[x] + Sum(v, s \cap S)
      BY <3>1, SumAdds
    <3> QED  BY <1>2, <2>1, <3>1, <3>2
  <2>3. CASE x \notin S
    <3>1. (s \cup {x}) \cap S = s \cap S /\ v[x] = 0
      BY <2>3
    <3>2. Sum(v, s) \in Int
      BY <1>2, SumAdds
    <3>3. Sum(v, s \cup {x}) = Sum(v, s)
      BY <2>1, <3>1, <3>2
    <3>4. Sum(v, s) = Sum(v, s \cap S)
      BY <1>2
    <3>5. Sum(v, s \cup {x}) = Sum(v, (s \cup {x}) \cap S)
      BY <3>1, <3>3, <3>4, Zenon
    <3> QED  BY <3>5
  <2> QED  BY <2>2, <2>3
<1>3. T \in G
  <2> HIDE DEF G
  <2> QED  BY <1>1, <1>2, SubsetInduction
<1>4. T \cap S = S
  OBVIOUS
<1> QED  BY <1>3, <1>4

-----------------------------------------------------------------------------
(* Blend as a sum.                                                         *)

(* The part of a source in a value.                                        *)
Part(v, t) == IF t \in DOMAIN v THEN v[t] ELSE 0

(* What each pixel adds to the blend's part of t, as Blend writes it.      *)
Shares(weights, values, t) == [b \in DOMAIN values |-> IF t \in DOMAIN values[b] THEN weights[b] * values[b][t] ELSE 0]
Shared(weights, values, t) ==
  MapThenSumSet(LAMBDA b : IF t \in DOMAIN values[b] THEN weights[b] * values[b][t] ELSE 0, DOMAIN values)

(* Blend adds up the shares.                                               *)
LEMMA SharedIsSum ==
  ASSUME NEW weights, NEW values, IsFiniteSet(DOMAIN values), NEW t
  PROVE  Shared(weights, values, t) = Sum(Shares(weights, values, t), DOMAIN values)
<1> DEFINE D == DOMAIN values
           v == Shares(weights, values, t)
           Same(g) == g = [s \in SUBSET D |-> IF s = {} THEN 0
                             ELSE (IF t \in DOMAIN values[Pick(s)] THEN weights[Pick(s)] * values[Pick(s)][t] ELSE 0)
                                    + g[s \ {Pick(s)}]]
           it == CHOOSE g : Same(g)
<1>1. Shared(weights, values, t) = it[D]
  BY DEF Shared, MapThenSumSet, MapThenFoldSet, Pick
<1>2. ASSUME NEW g
      PROVE  Same(g) <=> Tally(v, D, g)
  <2>1. \A s \in SUBSET D : s # {} =>
          v[Pick(s)] = IF t \in DOMAIN values[Pick(s)] THEN weights[Pick(s)] * values[Pick(s)][t] ELSE 0
    BY Picked DEF Shares
  <2>2. [s \in SUBSET D |-> IF s = {} THEN 0
           ELSE (IF t \in DOMAIN values[Pick(s)] THEN weights[Pick(s)] * values[Pick(s)][t] ELSE 0) + g[s \ {Pick(s)}]]
          = [s \in SUBSET D |-> IF s = {} THEN 0 ELSE v[Pick(s)] + g[s \ {Pick(s)}]]
    BY <2>1
  <2> QED  BY <2>2 DEF Tally
<1>3. \E g : Same(g)
  BY <1>2, TallyExists
<1>4. Same(it)
  BY <1>3
<1>5. Tally(v, D, it)
  BY <1>2, <1>4
<1>6. PICK g : Tally(v, D, g) /\ Sum(v, D) = g[D]
  BY SumIsTally
<1>7. it[D] = g[D]
  <2> HIDE DEF it
  <2> QED  BY <1>5, <1>6, TallyUnique
<1> QED  BY <1>1, <1>6, <1>7

(* A blend consists of the totals that are not zero.                       *)
Total(weights, values, t) == Sum(Shares(weights, values, t), DOMAIN values) \div 4

(* Blend in terms of its totals.                                           *)
LEMMA BlendIs ==
  ASSUME NEW weights, NEW values, IsFiniteSet(DOMAIN values),
         NEW sources, sources = UNION {DOMAIN values[b] : b \in DOMAIN values}
  PROVE  Blend(weights, values) = [t \in {s \in sources : Total(weights, values, s) # 0} |-> Total(weights, values, t)]
<1> DEFINE total(t) == Total(weights, values, t)
           old == [t \in sources |-> Shared(weights, values, t) \div 4]
<1>1. Blend(weights, values) = [s \in {t \in sources : old[t] # 0} |-> old[s]]
  BY DEF Blend, Shared
<1>2. \A t \in sources : old[t] = total(t)
  BY SharedIsSum DEF Total
<1> HIDE DEF old, total
<1>3. [s \in {t \in sources : old[t] # 0} |-> old[s]] = [t \in {s \in sources : total(s) # 0} |-> total(t)]
  BY <1>2
<1> QED  BY <1>1, <1>3 DEF total

-----------------------------------------------------------------------------
(* Sums over the corners of a rectangle.                                   *)

(* The corners of a rectangle, which may be a line or a point.             *)
Corners(x0, x1, y0, y1) == {<<x0, y0>>, <<x1, y0>>, <<x0, y1>>, <<x1, y1>>}
Once(i, j) == IF i = j THEN 2 ELSE 1

(* As SumAdds, for sets that are given by name.                            *)
LEMMA SumAndOneMore ==
  ASSUME NEW S, IsFiniteSet(S), NEW v, \A t \in S : v[t] \in Int, NEW x, x \notin S, v[x] \in Int, NEW R, R = S \cup {x}
  PROVE  IsFiniteSet(R) /\ (\A t \in R : v[t] \in Int) /\ Sum(v, S) \in Int /\ Sum(v, R) = v[x] + Sum(v, S)
<1>1. IsFiniteSet(R)
  BY FS_AddElement
<1>2. \A t \in R : v[t] \in Int
  OBVIOUS
<1>3. S \in SUBSET R /\ x \in R
  OBVIOUS
<1> QED  BY <1>1, <1>2, <1>3, SumAdds

(* The sum over one element.                                               *)
LEMMA SumOfOne ==
  ASSUME NEW v, NEW a, v[a] \in Int
  PROVE  IsFiniteSet({a}) /\ Sum(v, {a}) = v[a]
<1>1. IsFiniteSet({}) /\ Sum(v, {}) = 0
  BY FS_EmptySet, SumOfNone
<1>2. {a} = {} \cup {a}
  OBVIOUS
<1>3. PICK S, R : S = {} /\ R = {a}
  OBVIOUS
<1>4. IsFiniteSet(S) /\ (\A t \in S : v[t] \in Int) /\ a \notin S /\ R = S \cup {a}
  BY <1>1, <1>2, <1>3
<1>5. IsFiniteSet(R) /\ Sum(v, R) = v[a] + Sum(v, S)
  BY <1>4, SumAndOneMore
<1>6. Sum(v, S) = 0
  BY <1>1, <1>3
<1>7. Sum(v, R) = v[a]
  BY <1>5, <1>6
<1> QED  BY <1>3, <1>5, <1>7

(* The sum over two.                                                       *)
LEMMA SumOfPair ==
  ASSUME NEW v, NEW a, NEW b, v[a] \in Int, v[b] \in Int, a # b
  PROVE  IsFiniteSet({a, b}) /\ Sum(v, {a, b}) = v[a] + v[b]
<1>1. PICK S, R : S = {a} /\ R = {a, b}
  OBVIOUS
<1>2. IsFiniteSet(S) /\ Sum(v, S) = v[a]
  BY <1>1, SumOfOne
<1>3. (\A t \in S : v[t] \in Int) /\ b \notin S /\ R = S \cup {b}
  BY <1>1
<1>4. IsFiniteSet(R) /\ Sum(v, R) = v[b] + Sum(v, S)
  BY <1>2, <1>3, SumAndOneMore
<1>5. Sum(v, R) = v[a] + v[b]
  BY <1>2, <1>4
<1> QED  BY <1>1, <1>4, <1>5

(* Four elements that all differ, and what they add up to.                 *)
AllFour(v, a, b, c, d) == v[a] + v[b] + v[c] + v[d]
AllDifferent(a, b, c, d) == a # b /\ c # d /\ a # c /\ a # d /\ b # c /\ b # d

(* The sum over four.                                                      *)
LEMMA SumOfFour ==
  ASSUME NEW v, NEW a, NEW b, NEW c, NEW d, v[a] \in Int, v[b] \in Int, v[c] \in Int, v[d] \in Int,
         AllDifferent(a, b, c, d), NEW T, T = {a, b, c, d}
  PROVE  IsFiniteSet(T) /\ Sum(v, T) = AllFour(v, a, b, c, d)
<1>1. PICK S, R : S = {a, b} /\ R = {a, b, c}
  OBVIOUS
<1>2. IsFiniteSet(S) /\ Sum(v, S) = v[a] + v[b]
  BY <1>1, SumOfPair DEF AllDifferent
<1>3. (\A t \in S : v[t] \in Int) /\ c \notin S /\ R = S \cup {c} /\ d \notin R /\ T = R \cup {d}
  BY <1>1 DEF AllDifferent
<1>4. IsFiniteSet(R) /\ Sum(v, R) = v[c] + Sum(v, S) /\ \A t \in R : v[t] \in Int
  BY <1>2, <1>3, SumAndOneMore
<1>5. IsFiniteSet(T) /\ Sum(v, T) = v[d] + Sum(v, R)
  BY <1>3, <1>4, SumAndOneMore
<1>6. Sum(v, T) = AllFour(v, a, b, c, d)
  BY <1>2, <1>4, <1>5 DEF AllFour
<1> QED  BY <1>1, <1>5, <1>6

(* Corners that coincide count as often as they are named.                 *)
LEMMA SumOfCorners ==
  ASSUME NEW x0, NEW x1, NEW y0, NEW y1, NEW v, \A b \in Corners(x0, x1, y0, y1) : v[b] \in Int
  PROVE  /\ IsFiniteSet(Corners(x0, x1, y0, y1))
         /\ Once(x0, x1) * Once(y0, y1) * Sum(v, Corners(x0, x1, y0, y1))
              = v[<<x0, y0>>] + v[<<x1, y0>>] + v[<<x0, y1>>] + v[<<x1, y1>>]
<1> DEFINE a == <<x0, y0>>
           b == <<x1, y0>>
           c == <<x0, y1>>
           d == <<x1, y1>>
           T == Corners(x0, x1, y0, y1)
<1>1. T = {a, b, c, d} /\ v[a] \in Int /\ v[b] \in Int /\ v[c] \in Int /\ v[d] \in Int
  BY DEF Corners
<1>2. CASE x0 = x1 /\ y0 = y1
  <2>1. T = {a} /\ b = a /\ c = a /\ d = a
    BY <1>1, <1>2
  <2>2. IsFiniteSet(T) /\ Sum(v, T) = v[a]
    <3> HIDE DEF a, b, c, d, T
    <3> QED  BY <1>1, <2>1, SumOfOne
  <2>3. Once(x0, x1) = 2 /\ Once(y0, y1) = 2
    BY <1>2 DEF Once
  <2> HIDE DEF a, b, c, d, T
  <2>4. 2 * 2 * Sum(v, T) = v[a] + v[b] + v[c] + v[d]
    BY <1>1, <2>1, <2>2
  <2> QED  BY <2>2, <2>3, <2>4 DEF a, b, c, d, T
<1>3. CASE x0 = x1 /\ y0 # y1
  <2>1. T = {a, c} /\ b = a /\ c = d /\ a # c
    BY <1>1, <1>3
  <2>2. IsFiniteSet(T) /\ Sum(v, T) = v[a] + v[c]
    <3> HIDE DEF a, b, c, d, T
    <3>1. IsFiniteSet({a, c}) /\ Sum(v, {a, c}) = v[a] + v[c]
      BY <1>1, <2>1, SumOfPair, Zenon
    <3> QED  BY <2>1, <3>1, Zenon
  <2>3. Once(x0, x1) = 2 /\ Once(y0, y1) = 1
    BY <1>3 DEF Once
  <2> HIDE DEF a, b, c, d, T
  <2>4. 2 * 1 * Sum(v, T) = v[a] + v[b] + v[c] + v[d]
    BY <1>1, <2>1, <2>2
  <2> QED  BY <2>2, <2>3, <2>4 DEF a, b, c, d, T
<1>4. CASE x0 # x1 /\ y0 = y1
  <2>1. T = {a, b} /\ c = a /\ d = b /\ a # b
    BY <1>1, <1>4
  <2>2. IsFiniteSet(T) /\ Sum(v, T) = v[a] + v[b]
    <3> HIDE DEF a, b, c, d, T
    <3>1. IsFiniteSet({a, b}) /\ Sum(v, {a, b}) = v[a] + v[b]
      BY <1>1, <2>1, SumOfPair, Zenon
    <3> QED  BY <2>1, <3>1, Zenon
  <2>3. Once(x0, x1) = 1 /\ Once(y0, y1) = 2
    BY <1>4 DEF Once
  <2> HIDE DEF a, b, c, d, T
  <2>4. 1 * 2 * Sum(v, T) = v[a] + v[b] + v[c] + v[d]
    BY <1>1, <2>1, <2>2
  <2> QED  BY <2>2, <2>3, <2>4 DEF a, b, c, d, T
<1>5. CASE x0 # x1 /\ y0 # y1
  <2>1. AllDifferent(a, b, c, d)
    BY <1>5 DEF AllDifferent
  <2>2. IsFiniteSet(T) /\ Sum(v, T) = v[a] + v[b] + v[c] + v[d]
    <3> HIDE DEF a, b, c, d, T
    <3>0. v[a] \in Int /\ v[b] \in Int /\ v[c] \in Int /\ v[d] \in Int
      BY <1>1
    <3>1. T = {a, b, c, d}
      BY <1>1
    <3>2. IsFiniteSet(T) /\ Sum(v, T) = AllFour(v, a, b, c, d)
      BY <2>1, <3>0, <3>1, SumOfFour
    <3> QED  BY <3>2 DEF AllFour
  <2>3. Once(x0, x1) = 1 /\ Once(y0, y1) = 1
    BY <1>5 DEF Once
  <2> HIDE DEF a, b, c, d, T
  <2>4. 1 * 1 * Sum(v, T) = v[a] + v[b] + v[c] + v[d]
    BY <1>1, <2>1, <2>2
  <2> QED  BY <2>2, <2>3, <2>4 DEF a, b, c, d, T
<1> QED  BY <1>2, <1>3, <1>4, <1>5

-----------------------------------------------------------------------------
(* The weights of down_sample.                                             *)

(* A sample point lies on a pixel or half way between two: those are near. *)
LEMMA NearTo ==
  ASSUME NEW p \in Nat, NEW m \in Nat \ {0}, p <= 2 * (m - 1)
  PROVE  \E i \in 0 .. m - 1, j \in 0 .. m - 1 :
           /\ i + j = p /\ j \in {i, i + 1}
           /\ \A b \in 0 .. m - 1 : \/ b \in {i, j} /\ Nearness(p, b) = Once(i, j)
                                    \/ b \notin {i, j} /\ Nearness(p, b) <= 0
<1>1. PICK i \in Nat : p = 2 * i \/ p = 2 * i + 1
  <2>1. p \div 2 \in Nat /\ (p = 2 * (p \div 2) \/ p = 2 * (p \div 2) + 1)
    OBVIOUS
  <2> QED  BY <2>1
<1>2. CASE p = 2 * i
  <2>1. i \in 0 .. m - 1
    BY <1>2
  <2>2. \A b \in 0 .. m - 1 : \/ b \in {i, i} /\ Nearness(p, b) = Once(i, i)
                              \/ b \notin {i, i} /\ Nearness(p, b) <= 0
    BY <1>2 DEF Nearness, AbsOf, Once
  <2> QED  BY <1>2, <2>1, <2>2
<1>3. CASE p = 2 * i + 1
  <2>1. i \in 0 .. m - 1 /\ i + 1 \in 0 .. m - 1 /\ i + (i + 1) = p
    BY <1>3
  <2>2. \A b \in 0 .. m - 1 : \/ b \in {i, i + 1} /\ Nearness(p, b) = Once(i, i + 1)
                              \/ b \notin {i, i + 1} /\ Nearness(p, b) <= 0
    BY <1>3 DEF Nearness, AbsOf, Once
  <2> QED  BY <2>1, <2>2
<1> QED  BY <1>1, <1>2, <1>3

(* The points of a siting that is well placed, own first.                  *)
Placed(own, other, mw, mh) ==
  /\ own \in Nat \X Nat /\ other \in Nat \X Nat
  /\ own[1] <= 2 * (mw - 1) /\ own[2] <= 2 * (mh - 1) /\ other[2] <= 2 * (mh - 1)
  /\ mh > 2 => own[2] = other[2]

(* What is weighed is one, two or four pixels, all alike, and the sample   *)
(* point is in their middle.                                               *)
CornerWeights(own, other, mw, mh, x0, x1, y0, y1) ==
  /\ x0 + x1 = own[1] /\ y0 + y1 = own[2]
  /\ x1 \in {x0, x0 + 1} /\ y1 \in {y0, y0 + 1}
  /\ \A b \in Pixels(mw, mh) : Weight(own, other, b) = IF b \in Corners(x0, x1, y0, y1)
                                                     THEN Once(x0, x1) * Once(y0, y1) ELSE 0

(* Weight gives one, two or four pixels a share, the same to each.         *)
LEMMA WeightsAtCorners ==
  ASSUME NEW mw \in Nat \ {0}, NEW mh \in Nat \ {0}, NEW own, NEW other, Placed(own, other, mw, mh)
  PROVE  \E x0 \in 0 .. mw - 1, x1 \in 0 .. mw - 1, y0 \in 0 .. mh - 1, y1 \in 0 .. mh - 1 :
           CornerWeights(own, other, mw, mh, x0, x1, y0, y1)
<1> DEFINE p == own[1]
           r == own[2]
<1>1. p \in Nat /\ r \in Nat /\ other[2] \in Nat
  BY DEF Placed
<1>2. PICK x0 \in 0 .. mw - 1, x1 \in 0 .. mw - 1 :
        /\ x0 + x1 = p /\ x1 \in {x0, x0 + 1}
        /\ \A b \in 0 .. mw - 1 : \/ b \in {x0, x1} /\ Nearness(p, b) = Once(x0, x1)
                                  \/ b \notin {x0, x1} /\ Nearness(p, b) <= 0
  BY <1>1, NearTo DEF Placed
<1>3. PICK y0 \in 0 .. mh - 1, y1 \in 0 .. mh - 1 :
        /\ y0 + y1 = r /\ y1 \in {y0, y0 + 1}
        /\ \A b \in 0 .. mh - 1 : \/ b \in {y0, y1} /\ Nearness(r, b) = Once(y0, y1)
                                  \/ b \notin {y0, y1} /\ Nearness(r, b) <= 0
  BY <1>1, NearTo DEF Placed
<1>4. ASSUME NEW b \in Pixels(mw, mh)
      PROVE  Weight(own, other, b) = IF b \in Corners(x0, x1, y0, y1) THEN Once(x0, x1) * Once(y0, y1) ELSE 0
  <2>1. b = <<b[1], b[2]>> /\ b[1] \in 0 .. mw - 1 /\ b[2] \in 0 .. mh - 1
    BY DEF Pixels
  <2> DEFINE dx == Nearness(p, b[1])
             dy == Nearness(r, b[2])
  <2>2. dx \in Int /\ dy \in Int
    BY <1>1, <2>1 DEF Nearness, AbsOf
  <2>3. b \in Corners(x0, x1, y0, y1) <=> b[1] \in {x0, x1} /\ b[2] \in {y0, y1}
    BY <2>1 DEF Corners
  <2>4. dy < 0 => Nearness(other[2], b[2]) < 0
    <3>1. CASE mh > 2
      BY <3>1 DEF Placed
    <3>2. CASE mh <= 2
      <4>1. r <= 2 /\ b[2] \in {0, 1}
        BY <1>1, <2>1, <3>2 DEF Placed
      <4>2. dy >= 0
        BY <1>1, <4>1 DEF Nearness, AbsOf
      <4> QED  BY <2>2, <4>2
    <3> QED  BY <3>1, <3>2
  <2>5. Weight(own, other, b) = IF dy < 0 \/ dx <= 0 THEN 0 ELSE dx * dy
    BY <2>4 DEF Weight
  <2>6. Once(x0, x1) > 0 /\ Once(y0, y1) > 0 /\ Once(x0, x1) \in Nat /\ Once(y0, y1) \in Nat
    BY DEF Once
  <2>7. \/ b[1] \in {x0, x1} /\ dx = Once(x0, x1)
        \/ b[1] \notin {x0, x1} /\ dx <= 0
    BY <1>2, <2>1
  <2>8. \/ b[2] \in {y0, y1} /\ dy = Once(y0, y1)
        \/ b[2] \notin {y0, y1} /\ dy <= 0
    BY <1>3, <2>1
  <2> HIDE DEF dx, dy
  <2>9. CASE b[1] \in {x0, x1} /\ b[2] \in {y0, y1}
    <3>1. ~ (dy < 0 \/ dx <= 0)
      BY <2>6, <2>7, <2>8, <2>9
    <3> QED  BY <2>3, <2>5, <2>7, <2>8, <2>9, <3>1
  <2>10. CASE b[1] \notin {x0, x1}
    BY <2>3, <2>5, <2>7, <2>10
  <2>11. CASE b[1] \in {x0, x1} /\ b[2] \notin {y0, y1}
    <3>1. dy < 0 \/ dy = 0
      BY <2>2, <2>8, <2>11
    <3>2. dx * 0 = 0
      BY <2>2
    <3> QED  BY <2>3, <2>5, <2>11, <3>1, <3>2
  <2> QED  BY <2>9, <2>10, <2>11
<1>5. CornerWeights(own, other, mw, mh, x0, x1, y0, y1)
  BY <1>2, <1>3, <1>4 DEF CornerWeights
<1> QED  BY <1>5

-----------------------------------------------------------------------------
(* down_sample as a mean of four pixels.                                   *)

(* A value: whole parts of finitely many sources.                          *)
IsValue(v) == IsFiniteSet(DOMAIN v) /\ \A t \in DOMAIN v : v[t] \in Int

(* The mean of four values, which may be the same one.                     *)
Quarter(a, b, c, d, t) == (Part(a, t) + Part(b, t) + Part(c, t) + Part(d, t)) \div 4
Mean(a, b, c, d) ==
  [t \in {s \in DOMAIN a \cup DOMAIN b \cup DOMAIN c \cup DOMAIN d : Quarter(a, b, c, d, s) # 0} |-> Quarter(a, b, c, d, t)]

(* A part is a whole number.                                               *)
LEMMA PartType ==
  ASSUME NEW v, IsValue(v), NEW t
  PROVE  Part(v, t) \in Int
BY DEF Part, IsValue

(* With the weights of corners a blend is the mean of what is there.       *)
LEMMA BlendOfCorners ==
  ASSUME NEW x0, NEW x1, NEW y0, NEW y1, NEW weights, NEW values,
         DOMAIN values = Corners(x0, x1, y0, y1),
         \A b \in DOMAIN values : IsValue(values[b]) /\ weights[b] = Once(x0, x1) * Once(y0, y1)
  PROVE  Blend(weights, values) = Mean(values[<<x0, y0>>], values[<<x1, y0>>], values[<<x0, y1>>], values[<<x1, y1>>])
<1> DEFINE D == DOMAIN values
           k == Once(x0, x1) * Once(y0, y1)
           parts(t) == [b \in D |-> Part(values[b], t)]
           none == [b \in D |-> 0]
           a == values[<<x0, y0>>]
           b == values[<<x1, y0>>]
           c == values[<<x0, y1>>]
           d == values[<<x1, y1>>]
           sources == DOMAIN a \cup DOMAIN b \cup DOMAIN c \cup DOMAIN d
           total(t) == Total(weights, values, t)
<1>1. k \in Int
  BY DEF Once
<1>2. {<<x0, y0>>, <<x1, y0>>, <<x0, y1>>, <<x1, y1>>} = D
  BY DEF Corners
<1>3. IsFiniteSet(D)
  <2> DEFINE v == [e \in D |-> 0]
  <2>1. \A e \in Corners(x0, x1, y0, y1) : v[e] \in Int
    OBVIOUS
  <2> HIDE DEF v
  <2> QED  BY <2>1, SumOfCorners
<1>4. ASSUME NEW t
      PROVE  Sum(Shares(weights, values, t), D) = Part(a, t) + Part(b, t) + Part(c, t) + Part(d, t)
  <2>1. PICK p, z, s : p = parts(t) /\ z = none /\ s = Shares(weights, values, t)
    OBVIOUS
  <2>2. ASSUME NEW e \in D
        PROVE  p[e] \in Int /\ z[e] \in Int /\ z[e] = 0 /\ s[e] = k * p[e] + z[e]
    <3>1. p[e] = Part(values[e], t) /\ p[e] \in Int /\ z[e] = 0
      BY <2>1, PartType
    <3>2. s[e] = IF t \in DOMAIN values[e] THEN k * values[e][t] ELSE 0
      BY <2>1 DEF Shares
    <3>3. s[e] = k * p[e]
      <4>1. CASE t \in DOMAIN values[e]
        BY <3>1, <3>2, <4>1 DEF Part
      <4>2. CASE t \notin DOMAIN values[e]
        <5>1. p[e] = 0 /\ s[e] = 0
          BY <3>1, <3>2, <4>2 DEF Part
        <5> QED  BY <1>1, <5>1
      <4> QED  BY <4>1, <4>2
    <3>4. k * p[e] \in Int
      BY <1>1, <3>1, Z3
    <3> HIDE DEF k
    <3> QED  BY <3>1, <3>3, <3>4
  <2> HIDE DEF k
  <2>3. Sum(s, D) = k * Sum(p, D) + Sum(z, D)
    BY <1>1, <1>3, <2>2, SumIsLinear
  <2>4. Sum(z, D) = 0
    <3>1. \A e \in D \ {} : z[e] = 0
      BY <2>2
    <3>2. Sum(z, D) = Sum(z, {})
      BY <1>3, <2>2, <3>1, SumWithoutZeros
    <3> QED  BY <3>2, SumOfNone
  <2>5. k * Sum(p, D) = p[<<x0, y0>>] + p[<<x1, y0>>] + p[<<x0, y1>>] + p[<<x1, y1>>]
    BY <2>2, SumOfCorners DEF k
  <2>6. p[<<x0, y0>>] = Part(a, t) /\ p[<<x1, y0>>] = Part(b, t) /\ p[<<x0, y1>>] = Part(c, t) /\ p[<<x1, y1>>] = Part(d, t)
    BY <1>2, <2>1
  <2>7. p[<<x0, y0>>] \in Int /\ p[<<x1, y0>>] \in Int /\ p[<<x0, y1>>] \in Int /\ p[<<x1, y1>>] \in Int
    BY <1>2, <2>2
  <2> HIDE DEF a, b, c, d
  <2> QED  BY <2>1, <2>3, <2>4, <2>5, <2>6, <2>7
<1>5. sources = UNION {DOMAIN values[e] : e \in D}
  BY <1>2
<1>6. \A t : total(t) = Quarter(a, b, c, d, t)
  BY <1>4 DEF Quarter, Total
<1> HIDE DEF total, a, b, c, d
<1>7. Blend(weights, values) = [t \in {s \in sources : total(s) # 0} |-> total(t)]
  <2> HIDE DEF sources
  <2> QED  BY <1>3, <1>5, BlendIs DEF total
<1>8. Blend(weights, values) = Mean(a, b, c, d)
  BY <1>6, <1>7 DEF Mean
<1> QED  BY <1>8 DEF a, b, c, d

(* What down_sample looks at for macro pixel q.                            *)
Seen(s, w, h, st, q, x, y) == Get(s, AtMost(q[1] * st.mw + x, w - 1), AtMost(q[2] * st.mh + y, h - 1))

(* A surface of values.                                                    *)
HasValues(s) == \A q \in Pixels(s.w, s.h) : IsValue(s.at[q])

(* Each sample is the mean of four pixels around its sample point.         *)
SampledFrom(s, w, h, st, own, other, x0, x1, y0, y1) ==
  /\ x0 + x1 = own[1] /\ y0 + y1 = own[2]
  /\ x1 \in {x0, x0 + 1} /\ y1 \in {y0, y0 + 1}
  /\ \A q \in Pixels(CeilDiv(w, st.mw), CeilDiv(h, st.mh)) :
       DownSampleSurface(s, w, h, st, own, other).at[q]
         = Mean(Seen(s, w, h, st, q, x0, y0), Seen(s, w, h, st, q, x1, y0),
                Seen(s, w, h, st, q, x0, y1), Seen(s, w, h, st, q, x1, y1))

(* down_sample takes such means, wherever the edges are.                   *)
LEMMA DownSampledIsMean ==
  ASSUME NEW s, NEW w \in Nat \ {0}, NEW h \in Nat \ {0}, s.w = w, s.h = h, HasValues(s), ONE \in Int,
         NEW st, st.mw \in Nat \ {0}, st.mh \in Nat \ {0}, NEW own, NEW other, Placed(own, other, st.mw, st.mh)
  PROVE  \E x0 \in 0 .. st.mw - 1, x1 \in 0 .. st.mw - 1, y0 \in 0 .. st.mh - 1, y1 \in 0 .. st.mh - 1 :
           SampledFrom(s, w, h, st, own, other, x0, x1, y0, y1)
<1>0. PICK mw \in Nat \ {0}, mh \in Nat \ {0} : mw = st.mw /\ mh = st.mh
  OBVIOUS
<1>1. PICK x0 \in 0 .. mw - 1, x1 \in 0 .. mw - 1, y0 \in 0 .. mh - 1, y1 \in 0 .. mh - 1 :
        CornerWeights(own, other, mw, mh, x0, x1, y0, y1)
  <2>1. Placed(own, other, mw, mh)
    BY <1>0
  <2> QED  BY <2>1, WeightsAtCorners
<1> DEFINE macro == Pixels(mw, mh)
           weights == [b \in macro |-> Weight(own, other, b)]
           C == Corners(x0, x1, y0, y1)
           D == {m \in macro : weights[m] # 0}
           around(q) == [b \in D |-> Seen(s, w, h, st, q, b[1], b[2])]
<1>2. C \subseteq macro
  BY DEF Corners, Pixels
<1>3. D = C
  <2>1. Once(x0, x1) * Once(y0, y1) # 0
    BY DEF Once
  <2> QED  BY <1>1, <1>2, <2>1 DEF CornerWeights
<1>4. ASSUME NEW q \in Pixels(CeilDiv(w, mw), CeilDiv(h, mh))
      PROVE  DownSampleSurface(s, w, h, st, own, other).at[q]
                  = Mean(Seen(s, w, h, st, q, x0, y0), Seen(s, w, h, st, q, x1, y0),
                         Seen(s, w, h, st, q, x0, y1), Seen(s, w, h, st, q, x1, y1))
  <2>1. DownSampleSurface(s, w, h, st, own, other).at[q] = Blend(weights, around(q))
    BY <1>0 DEF DownSampleSurface, Seen
  <2>2. q[1] \in Nat /\ q[2] \in Nat
    BY DEF Pixels
  <2>3. PICK values : values = around(q)
    OBVIOUS
  <2>4. DOMAIN values = C
    BY <1>3, <2>3
  <2>5. ASSUME NEW b \in C
        PROVE  IsValue(values[b]) /\ weights[b] = Once(x0, x1) * Once(y0, y1)
    <3>1. b \in macro /\ b \in D
      BY <1>2, <1>3
    <3>2. b[1] \in Nat /\ b[2] \in Nat
      BY <3>1 DEF Pixels
    <3> DEFINE x == q[1] * st.mw + b[1]
               y == q[2] * st.mh + b[2]
    <3>3. x \in Nat /\ y \in Nat
      BY <2>2, <3>2, Z3
    <3>4. /\ AtMost(x, w - 1) \in Nat /\ AtMost(x, w - 1) < w
          /\ AtMost(y, h - 1) \in Nat /\ AtMost(y, h - 1) < h
      BY <3>3 DEF AtMost
    <3>5. PICK p \in Pixels(s.w, s.h) : Get(s, AtMost(x, w - 1), AtMost(y, h - 1)) = s.at[p]
      BY <3>4, GetInside
    <3>6. values[b] = Get(s, AtMost(x, w - 1), AtMost(y, h - 1))
      BY <2>3, <3>1 DEF Seen
    <3>7. IsValue(values[b])
      BY <3>5, <3>6 DEF HasValues
    <3>8. weights[b] = Once(x0, x1) * Once(y0, y1)
      BY <1>1, <3>1 DEF CornerWeights
    <3> QED  BY <3>7, <3>8
  <2>6. /\ values[<<x0, y0>>] = Seen(s, w, h, st, q, x0, y0) /\ values[<<x1, y0>>] = Seen(s, w, h, st, q, x1, y0)
        /\ values[<<x0, y1>>] = Seen(s, w, h, st, q, x0, y1) /\ values[<<x1, y1>>] = Seen(s, w, h, st, q, x1, y1)
    <3>1. <<x0, y0>> \in D /\ <<x1, y0>> \in D /\ <<x0, y1>> \in D /\ <<x1, y1>> \in D
      BY <1>3 DEF Corners
    <3>2. \A x, y : <<x, y>> \in D => values[<<x, y>>] = Seen(s, w, h, st, q, x, y)
      BY <2>3
    <3> HIDE DEF D
    <3> QED  BY <3>1, <3>2
  <2>7. Blend(weights, values) = Mean(values[<<x0, y0>>], values[<<x1, y0>>], values[<<x0, y1>>], values[<<x1, y1>>])
    <3> HIDE DEF weights, C
    <3> QED  BY <2>4, <2>5, BlendOfCorners DEF C
  <2> HIDE DEF weights, around
  <2> QED  BY <2>1, <2>3, <2>6, <2>7
<1>5. SampledFrom(s, w, h, st, own, other, x0, x1, y0, y1)
  BY <1>0, <1>1, <1>4 DEF CornerWeights, SampledFrom
<1> QED
  BY <1>0, <1>5

-----------------------------------------------------------------------------
(* What a mean has in common with what it is the mean of.                  *)

(* The sum of a value's parts, each as often as g says.                    *)
Measured(g, v) == Sum([t \in DOMAIN v |-> g[t] * v[t]], DOMAIN v)

(* A value whose parts can be cut into four.                               *)
Fourfold(v) == \A t \in DOMAIN v : \E k \in Int : v[t] = 4 * k

(* What is measured does not change when sources with no part are added.   *)
LEMMA PartsOverMore ==
  ASSUME NEW v, IsValue(v), NEW T, IsFiniteSet(T), DOMAIN v \subseteq T, NEW g, \A t \in T : g[t] \in Int,
         NEW p, \A t \in T : p[t] = g[t] * Part(v, t)
  PROVE  /\ \A t \in T : p[t] \in Int
         /\ Sum(p, T) = Measured(g, v)
<1> DEFINE D == DOMAIN v
           f == [t \in D |-> g[t] * v[t]]
<1>1. ASSUME NEW t \in T
      PROVE  p[t] \in Int /\ (t \notin D => p[t] = 0) /\ (t \in D => p[t] = f[t])
  <2>1. g[t] \in Int /\ Part(v, t) \in Int /\ p[t] = g[t] * Part(v, t)
    BY PartType
  <2>2. p[t] \in Int
    BY <2>1, Z3
  <2>3. ASSUME t \notin D PROVE p[t] = 0
    <3>1. Part(v, t) = 0
      BY <2>3 DEF Part
    <3> QED  BY <2>1, <3>1
  <2>4. ASSUME t \in D PROVE p[t] = f[t]
    BY <2>1, <2>4 DEF Part
  <2> QED  BY <2>2, <2>3, <2>4
<1>2. Sum(p, T) = Sum(p, D)
  BY <1>1, SumWithoutZeros
<1>3. Sum(p, D) = Sum(f, D)
  <2>1. IsFiniteSet(D) /\ \A t \in D : f[t] \in Int /\ p[t] = f[t]
    BY <1>1 DEF IsValue
  <2> HIDE DEF f, D
  <2> QED  BY <2>1, SumAgrees
<1> QED  BY <1>1, <1>2, <1>3 DEF Measured

(* The sum of two functions.                                               *)
LEMMA SumOfTwo ==
  ASSUME NEW T, IsFiniteSet(T), NEW a, NEW b, NEW c, \A t \in T : a[t] \in Int /\ b[t] \in Int /\ c[t] = a[t] + b[t]
  PROVE  (\A t \in T : c[t] \in Int) /\ Sum(c, T) = Sum(a, T) + Sum(b, T) /\ Sum(a, T) \in Int /\ Sum(b, T) \in Int
<1>1. \A t \in T : c[t] = 1 * a[t] + b[t]
  OBVIOUS
<1>2. (\A t \in T : a[t] \in Int) /\ (\A t \in T : b[t] \in Int) /\ \A t \in T : c[t] \in Int
  OBVIOUS
<1>3. Sum(c, T) = 1 * Sum(a, T) + Sum(b, T)
  BY <1>1, SumIsLinear
<1>4. Sum(a, T) \in Int /\ Sum(b, T) \in Int
  BY <1>2, SumTakesOut
<1> QED  BY <1>2, <1>3, <1>4

(* Dividing by four loses nothing when there are four parts.               *)
LEMMA FourthOfFour ==
  ASSUME NEW a, NEW b, NEW c, NEW d, IsValue(a), IsValue(b), IsValue(c), IsValue(d),
         Fourfold(a), Fourfold(b), Fourfold(c), Fourfold(d), NEW t
  PROVE  /\ Quarter(a, b, c, d, t) \in Int
         /\ 4 * Quarter(a, b, c, d, t) = Part(a, t) + Part(b, t) + Part(c, t) + Part(d, t)
<1>1. ASSUME NEW v, IsValue(v), Fourfold(v)
      PROVE  \E k \in Int : Part(v, t) = 4 * k
  <2>1. CASE t \in DOMAIN v
    BY <1>1, <2>1 DEF Fourfold, Part
  <2>2. CASE t \notin DOMAIN v
    <3>1. Part(v, t) = 4 * 0
      BY <2>2 DEF Part
    <3> QED  BY <3>1
  <2> QED  BY <2>1, <2>2
<1>2. PICK k \in Int : Part(a, t) = 4 * k
  BY <1>1
<1>3. PICK l \in Int : Part(b, t) = 4 * l
  BY <1>1
<1>4. PICK m \in Int : Part(c, t) = 4 * m
  BY <1>1
<1>5. PICK n \in Int : Part(d, t) = 4 * n
  BY <1>1
<1>6. Quarter(a, b, c, d, t) = (4 * k + 4 * l + 4 * m + 4 * n) \div 4
  BY <1>2, <1>3, <1>4, <1>5 DEF Quarter
<1>7. (4 * k + 4 * l + 4 * m + 4 * n) \div 4 = k + l + m + n
  OBVIOUS
<1> QED  BY <1>2, <1>3, <1>4, <1>5, <1>6, <1>7

(* Whatever is measured, the mean has the mean of it.                      *)
LEMMA MeanMeasured ==
  ASSUME NEW a, NEW b, NEW c, NEW d, IsValue(a), IsValue(b), IsValue(c), IsValue(d),
         Fourfold(a), Fourfold(b), Fourfold(c), Fourfold(d),
         NEW g, \A t \in DOMAIN a \cup DOMAIN b \cup DOMAIN c \cup DOMAIN d : g[t] \in Int
  PROVE  /\ IsValue(Mean(a, b, c, d))
         /\ Measured(g, Mean(a, b, c, d)) \in Int
         /\ 4 * Measured(g, Mean(a, b, c, d)) = Measured(g, a) + Measured(g, b) + Measured(g, c) + Measured(g, d)
<1> DEFINE T == DOMAIN a \cup DOMAIN b \cup DOMAIN c \cup DOMAIN d
           q(t) == Quarter(a, b, c, d, t)
           mean == Mean(a, b, c, d)
           S == {t \in T : q(t) # 0}
<1>1. IsFiniteSet(T)
  BY FS_Union DEF IsValue
<1>2. mean = [t \in S |-> q(t)]
  BY DEF Mean
<1>3. \A t : q(t) \in Int /\ 4 * q(t) = Part(a, t) + Part(b, t) + Part(c, t) + Part(d, t)
  BY FourthOfFour
<1> HIDE DEF T, mean, q
<1>4. IsValue(mean)
  <2>1. IsFiniteSet(S)
    BY <1>1, FS_Subset
  <2> QED  BY <1>2, <1>3, <2>1 DEF IsValue
<1>5. PICK pa, pb, pc, pd :
        /\ pa = [t \in T |-> g[t] * Part(a, t)] /\ pb = [t \in T |-> g[t] * Part(b, t)]
        /\ pc = [t \in T |-> g[t] * Part(c, t)] /\ pd = [t \in T |-> g[t] * Part(d, t)]
  OBVIOUS
<1>6. PICK p : p = [t \in T |-> g[t] * Part(mean, t)]
  OBVIOUS
<1>7. \A t \in T : g[t] \in Int
  BY DEF T
<1>8. /\ \A t \in T : pa[t] \in Int /\ pb[t] \in Int /\ pc[t] \in Int /\ pd[t] \in Int
      /\ Sum(pa, T) = Measured(g, a) /\ Sum(pb, T) = Measured(g, b)
      /\ Sum(pc, T) = Measured(g, c) /\ Sum(pd, T) = Measured(g, d)
  <2>1. DOMAIN a \subseteq T /\ DOMAIN b \subseteq T /\ DOMAIN c \subseteq T /\ DOMAIN d \subseteq T
    BY DEF T
  <2>2. ASSUME NEW v \in {a, b, c, d}, NEW r, r = [t \in T |-> g[t] * Part(v, t)]
        PROVE  (\A t \in T : r[t] \in Int) /\ Sum(r, T) = Measured(g, v)
    <3>1. IsValue(v) /\ DOMAIN v \subseteq T /\ \A t \in T : r[t] = g[t] * Part(v, t)
      BY <2>1, <2>2
    <3> QED  BY <1>1, <1>7, <3>1, PartsOverMore
  <2> QED  BY <1>5, <2>2
<1>9. (\A t \in T : p[t] \in Int) /\ Sum(p, T) = Measured(g, mean)
  <2>1. DOMAIN mean \subseteq T
    BY <1>2
  <2>2. \A t \in T : p[t] = g[t] * Part(mean, t)
    BY <1>6
  <2> QED  BY <1>1, <1>4, <1>7, <2>1, <2>2, PartsOverMore
<1>10. PICK ab, abc, abcd, z :
         /\ ab = [t \in T |-> pa[t] + pb[t]] /\ abc = [t \in T |-> ab[t] + pc[t]] /\ abcd = [t \in T |-> abc[t] + pd[t]]
         /\ z = [t \in T |-> 0]
  OBVIOUS
<1>11. (\A t \in T : ab[t] \in Int) /\ Sum(ab, T) = Sum(pa, T) + Sum(pb, T) /\ Sum(pa, T) \in Int /\ Sum(pb, T) \in Int
  <2>1. \A t \in T : pa[t] \in Int /\ pb[t] \in Int /\ ab[t] = pa[t] + pb[t]
    BY <1>8, <1>10
  <2> QED  BY <1>1, <2>1, SumOfTwo
<1>12. ASSUME NEW r, NEW s, NEW u, \A t \in T : r[t] \in Int /\ s[t] \in Int, \A t \in T : u[t] = r[t] + s[t]
       PROVE  (\A t \in T : u[t] \in Int) /\ Sum(u, T) = Sum(r, T) + Sum(s, T) /\ Sum(r, T) \in Int /\ Sum(s, T) \in Int
  <2>1. \A t \in T : r[t] \in Int /\ s[t] \in Int /\ u[t] = r[t] + s[t]
    BY <1>12
  <2> HIDE DEF S
  <2> QED  BY <1>1, <2>1, SumOfTwo
<1>13. /\ (\A t \in T : abc[t] \in Int) /\ Sum(abc, T) = Sum(ab, T) + Sum(pc, T) /\ Sum(pc, T) \in Int
       /\ (\A t \in T : abcd[t] \in Int) /\ Sum(abcd, T) = Sum(abc, T) + Sum(pd, T) /\ Sum(pd, T) \in Int
  <2>1. \A t \in T : abc[t] = ab[t] + pc[t] /\ abcd[t] = abc[t] + pd[t]
    BY <1>10
  <2>2. \A t \in T : ab[t] \in Int /\ pc[t] \in Int /\ pd[t] \in Int
    BY <1>8, <1>11
  <2>3. (\A t \in T : abc[t] \in Int) /\ Sum(abc, T) = Sum(ab, T) + Sum(pc, T) /\ Sum(ab, T) \in Int /\ Sum(pc, T) \in Int
    <3>1. \A t \in T : ab[t] \in Int /\ pc[t] \in Int
      BY <2>2
    <3>2. \A t \in T : abc[t] = ab[t] + pc[t]
      BY <2>1
    <3> QED  BY <1>12, <3>1, <3>2
  <2>4. (\A t \in T : abcd[t] \in Int) /\ Sum(abcd, T) = Sum(abc, T) + Sum(pd, T) /\ Sum(abc, T) \in Int /\ Sum(pd, T) \in Int
    <3>1. \A t \in T : abc[t] \in Int /\ pd[t] \in Int
      BY <2>2, <2>3
    <3>2. \A t \in T : abcd[t] = abc[t] + pd[t]
      BY <2>1
    <3> QED  BY <1>12, <3>1, <3>2
  <2> QED  BY <2>3, <2>4
<1>14. ASSUME NEW t \in T
       PROVE  p[t] \in Int /\ z[t] \in Int /\ abcd[t] = 4 * p[t] + z[t]
  <2>1. Part(mean, t) = q(t)
    <3>1. CASE q(t) # 0
      BY <1>2, <3>1 DEF Part
    <3>2. CASE q(t) = 0
      BY <1>2, <3>2 DEF Part
    <3> QED  BY <3>1, <3>2
  <2> DEFINE x == g[t]
             k == Part(a, t)
             l == Part(b, t)
             m == Part(c, t)
             n == Part(d, t)
  <2>2. p[t] = x * q(t) /\ z[t] = 0 /\ pa[t] = x * k /\ pb[t] = x * l /\ pc[t] = x * m /\ pd[t] = x * n
    BY <1>5, <1>6, <1>10, <2>1
  <2>3. abcd[t] = ((pa[t] + pb[t]) + pc[t]) + pd[t]
    BY <1>10
  <2>4. x \in Int /\ k \in Int /\ l \in Int /\ m \in Int /\ n \in Int /\ q(t) \in Int /\ 4 * q(t) = k + l + m + n
    BY <1>3, <1>7, PartType
  <2> HIDE DEF x, k, l, m, n
  <2>5. ((x * k + x * l) + x * m) + x * n = x * (k + l + m + n)
    BY <2>4, Z3
  <2>6. x * (4 * q(t)) = 4 * (x * q(t)) /\ x * q(t) \in Int
    BY <2>4, Z3
  <2>7. ((x * k + x * l) + x * m) + x * n = 4 * (x * q(t))
    BY <2>4, <2>5, <2>6
  <2> QED  BY <2>2, <2>3, <2>6, <2>7
<1>15. Sum(abcd, T) = 4 * Sum(p, T) + Sum(z, T)
  BY <1>1, <1>14, SumIsLinear
<1>16. Sum(z, T) = 0
  <2>1. \A t \in T : z[t] \in Int /\ z[t] = 0
    BY <1>10
  <2>2. Sum(z, T) = Sum(z, {})
    BY <1>1, <2>1, SumWithoutZeros
  <2> QED  BY <2>2, SumOfNone
<1>17. Sum(p, T) \in Int
  BY <1>1, <1>9, SumTakesOut
<1>18. 4 * Sum(p, T) = Sum(pa, T) + Sum(pb, T) + Sum(pc, T) + Sum(pd, T)
  BY <1>11, <1>13, <1>15, <1>16, <1>17
<1> QED  BY <1>4, <1>8, <1>9, <1>17, <1>18 DEF mean

(* A value that is an average, of parts that can be cut into m.            *)
Average(v, m) ==
  /\ IsFiniteSet(DOMAIN v)
  /\ \A t \in DOMAIN v : v[t] \in Nat \ {0} /\ \E k \in Int : v[t] = m * k
  /\ Sum(v, DOMAIN v) = ONE

(* Measured by one, a value is the sum of its parts.                       *)
LEMMA AverageMeasured ==
  ASSUME NEW v, IsValue(v), NEW g, \A t \in DOMAIN v : g[t] = 1
  PROVE  Measured(g, v) = Sum(v, DOMAIN v)
<1> DEFINE f == [t \in DOMAIN v |-> g[t] * v[t]]
<1>1. \A t \in DOMAIN v : v[t] \in Int /\ f[t] = v[t]
  BY DEF IsValue
<1> HIDE DEF f
<1>2. Sum(f, DOMAIN v) = Sum(v, DOMAIN v)
  BY <1>1, SumAgrees DEF IsValue
<1> QED  BY <1>2 DEF Measured, f

(* The mean of averages is an average, of parts a quarter as large.        *)
LEMMA MeanOfAverages ==
  ASSUME ONE \in Int, NEW m \in Nat \ {0}, NEW a, NEW b, NEW c, NEW d,
         Average(a, 4 * m), Average(b, 4 * m), Average(c, 4 * m), Average(d, 4 * m)
  PROVE  Average(Mean(a, b, c, d), m)
<1> DEFINE T == DOMAIN a \cup DOMAIN b \cup DOMAIN c \cup DOMAIN d
           mean == Mean(a, b, c, d)
           q(t) == Quarter(a, b, c, d, t)
           g == [t \in T |-> 1]
<1>1. \A v \in {a, b, c, d} : IsValue(v)
  BY DEF Average, IsValue
<1>2. ASSUME NEW v \in {a, b, c, d}, NEW t
      PROVE  \E k \in Int : Part(v, t) = m * (4 * k) /\ m * k \in Int /\ Part(v, t) = 4 * (m * k) /\ Part(v, t) >= 0
  <2>1. CASE t \in DOMAIN v
    <3>1. PICK k \in Int : v[t] = (4 * m) * k /\ v[t] \in Nat
      BY <2>1 DEF Average
    <3>2. (4 * m) * k = m * (4 * k) /\ (4 * m) * k = 4 * (m * k) /\ m * k \in Int
      BY Z3
    <3> QED  BY <2>1, <3>1, <3>2 DEF Part
  <2>2. CASE t \notin DOMAIN v
    <3>1. Part(v, t) = 0 /\ m * (4 * 0) = 0 /\ m * 0 \in Int /\ 4 * (m * 0) = 0
      BY <2>2 DEF Part
    <3> QED  BY <3>1
  <2> QED  BY <2>1, <2>2
<1>3. \A v \in {a, b, c, d} : Fourfold(v)
  <2> SUFFICES ASSUME NEW v \in {a, b, c, d}, NEW t \in DOMAIN v PROVE \E k \in Int : v[t] = 4 * k
    BY DEF Fourfold
  <2>1. PICK k \in Int : Part(v, t) = 4 * (m * k) /\ m * k \in Int
    BY <1>2
  <2> QED  BY <2>1 DEF Part
<1>4. \A t : q(t) \in Int /\ 4 * q(t) = Part(a, t) + Part(b, t) + Part(c, t) + Part(d, t)
  BY <1>1, <1>3, FourthOfFour
<1>5. ASSUME NEW t
      PROVE  q(t) >= 0 /\ \E k \in Int : q(t) = m * k
  <2>1. PICK i \in Int : Part(a, t) = 4 * (m * i) /\ Part(a, t) >= 0 /\ m * i \in Int
    BY <1>2
  <2>2. PICK j \in Int : Part(b, t) = 4 * (m * j) /\ Part(b, t) >= 0 /\ m * j \in Int
    BY <1>2
  <2>3. PICK k \in Int : Part(c, t) = 4 * (m * k) /\ Part(c, t) >= 0 /\ m * k \in Int
    BY <1>2
  <2>4. PICK l \in Int : Part(d, t) = 4 * (m * l) /\ Part(d, t) >= 0 /\ m * l \in Int
    BY <1>2
  <2> DEFINE n == q(t)
  <2>5. n \in Int /\ 4 * n = 4 * (m * i) + 4 * (m * j) + 4 * (m * k) + 4 * (m * l)
    BY <1>4, <2>1, <2>2, <2>3, <2>4
  <2> HIDE DEF n
  <2>6. n = m * i + m * j + m * k + m * l
    BY <2>1, <2>2, <2>3, <2>4, <2>5
  <2>7. m * i + m * j + m * k + m * l = m * (i + j + k + l)
    BY Z3
  <2>8. n >= 0
    BY <2>1, <2>2, <2>3, <2>4, <2>5
  <2> QED  BY <2>6, <2>7, <2>8 DEF n
<1>6. /\ IsValue(mean) /\ Measured(g, mean) \in Int
      /\ 4 * Measured(g, mean) = Measured(g, a) + Measured(g, b) + Measured(g, c) + Measured(g, d)
  BY <1>1, <1>3, MeanMeasured
<1>7. mean = [t \in {s \in T : q(s) # 0} |-> q(t)]
  BY DEF Mean
<1> HIDE DEF q, mean
<1>8. \A v \in {a, b, c, d} : Measured(g, v) = ONE
  <2>1. \A v \in {a, b, c, d} : \A t \in DOMAIN v : g[t] = 1
    OBVIOUS
  <2> HIDE DEF g
  <2> QED  BY <1>1, <2>1, AverageMeasured DEF Average
<1>9. Measured(g, mean) = Sum(mean, DOMAIN mean)
  <2>1. \A t \in DOMAIN mean : g[t] = 1
    BY <1>7
  <2> HIDE DEF g
  <2> QED  BY <1>6, <2>1, AverageMeasured
<1>10. 4 * Measured(g, mean) = ONE + ONE + ONE + ONE
  BY <1>6, <1>8
<1>11. Sum(mean, DOMAIN mean) = ONE
  <2> HIDE DEF g
  <2> QED  BY <1>6, <1>9, <1>10
<1>12. \A t \in DOMAIN mean : mean[t] \in Nat \ {0} /\ \E k \in Int : mean[t] = m * k
  BY <1>4, <1>5, <1>7
<1> QED  BY <1>6, <1>11, <1>12 DEF Average, IsValue, mean

(* The mean of four times the same is the same.                            *)
LEMMA MeanOfSame ==
  ASSUME NEW v, v = [t \in DOMAIN v |-> v[t]], \A t \in DOMAIN v : v[t] \in Int \ {0}
  PROVE  Mean(v, v, v, v) = v
<1>1. \A t \in DOMAIN v : Quarter(v, v, v, v, t) = v[t]
  <2> SUFFICES ASSUME NEW t \in DOMAIN v PROVE Quarter(v, v, v, v, t) = v[t]
    OBVIOUS
  <2>1. Quarter(v, v, v, v, t) = (v[t] + v[t] + v[t] + v[t]) \div 4
    BY DEF Quarter, Part
  <2>2. \A n \in Int : (n + n + n + n) \div 4 = n
    OBVIOUS
  <2> QED  BY <2>1, <2>2
<1>2. {s \in DOMAIN v \cup DOMAIN v \cup DOMAIN v \cup DOMAIN v : Quarter(v, v, v, v, s) # 0} = DOMAIN v
  BY <1>1
<1>3. Mean(v, v, v, v) = [t \in DOMAIN v |-> Quarter(v, v, v, v, t)]
  BY <1>2 DEF Mean
<1> QED  BY <1>1, <1>3

-----------------------------------------------------------------------------
(* Which values the operations on an image can hold.                       *)

(* The weight of a whole pixel can be cut into parts of m.                 *)
Divides(m) == m \in Nat \ {0} /\ \E k \in Int : ONE = m * k

(* A surface, an image of averages.                                        *)
Averages(s, m) == \A q \in Pixels(s.w, s.h) : Average(s.at[q], m)
AllAverages(img, m) == \A c \in Channels : Averages(img.planes[c], m)

(* A whole pixel is an average.                                            *)
LEMMA OnlyIsAverage ==
  ASSUME NEW m, Divides(m), ONE \in Nat \ {0}, NEW x
  PROVE  Average(Only(x), m)
<1> DEFINE v == Only(x)
<1>1. DOMAIN v = {x} /\ v[x] = ONE
  BY DEF Only
<1> HIDE DEF v
<1>2. IsFiniteSet(DOMAIN v) /\ Sum(v, DOMAIN v) = v[x]
  BY <1>1, SumOfOne
<1>3. \A t \in DOMAIN v : v[t] \in Nat \ {0} /\ \E k \in Int : v[t] = m * k
  BY <1>1 DEF Divides
<1> QED  BY <1>1, <1>2, <1>3 DEF Average, v

(* An average of large parts is one of small parts.                        *)
LEMMA CoarseIsFine ==
  ASSUME NEW m \in Nat \ {0}, NEW v, Average(v, 4 * m)
  PROVE  Average(v, m)
<1>1. ASSUME NEW t \in DOMAIN v
      PROVE  \E k \in Int : v[t] = m * k
  <2>1. PICK k \in Int : v[t] = (4 * m) * k
    BY DEF Average
  <2>2. (4 * m) * k = m * (4 * k) /\ 4 * k \in Int
    BY Z3
  <2> QED  BY <2>1, <2>2
<1> QED  BY <1>1 DEF Average

(* So is an image.                                                         *)
LEMMA AllFiner ==
  ASSUME NEW m \in Nat \ {0}, NEW img, AllAverages(img, 4 * m)
  PROVE  AllAverages(img, m)
BY CoarseIsFine DEF AllAverages, Averages

(* The values of a surface.                                                *)
Held(s) == {s.at[q] : q \in Pixels(s.w, s.h)}

(* A surface is one of averages if all it holds are.                       *)
LEMMA HoldsAverages ==
  ASSUME NEW s, NEW m
  PROVE  Averages(s, m) <=> \A v \in Held(s) : Average(v, m)
BY DEF Averages, Held

(* A surface that is not there holds nothing.                              *)
LEMMA NothingHeld ==
  ASSUME NEW s, IsEmpty(s)
  PROVE  Held(s) = {}
<1>1. Pixels(s.w, s.h) = {}
  BY DEF IsEmpty, Pixels
<1> QED  BY <1>1 DEF Held

(* get() finds a value of the surface, or what lies outside.               *)
LEMMA GetHeld ==
  ASSUME NEW s, s.w \in Nat \ {0}, s.h \in Nat \ {0}, NEW x \in Nat, NEW y \in Nat
  PROVE  Get(s, x, y) \in Held(s) \cup {Only(Outside)}
<1>1. \/ \E q \in Pixels(s.w, s.h) : Get(s, x, y) = s.at[q] /\ Get(s, x, y) = s.at[q]
      \/ Get(s, x, y) = Only(Outside)
  BY GetAlike
<1> QED  BY <1>1 DEF Held

(* A surface that is there has a width and a height.                       *)
LEMMA SurfaceSize ==
  ASSUME NEW img, WellFormed(img), NEW c \in Channels, ~ IsEmpty(img.planes[c])
  PROVE  img.planes[c].w \in Nat \ {0} /\ img.planes[c].h \in Nat \ {0}
<1>1. /\ img.w \in Nat \ {0} /\ img.h \in Nat \ {0}
      /\ img.siting.mw \in Nat \ {0} /\ img.siting.mh \in Nat \ {0}
      /\ Fits(img.planes[c], img.w, img.h, img.siting, c)
  BY SitingTypes DEF WellFormed, SurfacesFit
<1>2. CeilDiv(img.w, img.siting.mw) \in Nat \ {0} /\ CeilDiv(img.h, img.siting.mh) \in Nat \ {0}
  BY <1>1, CeilDivPositive
<1> QED  BY <1>1, <1>2 DEF Fits, PlaneW, PlaneH

(* up_sample makes no new values.                                          *)
LEMMA UpSampledHeld ==
  ASSUME NEW img, WellFormed(img), NEW c \in Channels
  PROVE  Held(UpSample(img).planes[c]) \subseteq Held(img.planes[c]) \cup {Only(Outside)}
<1>1. CASE Is444(img.siting)
  BY <1>1 DEF UpSample
<1>2. CASE ~ Is444(img.siting)
  <2> DEFINE s == img.planes[c]
  <2>1. CASE ~ (c \in {ChannelU, ChannelV} /\ ~ IsEmpty(s))
    BY <1>2, <2>1, UpSampledPlanes
  <2>2. CASE c \in {ChannelU, ChannelV} /\ ~ IsEmpty(s)
    <3>1. UpSample(img).planes[c] = UpSampleSurface(s, img.w, img.h, img.siting)
      BY <1>2, <2>2, UpSampledPlanes
    <3>2. s.w \in Nat \ {0} /\ s.h \in Nat \ {0}
      BY <2>2, SurfaceSize
    <3>3. img.siting.mw \in Nat \ {0} /\ img.siting.mh \in Nat \ {0}
      BY SitingTypes DEF WellFormed
    <3> HIDE DEF s
    <3>4. ASSUME NEW q \in Pixels(img.w, img.h)
          PROVE  Get(s, q[1] \div img.siting.mw, q[2] \div img.siting.mh) \in Held(s) \cup {Only(Outside)}
      <4>1. q[1] \in Nat /\ q[2] \in Nat
        BY DEF Pixels, WellFormed
      <4>2. q[1] \div img.siting.mw \in Nat /\ q[2] \div img.siting.mh \in Nat
        BY <3>3, <4>1, Z3
      <4> QED  BY <3>2, <4>2, GetHeld
    <3>5. \A v \in Held(UpSampleSurface(s, img.w, img.h, img.siting)) : v \in Held(s) \cup {Only(Outside)}
      BY <3>4 DEF Held, UpSampleSurface
    <3> QED  BY <3>1, <3>5 DEF s
  <2> QED  BY <2>1, <2>2
<1> QED  BY <1>1, <1>2

(* Neither does scaling at full resolution.                                *)
LEMMA ScaledHeld ==
  ASSUME NEW img, WellFormed(img), Is444(img.siting), NEW w \in Nat \ {0}, NEW h \in Nat \ {0}, NEW c \in Channels
  PROVE  Held(ScaleImage(img, w, h).planes[c]) \subseteq Held(img.planes[c]) \cup {Only(Outside)}
<1> DEFINE s == img.planes[c]
<1>1. CASE img.w = w /\ img.h = h
  BY <1>1 DEF ScaleImage
<1>2. CASE ~ (img.w = w /\ img.h = h) /\ IsEmpty(s)
  BY <1>2, ScaledPlanes
<1>3. CASE ~ (img.w = w /\ img.h = h) /\ ~ IsEmpty(s)
  <2>1. ScaleImage(img, w, h).planes[c] = ScaleSurface(s, w, h)
    BY <1>3, ScaledPlanes
  <2>2. s.w \in Nat \ {0} /\ s.h \in Nat \ {0}
    BY <1>3, SurfaceSize
  <2> HIDE DEF s
  <2>3. ASSUME NEW q \in Pixels(w, h)
        PROVE  Get(s, Nearest(q[1], w, s.w), Nearest(q[2], h, s.h)) \in Held(s) \cup {Only(Outside)}
    <3>1. q[1] \in Nat /\ q[2] \in Nat
      BY DEF Pixels
    <3>2. Nearest(q[1], w, s.w) \in Nat /\ Nearest(q[2], h, s.h) \in Nat
      BY <2>2, <3>1, NearestIsNatural
    <3> QED  BY <2>2, <3>2, GetHeld
  <2>4. \A v \in Held(ScaleSurface(s, w, h)) : v \in Held(s) \cup {Only(Outside)}
    BY <2>3 DEF Held, ScaleSurface
  <2> QED  BY <2>1, <2>4 DEF s
<1> QED  BY <1>1, <1>2, <1>3

(* A subsampled image is scaled at full resolution.                        *)
LEMMA ScaledInSteps ==
  ASSUME NEW img, WellFormed(img), ~ Is444(img.siting), NEW w, NEW h, ~ (img.w = w /\ img.h = h)
  PROVE  ScaleImage(img, w, h) = DownSample(ScaleImage(UpSample(img), w, h), img.siting)
<1> DEFINE up == UpSample(img)
           scaled(full) == [full EXCEPT !.w = w, !.h = h,
                              !.planes = [c \in Channels |-> IF IsEmpty(@[c]) THEN @[c] ELSE ScaleSurface(@[c], w, h)]]
<1>1. Is444(up.siting) /\ up.w = img.w /\ up.h = img.h
  BY UpSampleKeeps
<1>2. ScaleImage(img, w, h) = DownSample(scaled(up), img.siting)
  BY DEF ScaleImage
<1>3. ScaleImage(up, w, h) = scaled(UpSample(up))
  <2> HIDE DEF up
  <2> QED  BY <1>1 DEF ScaleImage
<1>4. UpSample(up) = up
  <2> HIDE DEF up
  <2> QED  BY <1>1 DEF UpSample
<1> HIDE DEF scaled, up
<1>5. ScaleImage(up, w, h) = scaled(up)
  BY <1>3, <1>4
<1> QED  BY <1>2, <1>5 DEF up

(* What comes back was there, or is what fills the gaps.                   *)
LEMMA UnpackedHeld ==
  ASSUME NEW c \in Channels
  PROVE  Held(Unpacked(c)) \subseteq Held(image.planes[c]) \cup {Only(Opaque), Only(Poison)}
<1> DEFINE s == image.planes[c]
           w == PlaneW(target.w, target.siting, c)
           h == PlaneH(target.h, target.siting, c)
           missing == IF c = ChannelA THEN Only(Opaque) ELSE Only(Poison)
           value(p) == IF IsEmpty(s) THEN missing ELSE IF p \in Pixels(s.w, s.h) THEN s.at[p] ELSE Only(Poison)
<1>1. CASE c \notin target.channels
  <2>1. Unpacked(c) = Empty /\ IsEmpty(Empty)
    BY <1>1 DEF Unpacked, IsEmpty, Empty
  <2> QED  BY <2>1, NothingHeld
<1>2. CASE c \in target.channels
  <2>1. Unpacked(c) = [w |-> w, h |-> h, at |-> [p \in Pixels(w, h) |-> value(p)]]
    BY <1>2 DEF Unpacked
  <2>2. \A p : value(p) \in Held(s) \cup {Only(Opaque), Only(Poison)}
    BY DEF Held
  <2> HIDE DEF value, w, h
  <2> QED  BY <2>1, <2>2 DEF Held
<1> QED  BY <1>1, <1>2

-----------------------------------------------------------------------------

(* Up-sampled averages are averages of the same parts.                     *)
LEMMA UpSampledAverages ==
  ASSUME NEW m, Divides(m), ONE \in Nat \ {0}, NEW img, WellFormed(img), AllAverages(img, m)
  PROVE  AllAverages(UpSample(img), m)
BY UpSampledHeld, HoldsAverages, OnlyIsAverage DEF AllAverages

(* So are scaled ones.                                                     *)
LEMMA ScaledAverages ==
  ASSUME NEW m, Divides(m), ONE \in Nat \ {0}, NEW img, WellFormed(img), Is444(img.siting), AllAverages(img, m),
         NEW w \in Nat \ {0}, NEW h \in Nat \ {0}
  PROVE  AllAverages(ScaleImage(img, w, h), m)
BY ScaledHeld, HoldsAverages, OnlyIsAverage DEF AllAverages

(* Blending costs a factor of four, in a siting whose points are in place. *)
LEMMA DownSampledAverages ==
  ASSUME NEW m \in Nat \ {0}, ONE \in Nat \ {0},
         NEW s, NEW w \in Nat \ {0}, NEW h \in Nat \ {0}, s.w = w, s.h = h, Averages(s, 4 * m),
         NEW st, st.mw \in Nat \ {0}, st.mh \in Nat \ {0}, NEW own, NEW other, Placed(own, other, st.mw, st.mh)
  PROVE  Averages(DownSampleSurface(s, w, h, st, own, other), m)
<1> DEFINE t == DownSampleSurface(s, w, h, st, own, other)
<1>1. ONE \in Int /\ HasValues(s)
  BY DEF Averages, Average, HasValues, IsValue
<1>2. PICK x0 \in 0 .. st.mw - 1, x1 \in 0 .. st.mw - 1, y0 \in 0 .. st.mh - 1, y1 \in 0 .. st.mh - 1 :
           SampledFrom(s, w, h, st, own, other, x0, x1, y0, y1)
  <2> HIDE DEF t
  <2> QED  BY <1>1, DownSampledIsMean
<1>3. t.w = CeilDiv(w, st.mw) /\ t.h = CeilDiv(h, st.mh)
  BY DEF DownSampleSurface
<1> HIDE DEF t
<1>4. ASSUME NEW q \in Pixels(t.w, t.h)
      PROVE  Average(t.at[q], m)
  <2>1. CeilDiv(w, st.mw) \in Nat \ {0} /\ CeilDiv(h, st.mh) \in Nat \ {0}
    BY CeilDivPositive
  <2>2. q[1] \in Nat /\ q[2] \in Nat
    BY <1>3, <2>1 DEF Pixels
  <2>3. ASSUME NEW x \in Nat, NEW y \in Nat
        PROVE  Average(Seen(s, w, h, st, q, x, y), 4 * m)
    <3> DEFINE i == q[1] * st.mw + x
               j == q[2] * st.mh + y
    <3>1. i \in Nat /\ j \in Nat
      BY <2>2, Z3
    <3>2. /\ AtMost(i, w - 1) \in Nat /\ AtMost(i, w - 1) < s.w
          /\ AtMost(j, h - 1) \in Nat /\ AtMost(j, h - 1) < s.h
      BY <3>1 DEF AtMost
    <3>3. PICK p \in Pixels(s.w, s.h) : Get(s, AtMost(i, w - 1), AtMost(j, h - 1)) = s.at[p]
      BY <3>2, GetInside
    <3> QED  BY <3>3 DEF Seen, Averages
  <2>4. t.at[q] = Mean(Seen(s, w, h, st, q, x0, y0), Seen(s, w, h, st, q, x1, y0),
                       Seen(s, w, h, st, q, x0, y1), Seen(s, w, h, st, q, x1, y1))
    BY <1>2, <1>3 DEF SampledFrom, t
  <2>5. x0 \in Nat /\ x1 \in Nat /\ y0 \in Nat /\ y1 \in Nat
    OBVIOUS
  <2> QED  BY <2>3, <2>4, <2>5, MeanOfAverages
<1> QED  BY <1>4 DEF Averages, t

(* The points of a siting that is well placed, either one as its own.      *)
LEMMA PointsPlaced ==
  ASSUME NEW st \in Sitings, WellPlaced(st)
  PROVE  Placed(st.u, st.v, st.mw, st.mh) /\ Placed(st.v, st.u, st.mw, st.mh)
<1>1. st.mw \in Nat \ {0} /\ st.mh \in Nat \ {0}
  BY SitingTypes
<1> QED  BY <1>1 DEF WellPlaced, Placed

(* down_sample of a whole image.                                           *)
LEMMA DownSampleAverages ==
  ASSUME NEW m \in Nat \ {0}, Divides(4 * m), ONE \in Nat \ {0}, NEW img, WellFormed(img), AllAverages(img, 4 * m),
         NEW st \in Sitings, WellPlaced(st)
  PROVE  AllAverages(DownSample(img, st), m)
<1>1. CASE img.siting = st
  BY <1>1, AllFiner DEF DownSample
<1>2. CASE img.siting # st
  <2> DEFINE up == UpSample(img)
             new == DownSample(img, st)
             below(c, own, other) == IF IsEmpty(up.planes[c]) THEN up.planes[c]
                                     ELSE DownSampleSurface(up.planes[c], up.w, up.h, st, own, other)
  <2>1. WellFormed(up) /\ Is444(up.siting) /\ up.w \in Nat \ {0} /\ up.h \in Nat \ {0}
    BY UpSampleKeeps DEF WellFormed
  <2>2. AllAverages(up, 4 * m)
    BY UpSampledAverages
  <2>3. /\ new.planes[ChannelY] = up.planes[ChannelY]
        /\ new.planes[ChannelA] = up.planes[ChannelA]
        /\ new.planes[ChannelU] = below(ChannelU, st.u, st.v)
        /\ new.planes[ChannelV] = below(ChannelV, st.v, st.u)
    BY <1>2, DownSampledPlanes
  <2> HIDE DEF up, new
  <2>4. \A c \in Channels : Averages(up.planes[c], 4 * m) /\ Averages(up.planes[c], m)
    BY <2>2, AllFiner DEF AllAverages
  <2>5. ASSUME NEW c \in Channels, NEW own, NEW other, Placed(own, other, st.mw, st.mh)
        PROVE  Averages(below(c, own, other), m)
    <3>1. CASE IsEmpty(up.planes[c])
      BY <2>4, <3>1
    <3>2. CASE ~ IsEmpty(up.planes[c])
      <4>1. up.planes[c].w = up.w /\ up.planes[c].h = up.h
        BY <2>1, <3>2, FullSizes
      <4>2. st.mw \in Nat \ {0} /\ st.mh \in Nat \ {0}
        BY SitingTypes
      <4>3. Averages(DownSampleSurface(up.planes[c], up.w, up.h, st, own, other), m)
        BY <2>1, <2>4, <2>5, <4>1, <4>2, DownSampledAverages
      <4> QED  BY <3>2, <4>3
    <3> QED  BY <3>1, <3>2
  <2> HIDE DEF below
  <2>6. \A c \in Channels : Averages(new.planes[c], m)
    BY <2>3, <2>4, <2>5, PointsPlaced, ChannelNames
  <2> QED  BY <2>6 DEF AllAverages, new
<1> QED  BY <1>1, <1>2

(* What can be cut into parts of 4m can be cut into parts of m.            *)
LEMMA DividesToo ==
  ASSUME NEW m \in Nat \ {0}, Divides(4 * m)
  PROVE  Divides(m)
<1>1. PICK k \in Int : ONE = (4 * m) * k
  BY DEF Divides
<1>2. (4 * m) * k = m * (4 * k) /\ 4 * k \in Int
  BY Z3
<1> QED  BY <1>1, <1>2 DEF Divides

(* Scaling blends at most once, when it goes back to the siting.           *)
LEMMA ScaleAverages ==
  ASSUME NEW m \in Nat \ {0}, Divides(4 * m), ONE \in Nat \ {0}, NEW img, WellFormed(img), AllAverages(img, 4 * m),
         WellPlaced(img.siting), NEW w \in Nat \ {0}, NEW h \in Nat \ {0}
  PROVE  AllAverages(ScaleImage(img, w, h), m)
<1>1. CASE Is444(img.siting)
  BY <1>1, ScaledAverages, AllFiner
<1>2. CASE img.w = w /\ img.h = h
  BY <1>2, AllFiner DEF ScaleImage
<1>3. CASE ~ Is444(img.siting) /\ ~ (img.w = w /\ img.h = h)
  <2> DEFINE up == UpSample(img)
             scaled == ScaleImage(up, w, h)
  <2>1. WellFormed(up) /\ Is444(up.siting) /\ AllAverages(up, 4 * m)
    BY UpSampleKeeps, UpSampledAverages
  <2> HIDE DEF up
  <2>2. WellFormed(scaled) /\ AllAverages(scaled, 4 * m)
    BY <2>1, ScaleKeeps, ScaledAverages
  <2>3. img.siting \in Sitings
    BY DEF WellFormed
  <2> HIDE DEF scaled
  <2>4. AllAverages(DownSample(scaled, img.siting), m)
    BY <2>2, <2>3, DownSampleAverages
  <2> QED  BY <1>3, <2>4, ScaledInSteps DEF scaled, up
<1> QED  BY <1>1, <1>2, <1>3

(* encode_frame and decode_frame make no other values than whole ones.     *)
LEMMA UnpackedAverages ==
  ASSUME NEW m, Divides(m), ONE \in Nat \ {0}, AllAverages(image, m), NEW c \in Channels
  PROVE  Averages(Unpacked(c), m)
BY UnpackedHeld, HoldsAverages, OnlyIsAverage DEF AllAverages

-----------------------------------------------------------------------------
(* The weight of a whole pixel cut into four, again and again.             *)
FourParts(part) ==
  /\ \A k \in 1 .. MaxCalls : part[k] = 4 * part[k - 1]
  /\ \A k \in 0 .. MaxCalls : ONE % part[k] = 0
Parts == CHOOSE part \in [0 .. MaxCalls -> 1 .. ONE] : FourParts(part)

(* By PrecisionAssumption there are such parts.                            *)
LEMMA PartsDivide ==
  /\ ONE \in Nat \ {0}
  /\ \A k \in 0 .. MaxCalls : Parts[k] \in Nat \ {0} /\ Divides(Parts[k])
  /\ \A k \in 1 .. MaxCalls : Parts[k] = 4 * Parts[k - 1]
<1>1. ONE \in Nat \ {0} /\ \E part \in [0 .. MaxCalls -> 1 .. ONE] : FourParts(part)
  BY PrecisionAssumption DEF FourParts
<1>2. Parts \in [0 .. MaxCalls -> 1 .. ONE] /\ FourParts(Parts)
  BY <1>1 DEF Parts
<1>3. ASSUME NEW k \in 0 .. MaxCalls
      PROVE  Parts[k] \in Nat \ {0} /\ Divides(Parts[k])
  <2>1. Parts[k] \in Nat \ {0} /\ ONE % Parts[k] = 0
    BY <1>1, <1>2 DEF FourParts
  <2>2. ASSUME NEW m \in Nat \ {0}, ONE % m = 0
        PROVE  \E i \in Int : ONE = m * i
    <3>1. ONE \in Int /\ ONE = m * (ONE \div m) + (ONE % m) /\ ONE \div m \in Int
      BY <1>1, Z3
    <3>2. m * (ONE \div m) \in Int
      BY <3>1, Z3
    <3> QED  BY <2>2, <3>1, <3>2
  <2> QED  BY <2>1, <2>2 DEF Divides
<1> QED  BY <1>1, <1>2, <1>3 DEF FourParts

(* How often a value may still be cut: once for every call to come, and    *)
(* encode_frame has blended, if at all, when it packs.                     *)
Left == MaxCalls - calls - (IF stage = "pack" THEN 1 ELSE 0)

(* The calls that are left.                                                *)
LEMMA LeftType ==
  ASSUME Inv
  PROVE  Left \in 0 .. MaxCalls
BY ConversionAssumption DEF Inv, StageInv, Left

(* All the images returned had sample points in place.                     *)
HistoryPlaced == \A i \in DOMAIN history : WellPlaced(history[i].siting)

(* Every value is an average of parts large enough for the calls to come,  *)
(* unless it is just being packed for a siting without order.              *)
AveragesInv ==
  /\ IsHistory
  /\ HistoryPlaced => \/ AllAverages(image, Parts[Left])
                      \/ stage = "pack" /\ image.siting = target.siting /\ ~ WellPlaced(image.siting)

-----------------------------------------------------------------------------
(* ValuesAreAverages.                                                      *)

(* A call has four times the parts of the next one.                        *)
LEMMA PartsForACall ==
  ASSUME NEW k \in 1 .. MaxCalls
  PROVE  /\ Parts[k - 1] \in Nat \ {0} /\ Divides(Parts[k - 1])
         /\ Divides(4 * Parts[k - 1]) /\ Parts[k] = 4 * Parts[k - 1]
<1>1. k \in 0 .. MaxCalls /\ k - 1 \in 0 .. MaxCalls
  BY ConversionAssumption
<1>2. /\ Parts[k - 1] \in Nat \ {0} /\ Divides(Parts[k - 1]) /\ Divides(Parts[k])
      /\ Parts[k] = 4 * Parts[k - 1]
  BY <1>1, PartsDivide
<1> QED  BY <1>2

(* A call that returned, after which the image is its newest state.        *)
LEMMA AveragesReturned ==
  ASSUME IsHistory, history' = Append(history, image'),
         HistoryPlaced /\ WellPlaced(image'.siting) => AllAverages(image', Parts[Left'])
  PROVE  AveragesInv'
<1>1. PICK img, h : img = image' /\ h = history
  OBVIOUS
<1>2. (\E S : h \in Seq(S)) /\ h # <<>> /\ history' = Append(h, img)
  BY <1>1 DEF IsHistory
<1>3. /\ Len(h) \in Nat \ {0} /\ Len(Append(h, img)) = Len(h) + 1
      /\ DOMAIN h = 1 .. Len(h) /\ DOMAIN Append(h, img) = 1 .. Len(Append(h, img))
      /\ \A i \in 1 .. Len(h) : Append(h, img)[i] = h[i]
      /\ Append(h, img)[Len(h) + 1] = img
  BY <1>2, Appended
<1>4. IsHistory'
  BY Returned
<1>5. HistoryPlaced' => HistoryPlaced /\ WellPlaced(img.siting)
  <2> DEFINE g == Append(h, img)
  <2>1. (\A i \in DOMAIN g : WellPlaced(g[i].siting)) => (\A i \in DOMAIN h : WellPlaced(h[i].siting)) /\ WellPlaced(img.siting)
    <3> HIDE DEF g
    <3>1. DOMAIN h \subseteq DOMAIN g /\ Len(h) + 1 \in DOMAIN g
          /\ (\A i \in DOMAIN h : g[i] = h[i]) /\ g[Len(h) + 1] = img
      BY <1>3 DEF g
    <3> QED  BY <3>1
  <2> QED  BY <1>1, <1>2, <2>1 DEF HistoryPlaced
<1> QED  BY <1>1, <1>4, <1>5 DEF AveragesInv

(* encode_frame returns averages.                                          *)
LEMMA PackedAverages ==
  ASSUME Inv, AveragesInv, PackAndUnpack
  PROVE  AveragesInv'
<1>1. IsHistory /\ history' = Append(history, image') /\ stage = "pack"
  BY DEF AveragesInv, PackAndUnpack
<1>2. image' = [w |-> target.w, h |-> target.h, siting |-> target.siting,
                planes |-> [c \in Channels |-> Unpacked(c)]]
  BY DEF PackAndUnpack
<1>3. Left \in 0 .. MaxCalls /\ Left' = Left
  <2>1. stage' = "idle" /\ calls' = calls + 1 /\ calls \in Nat /\ MaxCalls \in Nat
    BY ConversionAssumption DEF PackAndUnpack, Inv, StageInv
  <2> QED  BY <1>1, <2>1, LeftType DEF Left
<1>4. PICK m, new : m = Parts[Left] /\ new = image'
  OBVIOUS
<1>5. Divides(m) /\ ONE \in Nat \ {0}
  BY <1>3, <1>4, PartsDivide
<1>6. ASSUME HistoryPlaced, WellPlaced(new.siting)
      PROVE  AllAverages(new, m)
  <2>1. new.siting = target.siting
    BY <1>2, <1>4
  <2>2. AllAverages(image, m)
    BY <1>4, <1>6, <2>1 DEF AveragesInv
  <2>3. \A c \in Channels : new.planes[c] = Unpacked(c)
    BY <1>2, <1>4
  <2>4. \A c \in Channels : Averages(Unpacked(c), m)
    BY <1>5, <2>2, UnpackedAverages
  <2> QED  BY <2>3, <2>4 DEF AllAverages
<1>7. Parts[Left'] = m
  BY <1>3, <1>4
<1>8. HistoryPlaced /\ WellPlaced(image'.siting) => AllAverages(image', Parts[Left'])
  BY <1>4, <1>6, <1>7
<1> QED  BY <1>1, <1>8, AveragesReturned

(* So does a call of the resampler.                                        *)
LEMMA ResampledKeepsAverages ==
  ASSUME Inv, AveragesInv, Resample
  PROVE  AveragesInv'
<1>1. IsHistory /\ history' = Append(history, image') /\ stage = "idle" /\ stage' = "idle" /\ calls < MaxCalls /\ calls' = calls + 1
  BY DEF AveragesInv, Resample
<1>2. Left \in 1 .. MaxCalls /\ Left' = Left - 1
  BY <1>1, ConversionAssumption DEF Left, Inv, StageInv
<1>3. PICK m, img, new : m = Parts[Left'] /\ img = image /\ new = image'
  OBVIOUS
<1>4. m \in Nat \ {0} /\ Divides(m) /\ Divides(4 * m) /\ Parts[Left] = 4 * m /\ ONE \in Nat \ {0}
  <2>1. PICK k \in 1 .. MaxCalls : k = Left
    BY <1>2
  <2>2. m = Parts[k - 1] /\ Parts[Left] = Parts[k]
    BY <1>2, <1>3, <2>1
  <2> QED  BY <2>2, PartsForACall, PartsDivide
<1>5. WellFormed(img)
  BY <1>3 DEF Inv
<1>6. ASSUME HistoryPlaced, WellPlaced(new.siting)
      PROVE  AllAverages(new, m)
  <2>1. AllAverages(img, 4 * m)
    BY <1>1, <1>3, <1>4, <1>6 DEF AveragesInv
  <2>2. CASE new = UpSample(img)
    BY <1>4, <1>5, <2>1, <2>2, AllFiner, UpSampledAverages
  <2>3. CASE \E f \in Targets : new = DownSample(img, f.siting)
    <3>1. PICK f \in Targets : new = DownSample(img, f.siting)
      BY <2>3
    <3>2. PICK st \in Sitings : st = f.siting
      BY TargetTypes DEF Shapes
    <3>3. new.siting = st
      BY <1>5, <3>1, <3>2, DownSampleKeeps
    <3> QED  BY <1>4, <1>5, <1>6, <2>1, <3>1, <3>2, <3>3, DownSampleAverages
  <2>4. CASE \E f \in Targets : new = ScaleImage(img, f.w, f.h)
    <3>1. PICK f \in Targets : new = ScaleImage(img, f.w, f.h)
      BY <2>4
    <3>2. PICK w \in Nat \ {0}, h \in Nat \ {0} : w = f.w /\ h = f.h
      BY TargetTypes DEF Shapes
    <3>3. new.siting = img.siting
      BY <1>5, <3>1, <3>2, ScaleKeeps
    <3> QED  BY <1>4, <1>5, <1>6, <2>1, <3>1, <3>2, <3>3, ScaleAverages
  <2> QED  BY <1>3, <2>2, <2>3, <2>4 DEF Resample
<1>7. HistoryPlaced /\ WellPlaced(image'.siting) => AllAverages(image', Parts[Left'])
  BY <1>3, <1>6
<1> QED  BY <1>1, <1>7, AveragesReturned

(* Each step keeps AveragesInv.                                            *)
LEMMA AveragesStep == Inv /\ AveragesInv /\ [Next]_vars => AveragesInv'
<1> SUFFICES ASSUME Inv, AveragesInv, [Next]_vars PROVE AveragesInv'
  OBVIOUS
<1>1. PICK img, new, m : img = image /\ new = image' /\ m = Parts[Left]
  OBVIOUS
<1>2. WellFormed(img) /\ IsHistory
  BY <1>1 DEF Inv, AveragesInv
<1>3. Left \in 0 .. MaxCalls /\ m \in Nat \ {0} /\ Divides(m) /\ ONE \in Nat \ {0}
  BY <1>1, LeftType, PartsDivide
<1>4. ASSUME history' = history,
             HistoryPlaced => \/ AllAverages(new, Parts[Left'])
                              \/ stage' = "pack" /\ new.siting = target'.siting /\ ~ WellPlaced(new.siting)
      PROVE  AveragesInv'
  <2>1. IsHistory' /\ (HistoryPlaced' <=> HistoryPlaced)
    BY <1>2, <1>4 DEF IsHistory, HistoryPlaced
  <2> QED  BY <1>1, <1>4, <2>1 DEF AveragesInv
<1>5. ASSUME stage # "pack", HistoryPlaced
      PROVE  AllAverages(img, m)
  BY <1>1, <1>5 DEF AveragesInv
<1>6. ASSUME stage \in {"size", "siting"} \/ (stage = "idle" /\ calls < MaxCalls), stage' = "pack", calls' = calls
      PROVE  Parts[Left'] \in Nat \ {0} /\ Divides(4 * Parts[Left']) /\ m = 4 * Parts[Left']
  <2>1. calls < MaxCalls /\ calls \in Nat /\ MaxCalls \in Nat
    BY <1>6, ConversionAssumption DEF Inv, StageInv
  <2>2. Left = MaxCalls - calls /\ Left' = Left - 1 /\ Left \in 1 .. MaxCalls
    BY <1>6, <2>1 DEF Left
  <2>3. PICK k \in 1 .. MaxCalls : k = Left
    BY <2>2
  <2>4. m = Parts[k] /\ Parts[Left'] = Parts[k - 1]
    BY <1>1, <2>2, <2>3
  <2> QED  BY <2>4, PartsForACall
<1>7. ASSUME stage # "pack", stage' # "pack", calls' = calls
      PROVE  Parts[Left'] = m
  BY <1>1, <1>7 DEF Left
<1>8. CASE StartEncode
  <2>1. stage = "idle" /\ calls < MaxCalls /\ calls' = calls /\ new = img /\ history' = history
    BY <1>1, <1>8 DEF StartEncode
  <2>2. CASE stage' = "pack"
    BY <1>4, <1>5, <1>6, <2>1, <2>2, AllFiner
  <2>3. CASE stage' # "pack"
    BY <1>4, <1>5, <1>7, <2>1, <2>3
  <2> QED  BY <2>2, <2>3
<1>9. CASE UpSampleToScale \/ UpSampleToResite
  <2>1. stage \in {"size", "siting"} /\ stage' = stage /\ calls' = calls /\ new = UpSample(img) /\ history' = history
    BY <1>1, <1>9 DEF UpSampleToScale, UpSampleToResite
  <2>2. HistoryPlaced => AllAverages(new, m)
    BY <1>2, <1>3, <1>5, <2>1, UpSampledAverages
  <2> QED  BY <1>4, <1>7, <2>1, <2>2
<1>10. CASE Scale
  <2>1. stage = "size" /\ stage' = "siting" /\ calls' = calls /\ history' = history /\ Is444(img.siting) /\ target \in Targets
    BY <1>1, <1>10 DEF Scale, Inv, StageInv
  <2>2. PICK w \in Nat \ {0}, h \in Nat \ {0} : w = target.w /\ h = target.h
    BY <2>1, TargetTypes DEF Shapes
  <2>3. new = ScaleImage(img, w, h)
    BY <1>1, <1>10, <2>2 DEF Scale
  <2>4. HistoryPlaced => AllAverages(new, m)
    BY <1>2, <1>3, <1>5, <2>1, <2>3, ScaledAverages
  <2> QED  BY <1>4, <1>7, <2>1, <2>4
<1>11. CASE DownSampleToTarget
  <2>1. stage = "siting" /\ stage' = "pack" /\ calls' = calls /\ history' = history /\ target \in Targets /\ target' = target
    BY <1>11 DEF DownSampleToTarget, Inv, StageInv
  <2>2. PICK st \in Sitings : st = target.siting
    BY <2>1, TargetTypes DEF Shapes
  <2>3. new = DownSample(img, st)
    BY <1>1, <1>11, <2>2 DEF DownSampleToTarget
  <2>4. new.siting = st
    BY <1>2, <2>3, DownSampleKeeps
  <2>5. PICK n : n = Parts[Left']
    OBVIOUS
  <2>6. n \in Nat \ {0} /\ Divides(4 * n) /\ m = 4 * n
    BY <1>6, <2>1, <2>5
  <2>7. HistoryPlaced /\ WellPlaced(st) => AllAverages(new, n)
    BY <1>2, <1>3, <1>5, <2>1, <2>3, <2>6, DownSampleAverages
  <2> QED  BY <1>4, <2>1, <2>2, <2>4, <2>5, <2>7
<1>12. CASE EndConversion
  <2>1. stage = "siting" /\ stage' = "pack" /\ calls' = calls /\ new = img /\ history' = history
    BY <1>1, <1>12 DEF EndConversion
  <2> QED  BY <1>4, <1>5, <1>6, <2>1, AllFiner
<1>13. CASE PackAndUnpack
  BY <1>13, PackedAverages
<1>14. CASE Resample
  BY <1>14, ResampledKeepsAverages
<1>15. CASE Finished \/ UNCHANGED vars
  <2>1. image' = image /\ stage' = stage /\ history' = history /\ target' = target /\ calls' = calls
    BY <1>15 DEF Finished, vars
  <2> QED  BY <2>1 DEF AveragesInv, IsHistory, HistoryPlaced, Left
<1> QED
  BY <1>8, <1>9, <1>10, <1>11, <1>12, <1>13, <1>14, <1>15 DEF Next

(* An original is made of whole pixels.                                    *)
LEMMA AveragesStart == Init => AveragesInv
<1> SUFFICES ASSUME Init PROVE AveragesInv
  OBVIOUS
<1>1. PICK f \in Originals : image = ImageOf(f)
  BY DEF Init
<1>2. Left = MaxCalls /\ MaxCalls \in Nat
  BY ConversionAssumption DEF Init, Left
<1>3. Divides(Parts[Left]) /\ ONE \in Nat \ {0}
  BY <1>2, PartsDivide
<1>4. ASSUME NEW c \in Channels
      PROVE  Averages(ImageOf(f).planes[c], Parts[Left])
  <2> DEFINE s == ImageOf(f).planes[c]
  <2>1. CASE IsEmpty(s)
    <3>1. Pixels(s.w, s.h) = {}
      BY <2>1 DEF IsEmpty, Pixels
    <3> QED  BY <3>1 DEF Averages
  <2>2. CASE ~ IsEmpty(s)
    BY <1>3, <2>2, OriginalPlanes, OnlyIsAverage DEF Averages
  <2> QED  BY <2>1, <2>2
<1>5. IsHistory
  <2>1. PICK img : img = image
    OBVIOUS
  <2>2. history = <<img>> /\ <<img>> \in Seq({img}) /\ <<img>> # <<>>
    BY <2>1 DEF Init
  <2> QED  BY <2>2 DEF IsHistory
<1> QED  BY <1>1, <1>4, <1>5 DEF AveragesInv, AllAverages

(* ValuesAreAverages: however often an image is converted and resampled,   *)
(* the weights of a value's sources are positive and add up to one.        *)
THEOREM EveryValueIsAnAverage == Spec => []ValuesAreAverages
<1>1. AveragesInv => ValuesAreAverages
  <2> SUFFICES ASSUME AveragesInv, \A i \in DOMAIN Timeline : WellPlaced(Timeline[i].siting)
               PROVE  \A c \in Channels : LET s == image.planes[c]
                                          IN  \A q \in Pixels(s.w, s.h) :
                                                /\ \A t \in DOMAIN s.at[q] : s.at[q][t] > 0
                                                /\ MapThenSumSet(LAMBDA t : s.at[q][t], DOMAIN s.at[q]) = ONE
    BY DEF ValuesAreAverages
  <2>1. HistoryPlaced /\ WellPlaced(image.siting)
    <3>1. PICK img, h : img = image /\ h = history
      OBVIOUS
    <3>2. (\E S : h \in Seq(S)) /\ h # <<>>
      BY <3>1 DEF AveragesInv, IsHistory
    <3>3. PICK g : g = Append(h, img)
      OBVIOUS
    <3>4. /\ Len(h) \in Nat \ {0} /\ DOMAIN h = 1 .. Len(h) /\ DOMAIN g = 1 .. Len(h) + 1
          /\ \A i \in 1 .. Len(h) : g[i] = h[i]
          /\ g[Len(h) + 1] = img
      BY <3>2, <3>3, Appended
    <3>5. \A i \in DOMAIN g : WellPlaced(g[i].siting)
      BY <3>1, <3>3 DEF Timeline
    <3>6. (\A i \in DOMAIN h : WellPlaced(h[i].siting)) /\ WellPlaced(img.siting)
      BY <3>4, <3>5
    <3> QED  BY <3>1, <3>6 DEF HistoryPlaced
  <2>2. PICK m : AllAverages(image, m)
    BY <2>1 DEF AveragesInv
  <2>3. ASSUME NEW v, Average(v, m)
        PROVE  (\A t \in DOMAIN v : v[t] > 0) /\ MapThenSumSet(LAMBDA t : v[t], DOMAIN v) = ONE
    <3>1. \A t \in DOMAIN v : v[t] > 0
      BY <2>3 DEF Average
    <3>2. Sum(v, DOMAIN v) = ONE
      BY <2>3 DEF Average
    <3> QED  BY <3>1, <3>2 DEF Sum
  <2> SUFFICES ASSUME NEW c \in Channels, NEW q \in Pixels(image.planes[c].w, image.planes[c].h)
               PROVE  /\ \A t \in DOMAIN image.planes[c].at[q] : image.planes[c].at[q][t] > 0
                      /\ MapThenSumSet(LAMBDA t : image.planes[c].at[q][t], DOMAIN image.planes[c].at[q]) = ONE
    OBVIOUS
  <2>4. PICK v : v = image.planes[c].at[q]
    OBVIOUS
  <2>5. Average(v, m)
    BY <2>2, <2>4 DEF AllAverages, Averages
  <2> QED  BY <2>3, <2>4, <2>5
<1>2. Inv /\ AveragesInv /\ [Next]_vars => AveragesInv'
  BY AveragesStep
<1> QED
  BY <1>1, <1>2, AveragesStart, Invariance, PTL DEF Spec

-----------------------------------------------------------------------------
(* What the operations leave of the shape of values and surfaces.          *)

(* A value as the operations make it, and a surface: a record with a value *)
(* in each place and nothing else.                                         *)
IsMixture(v) ==
  /\ v = [t \in DOMAIN v |-> v[t]]
  /\ IsFiniteSet(DOMAIN v)
  /\ \A t \in DOMAIN v : v[t] \in Int \ {0}

Shaped(s) == s = [w |-> s.w, h |-> s.h, at |-> [q \in Pixels(s.w, s.h) |-> s.at[q]]]
IsSurface(s) == Shaped(s) /\ \A v \in Held(s) : IsMixture(v)
HasSurfaces(img) == \A c \in Channels : ~ IsEmpty(img.planes[c]) => IsSurface(img.planes[c])

(* A whole pixel is such a value.                                          *)
LEMMA OnlyIsMixture ==
  ASSUME ONE \in Nat \ {0}, NEW x
  PROVE  IsMixture(Only(x))
<1>1. DOMAIN Only(x) = {x} /\ Only(x)[x] = ONE /\ Only(x) = [t \in {x} |-> Only(x)[t]]
  BY DEF Only
<1>2. IsFiniteSet({x})
  BY FS_Singleton
<1> QED  BY <1>1, <1>2 DEF IsMixture

(* Finitely many finite sets have a finite union.                          *)
LEMMA UnionIsFinite ==
  ASSUME NEW D, IsFiniteSet(D), NEW f, \A b \in D : IsFiniteSet(DOMAIN f[b])
  PROVE  IsFiniteSet(UNION {DOMAIN f[b] : b \in D})
<1> DEFINE G == {s \in SUBSET D : IsFiniteSet(UNION {DOMAIN f[b] : b \in s})}
<1>1. {} \in G
  <2>1. UNION {DOMAIN f[b] : b \in {}} = {}
    OBVIOUS
  <2> QED  BY <2>1, FS_EmptySet
<1>2. ASSUME NEW s \in SUBSET D, NEW x \in D, s \in G
      PROVE  s \cup {x} \in G
  <2>1. UNION {DOMAIN f[b] : b \in s \cup {x}} = (UNION {DOMAIN f[b] : b \in s}) \cup DOMAIN f[x]
    OBVIOUS
  <2>2. IsFiniteSet(UNION {DOMAIN f[b] : b \in s}) /\ IsFiniteSet(DOMAIN f[x])
    BY <1>2
  <2>3. IsFiniteSet((UNION {DOMAIN f[b] : b \in s}) \cup DOMAIN f[x])
    BY <2>2, FS_Union
  <2> QED  BY <2>1, <2>3
<1> HIDE DEF G
<1>3. D \in G
  BY <1>1, <1>2, SubsetInduction
<1> QED  BY <1>3 DEF G

(* Blending mixtures makes a mixture, whatever the weights are.            *)
LEMMA BlendIsMixture ==
  ASSUME NEW weights, NEW values, IsFiniteSet(DOMAIN values),
         \A b \in DOMAIN values : weights[b] \in Int /\ IsMixture(values[b])
  PROVE  IsMixture(Blend(weights, values))
<1> DEFINE D == DOMAIN values
           sources == UNION {DOMAIN values[b] : b \in D}
           total(t) == Total(weights, values, t)
           new == [t \in {s \in sources : total(s) # 0} |-> total(t)]
<1>1. Blend(weights, values) = new
  BY BlendIs
<1>2. IsFiniteSet(sources)
  <2> SUFFICES \A b \in D : IsFiniteSet(DOMAIN values[b])
    BY UnionIsFinite
  <2> QED  BY DEF IsMixture
<1>3. ASSUME NEW t
      PROVE  total(t) \in Int
  <2>1. ASSUME NEW b \in D
        PROVE  Shares(weights, values, t)[b] \in Int
    <3>1. Shares(weights, values, t)[b] = IF t \in DOMAIN values[b] THEN weights[b] * values[b][t] ELSE 0
      BY DEF Shares
    <3>2. CASE t \in DOMAIN values[b]
      <4>1. weights[b] \in Int /\ values[b][t] \in Int
        BY <3>2 DEF IsMixture
      <4>2. weights[b] * values[b][t] \in Int
        BY <4>1, Z3
      <4> QED  BY <3>1, <3>2, <4>2
    <3>3. CASE t \notin DOMAIN values[b]
      BY <3>1, <3>3
    <3> QED  BY <3>2, <3>3
  <2>2. PICK f : f = Shares(weights, values, t)
    OBVIOUS
  <2>3. Sum(f, D) \in Int
    BY <2>1, <2>2, SumTakesOut
  <2> QED  BY <2>2, <2>3 DEF Total
<1> HIDE DEF total, sources
<1>4. IsFiniteSet({s \in sources : total(s) # 0})
  BY <1>2, FS_Subset
<1>5. IsMixture(new)
  BY <1>3, <1>4 DEF IsMixture
<1> QED  BY <1>1, <1>5

(* Weights are whole numbers of quarters.                                  *)
LEMMA WeightIsWhole ==
  ASSUME NEW own \in Int \X Int, NEW other \in Int \X Int, NEW b \in Nat \X Nat
  PROVE  Weight(own, other, b) \in Int
<1>1. \A p \in Int, x \in Nat : Nearness(p, x) \in Int
  BY DEF Nearness, AbsOf
<1>2. \A x, y \in Int : x * y \in Int
  BY Z3
<1> QED  BY <1>1, <1>2 DEF Weight

(* What is known of a siting.                                              *)
LEMMA SitingPoints ==
  ASSUME NEW st \in Sitings
  PROVE  st \in [mw : Nat \ {0}, mh : Nat \ {0}, u : Int \X Int, v : Int \X Int]
BY ConversionAssumption DEF Sitings, Full

-----------------------------------------------------------------------------

(* Each operation makes surfaces of surfaces.                              *)
LEMMA DownSampledIsSurface ==
  ASSUME NEW s, NEW w \in Nat \ {0}, NEW h \in Nat \ {0}, s.w = w, s.h = h, IsSurface(s),
         NEW st, st.mw \in Nat \ {0}, st.mh \in Nat \ {0}, NEW own \in Int \X Int, NEW other \in Int \X Int
  PROVE  IsSurface(DownSampleSurface(s, w, h, st, own, other))
<1> DEFINE macro == Pixels(st.mw, st.mh)
           weights == [b \in macro |-> Weight(own, other, b)]
           near == {m \in macro : weights[m] # 0}
           around(x, y) == [b \in near |->
                              Get(s, AtMost(x * st.mw + b[1], w - 1), AtMost(y * st.mh + b[2], h - 1))]
           sw == CeilDiv(w, st.mw)
           sh == CeilDiv(h, st.mh)
           new == [w |-> sw, h |-> sh, at |-> [q \in Pixels(sw, sh) |-> Blend(weights, around(q[1], q[2]))]]
<1>1. DownSampleSurface(s, w, h, st, own, other) = new
  BY DEF DownSampleSurface
<1>2. IsFiniteSet(near)
  <2>1. IsFiniteSet(0 .. st.mw - 1) /\ IsFiniteSet(0 .. st.mh - 1)
    <3>1. 0 \in Int /\ st.mw - 1 \in Int /\ st.mh - 1 \in Int
      OBVIOUS
    <3> QED  BY <3>1, FS_Interval
  <2>2. IsFiniteSet(macro)
    BY <2>1, FS_Product DEF Pixels
  <2> QED  BY <2>2, FS_Subset
<1>3. \A b \in macro : b[1] \in Nat /\ b[2] \in Nat /\ weights[b] \in Int
  <2>1. macro \subseteq Nat \X Nat
    BY DEF Pixels
  <2> QED  BY <2>1, WeightIsWhole
<1>4. sw \in Nat /\ sh \in Nat
  BY CeilDivPositive
<1> HIDE DEF sw, sh, weights
<1>5. ASSUME NEW q \in Pixels(sw, sh)
      PROVE  IsMixture(Blend(weights, around(q[1], q[2])))
  <2>1. q[1] \in Nat /\ q[2] \in Nat
    BY <1>4 DEF Pixels
  <2>2. ASSUME NEW b \in near
        PROVE  IsMixture(Get(s, AtMost(q[1] * st.mw + b[1], w - 1), AtMost(q[2] * st.mh + b[2], h - 1)))
    <3> DEFINE i == q[1] * st.mw + b[1]
               j == q[2] * st.mh + b[2]
    <3>1. i \in Nat /\ j \in Nat
      BY <1>3, <2>1, Z3
    <3>2. /\ AtMost(i, w - 1) \in Nat /\ AtMost(i, w - 1) < s.w
          /\ AtMost(j, h - 1) \in Nat /\ AtMost(j, h - 1) < s.h
      BY <3>1 DEF AtMost
    <3>3. PICK p \in Pixels(s.w, s.h) : Get(s, AtMost(i, w - 1), AtMost(j, h - 1)) = s.at[p]
      BY <3>2, GetInside
    <3> QED  BY <3>3 DEF IsSurface, Held
  <2>3. PICK values : values = around(q[1], q[2])
    OBVIOUS
  <2>4. DOMAIN values = near /\ \A b \in near : weights[b] \in Int /\ IsMixture(values[b])
    BY <1>3, <2>2, <2>3
  <2>5. IsMixture(Blend(weights, values))
    <3> HIDE DEF near, around
    <3> QED  BY <1>2, <2>4, BlendIsMixture
  <2> QED  BY <2>3, <2>5
<1> HIDE DEF around
<1>6. \A v \in Held(new) : IsMixture(v)
  BY <1>5 DEF Held
<1>7. Shaped(new)
  BY DEF Shaped
<1> QED  BY <1>1, <1>6, <1>7 DEF IsSurface

(* up_sample writes every pixel and no more.                               *)
LEMMA UpSampledIsShaped ==
  ASSUME NEW s, NEW w, NEW h, NEW st
  PROVE  Shaped(UpSampleSurface(s, w, h, st))
BY DEF Shaped, UpSampleSurface

(* So does scale.                                                          *)
LEMMA ScaledIsShaped ==
  ASSUME NEW s, NEW w, NEW h
  PROVE  Shaped(ScaleSurface(s, w, h))
BY DEF Shaped, ScaleSurface

(* The surfaces of an up-sampled image.                                    *)
LEMMA UpSampleHasSurfaces ==
  ASSUME ONE \in Nat \ {0}, NEW img, WellFormed(img), HasSurfaces(img)
  PROVE  HasSurfaces(UpSample(img))
<1> SUFFICES ASSUME NEW c \in Channels, ~ IsEmpty(UpSample(img).planes[c])
             PROVE  IsSurface(UpSample(img).planes[c])
  BY DEF HasSurfaces
<1>1. CASE Is444(img.siting)
  BY <1>1 DEF UpSample, HasSurfaces
<1>2. CASE ~ Is444(img.siting) /\ ~ (c \in {ChannelU, ChannelV} /\ ~ IsEmpty(img.planes[c]))
  BY <1>2, UpSampledPlanes DEF HasSurfaces
<1>3. CASE ~ Is444(img.siting) /\ c \in {ChannelU, ChannelV} /\ ~ IsEmpty(img.planes[c])
  <2>1. Shaped(UpSample(img).planes[c])
    BY <1>3, UpSampledPlanes, UpSampledIsShaped
  <2>2. \A v \in Held(img.planes[c]) \cup {Only(Outside)} : IsMixture(v)
    BY <1>3, OnlyIsMixture DEF HasSurfaces, IsSurface
  <2> QED  BY <2>1, <2>2, UpSampledHeld DEF IsSurface
<1> QED  BY <1>1, <1>2, <1>3

(* Of one that is scaled at full resolution.                               *)
LEMMA FullScaleHasSurfaces ==
  ASSUME ONE \in Nat \ {0}, NEW img, WellFormed(img), Is444(img.siting), HasSurfaces(img),
         NEW w \in Nat \ {0}, NEW h \in Nat \ {0}
  PROVE  HasSurfaces(ScaleImage(img, w, h))
<1> SUFFICES ASSUME NEW c \in Channels, ~ IsEmpty(ScaleImage(img, w, h).planes[c])
             PROVE  IsSurface(ScaleImage(img, w, h).planes[c])
  BY DEF HasSurfaces
<1>1. CASE img.w = w /\ img.h = h
  BY <1>1 DEF ScaleImage, HasSurfaces
<1>2. CASE ~ (img.w = w /\ img.h = h)
  <2>1. ScaleImage(img, w, h).planes[c] = ScaleSurface(img.planes[c], w, h) /\ ~ IsEmpty(img.planes[c])
    BY <1>2, ScaledPlanes
  <2>2. \A v \in Held(img.planes[c]) \cup {Only(Outside)} : IsMixture(v)
    BY <2>1, OnlyIsMixture DEF HasSurfaces, IsSurface
  <2> QED  BY <2>1, <2>2, ScaledHeld, ScaledIsShaped DEF IsSurface
<1> QED  BY <1>1, <1>2

(* Of a down-sampled one.                                                  *)
LEMMA DownSampleHasSurfaces ==
  ASSUME ONE \in Nat \ {0}, NEW img, WellFormed(img), HasSurfaces(img), NEW st \in Sitings
  PROVE  HasSurfaces(DownSample(img, st))
<1>1. CASE img.siting = st
  BY <1>1 DEF DownSample
<1>2. CASE img.siting # st
  <2> DEFINE up == UpSample(img)
             new == DownSample(img, st)
             below(c, own, other) == IF IsEmpty(up.planes[c]) THEN up.planes[c]
                                     ELSE DownSampleSurface(up.planes[c], up.w, up.h, st, own, other)
  <2>1. WellFormed(up) /\ Is444(up.siting) /\ up.w \in Nat \ {0} /\ up.h \in Nat \ {0}
    BY UpSampleKeeps DEF WellFormed
  <2>2. HasSurfaces(up)
    BY UpSampleHasSurfaces
  <2>3. /\ new.planes[ChannelY] = up.planes[ChannelY]
        /\ new.planes[ChannelA] = up.planes[ChannelA]
        /\ new.planes[ChannelU] = below(ChannelU, st.u, st.v)
        /\ new.planes[ChannelV] = below(ChannelV, st.v, st.u)
    BY <1>2, DownSampledPlanes
  <2> HIDE DEF up, new
  <2>4. ASSUME NEW c \in Channels, NEW own \in Int \X Int, NEW other \in Int \X Int
        PROVE  ~ IsEmpty(below(c, own, other)) => IsSurface(below(c, own, other))
    <3>1. CASE IsEmpty(up.planes[c])
      BY <3>1
    <3>2. CASE ~ IsEmpty(up.planes[c])
      <4>1. up.planes[c].w = up.w /\ up.planes[c].h = up.h
        BY <2>1, <3>2, FullSizes
      <4>2. st.mw \in Nat \ {0} /\ st.mh \in Nat \ {0}
        BY SitingTypes
      <4>3. IsSurface(up.planes[c])
        BY <2>2, <3>2 DEF HasSurfaces
      <4>4. IsSurface(DownSampleSurface(up.planes[c], up.w, up.h, st, own, other))
        BY <2>1, <4>1, <4>2, <4>3, DownSampledIsSurface
      <4> QED  BY <3>2, <4>4
    <3> QED  BY <3>1, <3>2
  <2>5. st.u \in Int \X Int /\ st.v \in Int \X Int
    BY SitingPoints
  <2> HIDE DEF below
  <2>6. \A c \in Channels : ~ IsEmpty(new.planes[c]) => IsSurface(new.planes[c])
    BY <2>2, <2>3, <2>4, <2>5, ChannelNames DEF HasSurfaces
  <2> QED  BY <2>6 DEF HasSurfaces, new
<1> QED  BY <1>1, <1>2

(* Of one that is scaled at any siting.                                    *)
LEMMA ScaleHasSurfaces ==
  ASSUME ONE \in Nat \ {0}, NEW img, WellFormed(img), HasSurfaces(img), NEW w \in Nat \ {0}, NEW h \in Nat \ {0}
  PROVE  HasSurfaces(ScaleImage(img, w, h))
<1>1. CASE Is444(img.siting)
  BY <1>1, FullScaleHasSurfaces
<1>2. CASE img.w = w /\ img.h = h
  BY <1>2 DEF ScaleImage
<1>3. CASE ~ Is444(img.siting) /\ ~ (img.w = w /\ img.h = h)
  <2> DEFINE up == UpSample(img)
             scaled == ScaleImage(up, w, h)
  <2>1. WellFormed(up) /\ Is444(up.siting) /\ HasSurfaces(up)
    BY UpSampleKeeps, UpSampleHasSurfaces
  <2> HIDE DEF up
  <2>2. WellFormed(scaled) /\ HasSurfaces(scaled)
    BY <2>1, ScaleKeeps, FullScaleHasSurfaces
  <2>3. img.siting \in Sitings
    BY DEF WellFormed
  <2> HIDE DEF scaled
  <2>4. HasSurfaces(DownSample(scaled, img.siting))
    BY <2>2, <2>3, DownSampleHasSurfaces
  <2> QED  BY <1>3, <2>4, ScaledInSteps DEF scaled, up
<1> QED  BY <1>1, <1>2, <1>3

(* Of one that went through a frame.                                       *)
LEMMA UnpackedIsSurface ==
  ASSUME ONE \in Nat \ {0}, HasSurfaces(image), NEW c \in Channels, ~ IsEmpty(Unpacked(c))
  PROVE  IsSurface(Unpacked(c))
<1> DEFINE s == image.planes[c]
           w == PlaneW(target.w, target.siting, c)
           h == PlaneH(target.h, target.siting, c)
           missing == IF c = ChannelA THEN Only(Opaque) ELSE Only(Poison)
           value(p) == IF IsEmpty(s) THEN missing ELSE IF p \in Pixels(s.w, s.h) THEN s.at[p] ELSE Only(Poison)
<1>1. Unpacked(c) = [w |-> w, h |-> h, at |-> [p \in Pixels(w, h) |-> value(p)]]
  BY DEF Unpacked, IsEmpty, Empty
<1>2. Shaped(Unpacked(c))
  <2> HIDE DEF w, h, value
  <2> QED  BY <1>1 DEF Shaped
<1>3. \A v \in Held(s) \cup {Only(Opaque), Only(Poison)} : IsMixture(v)
  <2>1. IsEmpty(s) => Held(s) = {}
    BY NothingHeld
  <2> QED  BY <2>1, OnlyIsMixture DEF HasSurfaces, IsSurface
<1> QED  BY <1>2, <1>3, UnpackedHeld DEF IsSurface

(* Of one that was just read.                                              *)
LEMMA OriginalHasSurfaces ==
  ASSUME ONE \in Nat \ {0}, NEW f \in Originals
  PROVE  HasSurfaces(ImageOf(f))
<1> SUFFICES ASSUME NEW c \in Channels, ~ IsEmpty(ImageOf(f).planes[c])
             PROVE  IsSurface(ImageOf(f).planes[c])
  BY DEF HasSurfaces
<1> DEFINE w == PlaneW(f.w, f.siting, c)
           h == PlaneH(f.h, f.siting, c)
           there == [w |-> w, h |-> h, at |-> [q \in Pixels(w, h) |-> Only(q)]]
<1>1. ImageOf(f).planes[c] = IF c \notin f.channels THEN Empty ELSE there
  BY DEF ImageOf
<1>2. ImageOf(f).planes[c] = there
  BY <1>1 DEF IsEmpty, Empty
<1> HIDE DEF w, h
<1>3. Shaped(there) /\ \A v \in Held(there) : IsMixture(v)
  BY OnlyIsMixture DEF Shaped, Held
<1> QED  BY <1>2, <1>3 DEF IsSurface

-----------------------------------------------------------------------------
(* Down-sampling undoes up-sampling.                                       *)

(* Pixel x of a macro pixel, or the last one before the edge, is in it.    *)
LEMMA InItsMacroPixel ==
  ASSUME NEW w \in Nat \ {0}, NEW m \in Nat \ {0}, NEW q \in Nat, q < CeilDiv(w, m), NEW x \in 0 .. m - 1
  PROVE  /\ AtMost(q * m + x, w - 1) \in Nat
         /\ AtMost(q * m + x, w - 1) < w
         /\ AtMost(q * m + x, w - 1) \div m = q
<1> DEFINE r == CeilDiv(w, m)
           a == q * m
           p == AtMost(a + x, w - 1)
<1>1. a \in Nat /\ (q + 1) * m = a + m
  BY Z3
<1>2. a < w
  <2>1. r \in Nat /\ m * r <= w + m - 1
    <3>1. w + m - 1 \in Nat /\ (w + m - 1) \div m \in Nat /\ m * ((w + m - 1) \div m) <= w + m - 1
      BY Z3
    <3> QED  BY <3>1 DEF CeilDiv
  <2>2. (q + 1) * m <= m * r
    <3> HIDE DEF r
    <3>1. q + 1 <= r
      BY <2>1 DEF r
    <3> QED  BY <2>1, <3>1, Z3
  <2>3. m * r \in Nat
    <3> HIDE DEF r
    <3> QED  BY <2>1, Z3
  <2> HIDE DEF r, a
  <2> QED  BY <1>1, <2>1, <2>2, <2>3
<1> HIDE DEF a
<1>3. p \in Nat /\ p < w /\ p >= a /\ p < a + m
  BY <1>1, <1>2 DEF AtMost
<1> DEFINE y == p - a
<1>4. y \in Nat /\ y < m /\ p = a + y
  BY <1>1, <1>3
<1> HIDE DEF p, y
<1>5. (a + y) \div m = q
  BY <1>4, TwoDigits DEF a
<1> QED  BY <1>3, <1>4, <1>5 DEF p, a

(* Four times the same value, in the words used here.                      *)
LEMMA MeanOfMixture ==
  ASSUME NEW v, IsMixture(v)
  PROVE  Mean(v, v, v, v) = v
BY MeanOfSame DEF IsMixture

(* Up-sampled and down-sampled again, a surface is what it was.            *)
LEMMA ThereAndBack ==
  ASSUME ONE \in Int, NEW w \in Nat \ {0}, NEW h \in Nat \ {0}, NEW st, st.mw \in Nat \ {0}, st.mh \in Nat \ {0},
         NEW own, NEW other, Placed(own, other, st.mw, st.mh),
         NEW s, IsSurface(s), s.w = CeilDiv(w, st.mw), s.h = CeilDiv(h, st.mh)
  PROVE  DownSampleSurface(UpSampleSurface(s, w, h, st), w, h, st, own, other) = s
<1> DEFINE t == UpSampleSurface(s, w, h, st)
           new == DownSampleSurface(t, w, h, st, own, other)
<1>1. s.w \in Nat \ {0} /\ s.h \in Nat \ {0}
  BY CeilDivPositive
<1>2. ASSUME NEW x \in Nat, NEW y \in Nat, x < w, y < h
      PROVE  /\ x \div st.mw \in Nat /\ x \div st.mw < s.w /\ y \div st.mh \in Nat /\ y \div st.mh < s.h
             /\ t.at[<<x, y>>] = s.at[<<x \div st.mw, y \div st.mh>>]
             /\ Get(t, x, y) = s.at[<<x \div st.mw, y \div st.mh>>]
  <2>1. x \div st.mw \in Nat /\ x \div st.mw < s.w /\ y \div st.mh \in Nat /\ y \div st.mh < s.h
    BY <1>2, MacroPixelInside
  <2>2. <<x, y>> \in Pixels(w, h)
    BY <1>2 DEF Pixels
  <2>3. t.at[<<x, y>>] = Get(s, x \div st.mw, y \div st.mh)
    BY <2>2 DEF UpSampleSurface
  <2>4. Get(s, x \div st.mw, y \div st.mh) = s.at[<<x \div st.mw, y \div st.mh>>]
    BY <1>1, <2>1, GetExact
  <2>5. t.w = w /\ t.h = h
    BY DEF UpSampleSurface
  <2> HIDE DEF t
  <2>6. Get(t, x, y) = t.at[<<x, y>>]
    BY <1>2, <2>5, GetExact
  <2> QED  BY <2>1, <2>3, <2>4, <2>6
<1>3. HasValues(t) /\ t.w = w /\ t.h = h
  <2>1. t.w = w /\ t.h = h
    BY DEF UpSampleSurface
  <2>2. ASSUME NEW q \in Pixels(w, h)
        PROVE  IsValue(t.at[q])
    <3>1. q[1] \in Nat /\ q[1] < w /\ q[2] \in Nat /\ q[2] < h /\ q = <<q[1], q[2]>>
      BY DEF Pixels
    <3> DEFINE p == <<q[1] \div st.mw, q[2] \div st.mh>>
    <3>2. t.at[q] = s.at[p] /\ p \in Pixels(s.w, s.h)
      <4>1. q[1] \div st.mw \in Nat /\ q[1] \div st.mw < s.w /\ q[2] \div st.mh \in Nat /\ q[2] \div st.mh < s.h
        BY <1>2, <3>1
      <4>2. t.at[<<q[1], q[2]>>] = s.at[p]
        BY <1>2, <3>1
      <4> QED  BY <1>1, <3>1, <4>1, <4>2 DEF Pixels
    <3>3. IsMixture(s.at[p])
      BY <3>2 DEF IsSurface, Held
    <3> QED  BY <3>2, <3>3 DEF IsMixture, IsValue
  <2> HIDE DEF t
  <2> QED  BY <2>1, <2>2 DEF HasValues
<1> HIDE DEF t
<1>4. PICK x0 \in 0 .. st.mw - 1, x1 \in 0 .. st.mw - 1, y0 \in 0 .. st.mh - 1, y1 \in 0 .. st.mh - 1 :
        SampledFrom(t, w, h, st, own, other, x0, x1, y0, y1)
  <2> HIDE DEF new
  <2> QED  BY <1>3, DownSampledIsMean
<1>5. ASSUME NEW q \in Pixels(s.w, s.h)
      PROVE  new.at[q] = s.at[q]
  <2>1. q[1] \in Nat /\ q[1] < s.w /\ q[2] \in Nat /\ q[2] < s.h /\ q = <<q[1], q[2]>>
    BY <1>1 DEF Pixels
  <2>2. ASSUME NEW x \in 0 .. st.mw - 1, NEW y \in 0 .. st.mh - 1
        PROVE  Seen(t, w, h, st, q, x, y) = s.at[q]
    <3> DEFINE i == AtMost(q[1] * st.mw + x, w - 1)
               j == AtMost(q[2] * st.mh + y, h - 1)
    <3>1. i \in Nat /\ i < w /\ i \div st.mw = q[1]
      BY <2>1, InItsMacroPixel
    <3>2. j \in Nat /\ j < h /\ j \div st.mh = q[2]
      BY <2>1, InItsMacroPixel
    <3> HIDE DEF i, j
    <3>3. Get(t, i, j) = s.at[<<i \div st.mw, j \div st.mh>>]
      BY <1>2, <3>1, <3>2
    <3> QED  BY <2>1, <3>1, <3>2, <3>3 DEF Seen, i, j
  <2>3. new.at[q] = Mean(Seen(t, w, h, st, q, x0, y0), Seen(t, w, h, st, q, x1, y0),
                         Seen(t, w, h, st, q, x0, y1), Seen(t, w, h, st, q, x1, y1))
    BY <1>4 DEF SampledFrom
  <2>4. new.at[q] = Mean(s.at[q], s.at[q], s.at[q], s.at[q])
    <3> HIDE DEF new
    <3> QED  BY <2>2, <2>3
  <2>5. IsMixture(s.at[q])
    BY DEF IsSurface, Held
  <2> QED  BY <2>4, <2>5, MeanOfMixture
<1>6. new.w = s.w /\ new.h = s.h /\ new = [w |-> s.w, h |-> s.h, at |-> [q \in Pixels(s.w, s.h) |-> new.at[q]]]
  BY DEF DownSampleSurface
<1>7. s = [w |-> s.w, h |-> s.h, at |-> [q \in Pixels(s.w, s.h) |-> s.at[q]]]
  BY DEF IsSurface, Shaped
<1> HIDE DEF new
<1>8. [q \in Pixels(s.w, s.h) |-> new.at[q]] = [q \in Pixels(s.w, s.h) |-> s.at[q]]
  BY <1>5
<1>9. new = s
  BY <1>6, <1>7, <1>8
<1> QED  BY <1>9 DEF new, t

(* At full resolution there is nothing to up-sample.                       *)
LEMMA FullIsOneToOne ==
  ASSUME NEW s, IsSurface(s), s.w \in Nat \ {0}, s.h \in Nat \ {0}
  PROVE  UpSampleSurface(s, s.w, s.h, Full) = s
<1> DEFINE new == UpSampleSurface(s, s.w, s.h, Full)
<1>1. new = [w |-> s.w, h |-> s.h, at |-> [q \in Pixels(s.w, s.h) |-> Get(s, q[1] \div 1, q[2] \div 1)]]
  BY DEF UpSampleSurface, Full
<1>2. ASSUME NEW q \in Pixels(s.w, s.h)
      PROVE  Get(s, q[1] \div 1, q[2] \div 1) = s.at[q]
  <2>1. q[1] \in Nat /\ q[1] < s.w /\ q[2] \in Nat /\ q[2] < s.h /\ q = <<q[1], q[2]>>
    BY DEF Pixels
  <2>2. q[1] \div 1 = q[1] /\ q[2] \div 1 = q[2]
    BY <2>1
  <2>3. Get(s, q[1], q[2]) = s.at[<<q[1], q[2]>>]
    BY <2>1, GetExact
  <2> QED  BY <2>1, <2>2, <2>3
<1>3. s = [w |-> s.w, h |-> s.h, at |-> [q \in Pixels(s.w, s.h) |-> s.at[q]]]
  BY DEF IsSurface, Shaped
<1>4. [q \in Pixels(s.w, s.h) |-> Get(s, q[1] \div 1, q[2] \div 1)] = [q \in Pixels(s.w, s.h) |-> s.at[q]]
  BY <1>2
<1> QED  BY <1>1, <1>3, <1>4

(* At full resolution down-sampling changes nothing.                       *)
LEMMA FullThereAndBack ==
  ASSUME ONE \in Int, NEW s, IsSurface(s), s.w \in Nat \ {0}, s.h \in Nat \ {0},
         NEW own, NEW other, Placed(own, other, 1, 1)
  PROVE  DownSampleSurface(s, s.w, s.h, Full, own, other) = s
<1>1. PICK w \in Nat \ {0}, h \in Nat \ {0} : w = s.w /\ h = s.h
  OBVIOUS
<1>2. Full.mw = 1 /\ Full.mh = 1
  BY DEF Full
<1>3. s.w = CeilDiv(w, Full.mw) /\ s.h = CeilDiv(h, Full.mh)
  BY <1>1, <1>2, CeilDivByOne
<1>4. DownSampleSurface(UpSampleSurface(s, w, h, Full), w, h, Full, own, other) = s
  BY <1>2, <1>3, ThereAndBack
<1> QED  BY <1>1, <1>4, FullIsOneToOne

(* The points of full resolution are in place.                             *)
LEMMA FullIsPlaced ==
  /\ WellPlaced(Full)
  /\ Placed(Full.u, Full.v, 1, 1) /\ Placed(Full.v, Full.u, 1, 1)
<1>1. Full.mw = 1 /\ Full.mh = 1 /\ Full.u = <<0, 0>> /\ Full.v = <<0, 0>>
  BY DEF Full
<1>2. <<0, 0>> \in (0 .. 2 * (1 - 1)) \X (0 .. 2 * (1 - 1))
  OBVIOUS
<1>3. WellPlaced(Full)
  BY <1>1, <1>2 DEF WellPlaced
<1> QED  BY <1>1, <1>3 DEF Placed

(* The only siting at full resolution whose points are in place.           *)
LEMMA OnlyFullIsPlaced ==
  ASSUME NEW st \in Sitings, Is444(st), WellPlaced(st)
  PROVE  st = Full
<1>1. st \in [mw : Nat \ {0}, mh : Nat \ {0}, u : Int \X Int, v : Int \X Int]
  BY SitingPoints
<1>2. st.mw = 1 /\ st.mh = 1
  BY DEF Is444
<1>3. 2 * (st.mw - 1) = 0 /\ 2 * (st.mh - 1) = 0
  BY <1>2
<1>4. {st.u, st.v} \subseteq (0 .. 0) \X (0 .. 0)
  BY <1>3 DEF WellPlaced
<1>5. st.u = <<0, 0>> /\ st.v = <<0, 0>>
  BY <1>4
<1> QED  BY <1>1, <1>2, <1>5 DEF Full

(* Images of one size.                                                     *)
SameSize(a, b) == a.w = b.w /\ a.h = b.h

(* Channel c of an image that is what it was in an old one, at the old     *)
(* siting or up-sampled.                                                   *)
Like(img, old, c) ==
  img.planes[c] = IF img.siting = old.siting THEN old.planes[c] ELSE UpSample(old).planes[c]

(* Up-sampling leads to full resolution, or leaves the siting.             *)
LEMMA UpSampledSiting ==
  ASSUME NEW img, WellFormed(img)
  PROVE  UpSample(img).siting = IF Is444(img.siting) THEN img.siting ELSE Full
<1> DEFINE full(d) == IF d \in {ChannelU, ChannelV} /\ ~ IsEmpty(img.planes[d])
                      THEN UpSampleSurface(img.planes[d], img.w, img.h, img.siting) ELSE img.planes[d]
           u == [w |-> img.w, h |-> img.h, siting |-> Full, planes |-> [d \in Channels |-> full(d)]]
<1>1. CASE Is444(img.siting)
  BY <1>1 DEF UpSample
<1>2. CASE ~ Is444(img.siting)
  <2>1. UpSample(img) = u
    BY <1>2 DEF UpSample, WellFormed
  <2> QED  BY <1>2, <2>1
<1> QED  BY <1>1, <1>2

(* Up-sampling leaves luma and alpha alone.                                *)
LEMMA OtherPlanesStay ==
  ASSUME NEW img, WellFormed(img), NEW c \in Channels, c \notin {ChannelU, ChannelV}
  PROVE  UpSample(img).planes[c] = img.planes[c]
<1>1. CASE Is444(img.siting)
  BY <1>1 DEF UpSample
<1>2. CASE ~ Is444(img.siting)
  BY <1>2, UpSampledPlanes
<1> QED  BY <1>1, <1>2

(* A siting in place is Full or subsamples.                                *)
LEMMA PlacedSitings ==
  ASSUME NEW st \in Sitings, WellPlaced(st)
  PROVE  st = Full \/ ~ Is444(st)
BY OnlyFullIsPlaced

(* Up-sampled, a channel is still like the old one.                        *)
LEMMA UpSampleLike ==
  ASSUME NEW img, WellFormed(img), NEW old, WellFormed(old), SameSize(img, old), WellPlaced(old.siting),
         img.siting \in {Full, old.siting}, NEW c \in Channels, Like(img, old, c)
  PROVE  /\ UpSample(img).siting = Full
         /\ UpSample(img).planes[c] = UpSample(old).planes[c]
         /\ Like(UpSample(img), old, c)
<1>1. old.siting \in Sitings /\ (old.siting = Full \/ ~ Is444(old.siting))
  BY PlacedSitings DEF WellFormed
<1>2. UpSample(img).siting = Full
  BY <1>1, UpSampledSiting, FullSiting
<1>3. UpSample(img).planes[c] = UpSample(old).planes[c]
  <2>1. CASE img.siting = old.siting /\ Is444(old.siting)
    BY <2>1 DEF Like, UpSample
  <2>2. CASE img.siting = old.siting /\ ~ Is444(old.siting)
    BY <2>2, UpSampledPlanes DEF Like, SameSize
  <2>3. CASE img.siting # old.siting
    <3>1. UpSample(img) = img
      BY <2>3, FullSiting DEF UpSample
    <3> QED  BY <2>3, <3>1 DEF Like
  <2> QED  BY <2>1, <2>2, <2>3
<1>4. Like(UpSample(img), old, c)
  <2>1. CASE old.siting = Full
    <3>1. UpSample(old) = old
      BY <2>1, FullSiting DEF UpSample
    <3> QED  BY <1>2, <1>3, <2>1, <3>1 DEF Like
  <2>2. CASE old.siting # Full
    BY <1>2, <1>3, <2>2 DEF Like
  <2> QED  BY <2>1, <2>2
<1> QED  BY <1>2, <1>3, <1>4

(* Sampled down to the siting it had, a channel is as it was.              *)
LEMMA DownSampleLike ==
  ASSUME ONE \in Nat \ {0}, NEW img, WellFormed(img), NEW old, WellFormed(old), HasSurfaces(old),
         SameSize(img, old), WellPlaced(old.siting), img.siting \in {Full, old.siting},
         NEW st \in {Full, old.siting}, NEW c \in Channels, ~ IsEmpty(old.planes[c]), Like(img, old, c)
  PROVE  Like(DownSample(img, st), old, c)
<1>1. CASE img.siting = st
  BY <1>1 DEF DownSample
<1>2. CASE img.siting # st
  <2> DEFINE up == UpSample(img)
             new == DownSample(img, st)
             p == UpSample(old).planes[c]
             below(d, own, other) == IF IsEmpty(up.planes[d]) THEN up.planes[d]
                                     ELSE DownSampleSurface(up.planes[d], up.w, up.h, st, own, other)
  <2>0. st \in Sitings /\ WellPlaced(st) /\ old.siting \in Sitings /\ st.mw \in Nat \ {0} /\ st.mh \in Nat \ {0}
    BY FullSiting, FullIsPlaced, SitingTypes DEF WellFormed
  <2>1. WellFormed(up) /\ up.siting = Full /\ up.planes[c] = p /\ up.w = old.w /\ up.h = old.h
    BY UpSampleLike, UpSampleKeeps DEF SameSize
  <2>2. new.siting = st
    BY <2>0, DownSampleKeeps
  <2>3. /\ new.planes[ChannelY] = up.planes[ChannelY]
        /\ new.planes[ChannelA] = up.planes[ChannelA]
        /\ new.planes[ChannelU] = below(ChannelU, st.u, st.v)
        /\ new.planes[ChannelV] = below(ChannelV, st.v, st.u)
    BY <1>2, <2>0, DownSampledPlanes
  <2> HIDE DEF up, new
  <2>4. CASE c \notin {ChannelU, ChannelV}
    <3>1. new.planes[c] = p /\ p = old.planes[c]
      BY <2>1, <2>3, <2>4, OtherPlanesStay, ChannelNames
    <3> QED  BY <3>1 DEF Like, new
  <2>5. CASE c \in {ChannelU, ChannelV}
    <3>1. PICK own, other : /\ Placed(own, other, st.mw, st.mh)
                            /\ new.planes[c] = IF IsEmpty(p) THEN p
                                               ELSE DownSampleSurface(p, old.w, old.h, st, own, other)
      BY <2>0, <2>1, <2>3, <2>5, PointsPlaced
    <3>2. old.w \in Nat \ {0} /\ old.h \in Nat \ {0} /\ ONE \in Int
      BY DEF WellFormed
    <3>3. CASE st = old.siting
      <4>1. ~ Is444(st)
        BY <1>2, <2>0, <3>3, PlacedSitings
      <4>2. p = UpSampleSurface(old.planes[c], old.w, old.h, st)
        BY <2>5, <3>3, <4>1, UpSampledPlanes
      <4>3. ~ IsEmpty(p)
        BY <3>2, <4>2 DEF IsEmpty, UpSampleSurface
      <4>4. IsSurface(old.planes[c]) /\ old.planes[c].w = CeilDiv(old.w, st.mw) /\ old.planes[c].h = CeilDiv(old.h, st.mh)
        BY <2>5, <3>3 DEF HasSurfaces, WellFormed, SurfacesFit, Fits, PlaneW, PlaneH
      <4>5. DownSampleSurface(UpSampleSurface(old.planes[c], old.w, old.h, st), old.w, old.h, st, own, other) = old.planes[c]
        BY <2>0, <3>1, <3>2, <4>4, ThereAndBack
      <4> QED  BY <2>2, <3>1, <3>3, <4>2, <4>3, <4>5 DEF Like, new
    <3>4. CASE st # old.siting
      <4>1. st = Full /\ ~ Is444(old.siting)
        BY <2>0, <3>4, PlacedSitings
      <4>2. p = UpSampleSurface(old.planes[c], old.w, old.h, old.siting) /\ WellFormed(UpSample(old))
            /\ HasSurfaces(UpSample(old))
        BY <2>5, <4>1, UpSampledPlanes, UpSampleKeeps, UpSampleHasSurfaces
      <4>3. p.w = old.w /\ p.h = old.h
        BY <4>2 DEF UpSampleSurface
      <4>4. ~ IsEmpty(p)
        BY <3>2, <4>3 DEF IsEmpty
      <4>5. IsSurface(p)
        BY <4>2, <4>4 DEF HasSurfaces
      <4>6. Placed(own, other, 1, 1)
        BY <3>1, <4>1 DEF Full
      <4> HIDE DEF p
      <4>7. DownSampleSurface(p, p.w, p.h, Full, own, other) = p
        BY <3>2, <4>3, <4>5, <4>6, FullThereAndBack
      <4>8. new.planes[c] = p
        BY <3>1, <4>1, <4>3, <4>4, <4>7
      <4> QED  BY <2>2, <3>4, <4>8 DEF Like, new, p
    <3> QED  BY <3>3, <3>4
  <2> QED  BY <2>4, <2>5
<1> QED  BY <1>1, <1>2

-----------------------------------------------------------------------------
(* What is there stays there.                                              *)
StillThere(img, new) == \A c \in Channels : ~ IsEmpty(img.planes[c]) => ~ IsEmpty(new.planes[c])

(* up_sample drops no channel.                                             *)
LEMMA UpSampledThere ==
  ASSUME NEW img, WellFormed(img)
  PROVE  StillThere(img, UpSample(img))
<1> SUFFICES ASSUME NEW c \in Channels, ~ IsEmpty(img.planes[c]) PROVE ~ IsEmpty(UpSample(img).planes[c])
  BY DEF StillThere
<1>1. CASE Is444(img.siting)
  BY <1>1 DEF UpSample
<1>2. CASE ~ Is444(img.siting) /\ c \notin {ChannelU, ChannelV}
  BY <1>2, UpSampledPlanes
<1>3. CASE ~ Is444(img.siting) /\ c \in {ChannelU, ChannelV}
  <2>1. UpSample(img).planes[c] = UpSampleSurface(img.planes[c], img.w, img.h, img.siting)
    BY <1>3, UpSampledPlanes
  <2> QED  BY <2>1 DEF UpSampleSurface, IsEmpty, WellFormed
<1> QED  BY <1>1, <1>2, <1>3

(* scale drops none.                                                       *)
LEMMA FullScaledThere ==
  ASSUME NEW img, WellFormed(img), Is444(img.siting), NEW w \in Nat \ {0}, NEW h \in Nat \ {0}
  PROVE  StillThere(img, ScaleImage(img, w, h))
<1> SUFFICES ASSUME NEW c \in Channels, ~ IsEmpty(img.planes[c]) PROVE ~ IsEmpty(ScaleImage(img, w, h).planes[c])
  BY DEF StillThere
<1>1. CASE img.w = w /\ img.h = h
  BY <1>1 DEF ScaleImage
<1>2. CASE ~ (img.w = w /\ img.h = h)
  <2>1. ScaleImage(img, w, h).planes[c] = ScaleSurface(img.planes[c], w, h)
    BY <1>2, ScaledPlanes
  <2> QED  BY <2>1 DEF ScaleSurface, IsEmpty
<1> QED  BY <1>1, <1>2

(* down_sample drops none.                                                 *)
LEMMA DownSampledThere ==
  ASSUME NEW img, WellFormed(img), NEW st \in Sitings
  PROVE  StillThere(img, DownSample(img, st))
<1>1. CASE img.siting = st
  BY <1>1 DEF DownSample, StillThere
<1>2. CASE img.siting # st
  <2> DEFINE up == UpSample(img)
             new == DownSample(img, st)
             below(d, own, other) == IF IsEmpty(up.planes[d]) THEN up.planes[d]
                                     ELSE DownSampleSurface(up.planes[d], up.w, up.h, st, own, other)
  <2>1. StillThere(img, up) /\ up.w \in Nat \ {0} /\ up.h \in Nat \ {0}
    BY UpSampledThere, UpSampleKeeps DEF WellFormed
  <2>2. /\ new.planes[ChannelY] = up.planes[ChannelY]
        /\ new.planes[ChannelA] = up.planes[ChannelA]
        /\ new.planes[ChannelU] = below(ChannelU, st.u, st.v)
        /\ new.planes[ChannelV] = below(ChannelV, st.v, st.u)
    BY <1>2, DownSampledPlanes
  <2>3. CeilDiv(up.w, st.mw) \in Nat \ {0} /\ CeilDiv(up.h, st.mh) \in Nat \ {0}
    BY <2>1, SitingTypes, CeilDivPositive
  <2> HIDE DEF up, new
  <2>4. ASSUME NEW c \in Channels, NEW own, NEW other, ~ IsEmpty(up.planes[c])
        PROVE  ~ IsEmpty(below(c, own, other))
    <3>1. below(c, own, other).w = CeilDiv(up.w, st.mw) /\ below(c, own, other).h = CeilDiv(up.h, st.mh)
      BY <2>4 DEF DownSampleSurface
    <3> HIDE DEF below
    <3> QED  BY <2>3, <3>1 DEF IsEmpty
  <2> HIDE DEF below
  <2>5. \A c \in Channels : ~ IsEmpty(up.planes[c]) => ~ IsEmpty(new.planes[c])
    BY <2>2, <2>4, ChannelNames
  <2> QED  BY <2>1, <2>5 DEF StillThere, new
<1> QED  BY <1>1, <1>2

-----------------------------------------------------------------------------
(* What an image owes to those returned before it.                         *)

(* From image i to image j of h nothing changed but between a siting and   *)
(* full resolution.                                                        *)
Unbroken(h, i, j) ==
  \A k \in i .. j : /\ SameSize(h[k], h[i])
                    /\ h[k].siting \in {Full, h[i].siting}
                    /\ WellPlaced(h[k].siting)

(* Channel c was there all the time.                                       *)
Present(h, i, j, c) == \A k \in i .. j : ~ IsEmpty(h[k].planes[c])

(* What img has to be, when it comes after the images of h.                *)
Keeps(h, img) ==
  \A i \in 1 .. Len(h) :
    /\ Unbroken(h, i, Len(h))
    /\ SameSize(img, h[i]) /\ img.siting \in {Full, h[i].siting} /\ WellPlaced(img.siting)
    => \A c \in Channels : Present(h, i, Len(h), c) /\ ~ IsEmpty(img.planes[c]) => Like(img, h[i], c)

(* What the images of h are to each other.                                 *)
Kept(h) ==
  \A i, j \in 1 .. Len(h) :
    i < j /\ h[i].siting = h[j].siting /\ Unbroken(h, i, j)
    => \A c \in Channels : Present(h, i, j, c) => h[i].planes[c] = h[j].planes[c]

(* A list of well formed images.                                           *)
Sound(h) == \A i \in 1 .. Len(h) : WellFormed(h[i]) /\ HasSurfaces(h[i])
IsList(h) == (\E S : h \in Seq(S)) /\ h # <<>>

(* An image that keeps what it has to can be appended.                     *)
LEMMA KeepsAppended ==
  ASSUME NEW h, IsList(h), NEW img, Keeps(h, img), Kept(h)
  PROVE  Keeps(Append(h, img), img) /\ Kept(Append(h, img))
<1>1. PICK g, n : g = Append(h, img) /\ n = Len(h)
  OBVIOUS
<1>2. n \in Nat \ {0} /\ Len(g) = n + 1 /\ (\A i \in 1 .. n : g[i] = h[i]) /\ g[n + 1] = img
  BY <1>1, Appended DEF IsList
<1>3. ASSUME NEW i \in 1 .. n, NEW j \in i .. n
      PROVE  /\ g[i] = h[i] /\ g[j] = h[j]
             /\ Unbroken(g, i, j) <=> Unbroken(h, i, j)
             /\ \A c : Present(g, i, j, c) <=> Present(h, i, j, c)
  <2>1. \A k \in i .. j : g[k] = h[k]
    BY <1>2
  <2>2. i \in i .. j /\ j \in i .. j
    BY <1>2
  <2> QED  BY <2>1, <2>2 DEF Unbroken, Present
<1>4. ASSUME NEW i \in 1 .. n, Unbroken(g, i, n + 1)
      PROVE  /\ Unbroken(h, i, n)
             /\ SameSize(img, h[i]) /\ img.siting \in {Full, h[i].siting} /\ WellPlaced(img.siting)
             /\ \A c : Present(g, i, n + 1, c) => Present(h, i, n, c) /\ ~ IsEmpty(img.planes[c])
  <2>1. n \in i .. n /\ (\A k \in i .. n : k \in i .. n + 1) /\ n + 1 \in i .. n + 1
    BY <1>2
  <2>2. Unbroken(g, i, n)
    BY <1>4, <2>1 DEF Unbroken
  <2>3. SameSize(g[n + 1], g[i]) /\ g[n + 1].siting \in {Full, g[i].siting} /\ WellPlaced(g[n + 1].siting)
    BY <1>4, <2>1 DEF Unbroken
  <2>4. \A c : Present(g, i, n + 1, c) => Present(g, i, n, c) /\ ~ IsEmpty(g[n + 1].planes[c])
    BY <2>1 DEF Present
  <2> QED  BY <1>2, <1>3, <2>1, <2>2, <2>3, <2>4
<1>5. ASSUME NEW i \in 1 .. n, Unbroken(g, i, n + 1), NEW c \in Channels, Present(g, i, n + 1, c)
      PROVE  Like(img, h[i], c)
  <2>1. Unbroken(h, i, Len(h)) /\ Present(h, i, Len(h), c) /\ i \in 1 .. Len(h)
    BY <1>1, <1>4, <1>5
  <2>2. SameSize(img, h[i]) /\ img.siting \in {Full, h[i].siting} /\ WellPlaced(img.siting) /\ ~ IsEmpty(img.planes[c])
    BY <1>4, <1>5
  <2> QED  BY <2>1, <2>2 DEF Keeps
<1>6. Keeps(g, img)
  <2> SUFFICES ASSUME NEW i \in 1 .. n + 1, Unbroken(g, i, n + 1), NEW c \in Channels, Present(g, i, n + 1, c)
               PROVE  Like(img, g[i], c)
    BY <1>2 DEF Keeps
  <2>1. CASE i \in 1 .. n
    BY <1>2, <1>5, <2>1
  <2>2. CASE i = n + 1
    BY <1>2, <2>2 DEF Like
  <2> QED  BY <1>2, <2>1, <2>2
<1>7. Kept(g)
  <2> SUFFICES ASSUME NEW i \in 1 .. n + 1, NEW j \in 1 .. n + 1, i < j, g[i].siting = g[j].siting, Unbroken(g, i, j),
                      NEW c \in Channels, Present(g, i, j, c)
               PROVE  g[i].planes[c] = g[j].planes[c]
    BY <1>2 DEF Kept
  <2>1. CASE j \in 1 .. n
    <3>1. i \in 1 .. n /\ j \in i .. n /\ n = Len(h)
      BY <1>1, <1>2, <2>1
    <3>2. h[i].siting = h[j].siting /\ Unbroken(h, i, j) /\ Present(h, i, j, c) /\ g[i] = h[i] /\ g[j] = h[j]
      BY <1>3, <3>1
    <3> QED  BY <2>1, <3>1, <3>2 DEF Kept
  <2>2. CASE j = n + 1
    <3>1. i \in 1 .. n /\ g[i] = h[i] /\ g[j] = img
      BY <1>2, <2>2
    <3>2. Like(img, h[i], c)
      BY <1>5, <2>2, <3>1
    <3> QED  BY <3>1, <3>2 DEF Like
  <2> QED  BY <1>2, <2>1, <2>2
<1> QED  BY <1>1, <1>6, <1>7

-----------------------------------------------------------------------------
(* What an image has to do with the one returned last, last: it is at its  *)
(* siting or at full resolution, and shows the same channels.              *)
Near(last, img) == img.siting \in {last.siting, Full} /\ StillThere(last, img)

(* If nothing changed from image i to the last one, img is like image i.   *)
LEMMA KeptUntilLast ==
  ASSUME NEW h, IsList(h), NEW img, Keeps(h, img), Near(h[Len(h)], img),
         NEW i \in 1 .. Len(h), Unbroken(h, i, Len(h)), SameSize(img, h[i])
  PROVE  /\ img.siting \in {Full, h[i].siting} /\ WellPlaced(img.siting) /\ WellPlaced(h[i].siting)
         /\ \A c \in Channels : Present(h, i, Len(h), c) =>
              ~ IsEmpty(img.planes[c]) /\ ~ IsEmpty(h[i].planes[c]) /\ Like(img, h[i], c)
<1>1. PICK n \in Nat \ {0} : n = Len(h)
  BY Appended DEF IsList
<1>2. n \in i .. n /\ i \in i .. n
  BY <1>1
<1>3. h[n].siting \in {Full, h[i].siting} /\ WellPlaced(h[n].siting) /\ WellPlaced(h[i].siting)
  BY <1>1, <1>2 DEF Unbroken
<1>4. img.siting \in {Full, h[i].siting} /\ WellPlaced(img.siting)
  BY <1>1, <1>3, FullIsPlaced DEF Near
<1>5. ASSUME NEW c \in Channels, Present(h, i, Len(h), c)
      PROVE  ~ IsEmpty(img.planes[c]) /\ ~ IsEmpty(h[i].planes[c])
  BY <1>1, <1>2, <1>5 DEF Near, StillThere, Present
<1> QED  BY <1>3, <1>4, <1>5 DEF Keeps

(* Up-sampling keeps what it has to.                                       *)
LEMMA UpSampleKept ==
  ASSUME NEW h, IsList(h), Sound(h), NEW img, WellFormed(img), Keeps(h, img), Near(h[Len(h)], img)
  PROVE  Keeps(h, UpSample(img)) /\ Near(h[Len(h)], UpSample(img))
<1> DEFINE new == UpSample(img)
<1>1. Near(h[Len(h)], new)
  <2>1. new.siting \in {img.siting, Full}
    BY UpSampledSiting
  <2>2. StillThere(img, new)
    BY UpSampledThere
  <2> QED  BY <2>1, <2>2 DEF Near, StillThere
<1>2. SameSize(new, img)
  BY UpSampleKeeps DEF SameSize
<1>3. ASSUME NEW i \in 1 .. Len(h), Unbroken(h, i, Len(h)), SameSize(new, h[i]),
             NEW c \in Channels, Present(h, i, Len(h), c)
      PROVE  Like(new, h[i], c)
  <2>1. SameSize(img, h[i]) /\ WellFormed(h[i])
    BY <1>2, <1>3 DEF SameSize, Sound
  <2>2. img.siting \in {Full, h[i].siting} /\ WellPlaced(h[i].siting) /\ Like(img, h[i], c)
    BY <1>3, <2>1, KeptUntilLast
  <2> QED  BY <2>1, <2>2, UpSampleLike
<1> HIDE DEF new
<1> QED  BY <1>1, <1>3 DEF Keeps, new

(* So does down-sampling.                                                  *)
LEMMA DownSampleKept ==
  ASSUME ONE \in Nat \ {0}, NEW h, IsList(h), Sound(h), NEW img, WellFormed(img), Keeps(h, img), Near(h[Len(h)], img),
         NEW st \in Sitings
  PROVE  Keeps(h, DownSample(img, st)) /\ StillThere(h[Len(h)], DownSample(img, st))
<1> DEFINE new == DownSample(img, st)
<1>1. StillThere(h[Len(h)], new)
  <2>1. StillThere(img, new)
    BY DownSampledThere
  <2> QED  BY <2>1 DEF Near, StillThere
<1>2. SameSize(new, img) /\ new.siting = st
  BY DownSampleKeeps DEF SameSize
<1>3. ASSUME NEW i \in 1 .. Len(h), Unbroken(h, i, Len(h)), SameSize(new, h[i]), st \in {Full, h[i].siting},
             NEW c \in Channels, Present(h, i, Len(h), c)
      PROVE  Like(new, h[i], c)
  <2>1. SameSize(img, h[i]) /\ WellFormed(h[i]) /\ HasSurfaces(h[i])
    BY <1>2, <1>3 DEF SameSize, Sound
  <2>2. img.siting \in {Full, h[i].siting} /\ WellPlaced(h[i].siting) /\ Like(img, h[i], c) /\ ~ IsEmpty(h[i].planes[c])
    BY <1>3, <2>1, KeptUntilLast
  <2> QED  BY <1>3, <2>1, <2>2, DownSampleLike
<1> HIDE DEF new
<1> QED  BY <1>1, <1>2, <1>3 DEF Keeps, new

(* An image of another size owes nothing to the ones before.               *)
LEMMA OtherSizeKept ==
  ASSUME NEW h, IsList(h), NEW img, ~ SameSize(img, h[Len(h)])
  PROVE  Keeps(h, img)
<1>1. PICK n \in Nat \ {0} : n = Len(h)
  BY Appended DEF IsList
<1>2. ASSUME NEW i \in 1 .. n, Unbroken(h, i, n)
      PROVE  SameSize(h[n], h[i])
  <2>1. n \in i .. n
    BY <1>1
  <2> QED  BY <1>2, <2>1 DEF Unbroken
<1>3. ASSUME NEW i \in 1 .. n, Unbroken(h, i, n), SameSize(img, h[i])
      PROVE  FALSE
  BY <1>1, <1>2, <1>3 DEF SameSize
<1> QED  BY <1>1, <1>3 DEF Keeps

(* Scaling at full resolution leaves siting and channels.                  *)
LEMMA FullScaleKept ==
  ASSUME NEW h, IsList(h), NEW img, WellFormed(img), Is444(img.siting), Near(h[Len(h)], img),
         NEW w \in Nat \ {0}, NEW ht \in Nat \ {0}
  PROVE  Near(h[Len(h)], ScaleImage(img, w, ht))
<1>1. ScaleImage(img, w, ht).siting = img.siting
  BY ScaleKeeps
<1>2. StillThere(img, ScaleImage(img, w, ht))
  BY FullScaledThere
<1> QED  BY <1>1, <1>2 DEF Near, StillThere

-----------------------------------------------------------------------------
(* FullResolutionKeepsAll.                                                 *)

(* The image returned last.                                                *)
Newest == history[Len(history)]

(* What the image owes to the ones returned before, at every stage: the    *)
(* stages of encode_frame know which siting and size they started from.    *)
KeptInv ==
  /\ IsList(history) /\ Sound(history) /\ HasSurfaces(image)
  /\ stage = "idle" => image = Newest
  /\ stage = "size" => SameSize(image, Newest) /\ ~ SameSize(target, Newest)
  /\ stage # "pack" => image.siting \in {Newest.siting, Full}
  /\ stage = "pack" => image.siting \in {Newest.siting, Full, target.siting}
  /\ StillThere(Newest, image)
  /\ Keeps(history, image) /\ Kept(history)

(* A call that returned: the image is appended to the history.             *)
LEMMA KeptReturned ==
  ASSUME KeptInv, history' = Append(history, image'), stage' = "idle",
         NEW img, img = image', WellFormed(img), HasSurfaces(img), Keeps(history, img)
  PROVE  KeptInv'
<1>1. PICK h, g : h = history /\ g = Append(h, img)
  OBVIOUS
<1>2. IsList(h) /\ Sound(h) /\ Kept(h) /\ Keeps(h, img) /\ history' = g
  BY <1>1 DEF KeptInv
<1>3. /\ IsList(g) /\ Len(h) \in Nat \ {0} /\ Len(g) = Len(h) + 1
      /\ (\A i \in 1 .. Len(h) : g[i] = h[i]) /\ g[Len(h) + 1] = img
  <2>1. (\E S : h \in Seq(S)) /\ h # <<>>
    BY <1>2 DEF IsList
  <2>2. PICK new : new = img
    OBVIOUS
  <2>3. g = Append(h, new)
    BY <1>1, <2>2
  <2>4. /\ \E S : Append(h, new) \in Seq(S)
        /\ Append(h, new) # <<>>
        /\ Len(h) \in Nat \ {0} /\ Len(Append(h, new)) = Len(h) + 1
        /\ \A i \in 1 .. Len(h) : Append(h, new)[i] = h[i]
        /\ Append(h, new)[Len(h) + 1] = new
    BY <2>1, Appended
  <2> QED  BY <2>2, <2>3, <2>4 DEF IsList
<1>4. Sound(g)
  BY <1>2, <1>3 DEF Sound
<1>5. Keeps(g, img) /\ Kept(g)
  BY <1>1, <1>2, KeepsAppended
<1>6. g[Len(g)] = img
  BY <1>3
<1>7. StillThere(img, img)
  BY DEF StillThere
<1>8. Newest' = img
  BY <1>2, <1>6 DEF Newest
<1> QED  BY <1>2, <1>3, <1>4, <1>5, <1>7, <1>8 DEF KeptInv

(* Nothing was returned yet, and the image is not what is packed.          *)
LEMMA KeptUnderWay ==
  ASSUME KeptInv, history' = history, stage' \in {"size", "siting"},
         NEW img, img = image', HasSurfaces(img), Near(Newest, img), Keeps(history, img),
         stage' = "size" => SameSize(img, Newest) /\ ~ SameSize(target', Newest)
  PROVE  KeptInv'
<1>1. PICK last : last = Newest
  OBVIOUS
<1>2. Newest' = last
  BY <1>1 DEF Newest
<1>3. IsList(history') /\ Sound(history') /\ Kept(history') /\ Keeps(history', img)
  BY DEF KeptInv
<1> QED  BY <1>1, <1>2, <1>3 DEF KeptInv, Near

(* A surface that is there and fits comes back from a frame as it was.     *)
LEMMA UnpackedSame ==
  ASSUME WellFormed(image), HasSurfaces(image), image.w = target.w, image.h = target.h, image.siting = target.siting,
         NEW c \in Channels, ~ IsEmpty(Unpacked(c)), ~ IsEmpty(image.planes[c])
  PROVE  Unpacked(c) = image.planes[c]
<1> DEFINE s == image.planes[c]
           w == PlaneW(target.w, target.siting, c)
           ht == PlaneH(target.h, target.siting, c)
           missing == IF c = ChannelA THEN Only(Opaque) ELSE Only(Poison)
           value(p) == IF IsEmpty(s) THEN missing ELSE IF p \in Pixels(s.w, s.h) THEN s.at[p] ELSE Only(Poison)
<1>1. Unpacked(c) = [w |-> w, h |-> ht, at |-> [p \in Pixels(w, ht) |-> value(p)]]
  BY DEF Unpacked, IsEmpty, Empty
<1>2. s.w = w /\ s.h = ht
  BY DEF WellFormed, SurfacesFit, Fits
<1>3. s = [w |-> s.w, h |-> s.h, at |-> [p \in Pixels(s.w, s.h) |-> s.at[p]]]
  BY DEF HasSurfaces, IsSurface, Shaped
<1>4. \A p \in Pixels(w, ht) : value(p) = s.at[p]
  BY <1>2
<1> HIDE DEF s, w, ht, value
<1>5. Unpacked(c) = s
  BY <1>1, <1>2, <1>3, <1>4
<1> QED  BY <1>5 DEF s

(* encode_frame packs what it has to.                                      *)
LEMMA PackedKept ==
  ASSUME Inv, KeptInv, PackAndUnpack
  PROVE  KeptInv'
<1>1. stage = "pack" /\ target \in Targets /\ image.w = target.w /\ image.h = target.h /\ Converted /\ WellFormed(image)
      /\ history' = Append(history, image') /\ stage' = "idle"
  BY DEF Inv, StageInv, PackAndUnpack
<1>2. image' = [w |-> target.w, h |-> target.h, siting |-> target.siting, planes |-> [c \in Channels |-> Unpacked(c)]]
  BY DEF PackAndUnpack
<1>3. PICK new, h, st : new = image' /\ h = history /\ st = target.siting
  OBVIOUS
<1>4. /\ new.w = target.w /\ new.h = target.h /\ new.siting = st
      /\ \A c \in Channels : new.planes[c] = Unpacked(c)
  BY <1>2, <1>3
<1>5. WellFormed(new)
  <2>1. WellFormed(image')
    BY InvStep DEF Next, Inv
  <2> QED  BY <1>3, <2>1
<1>6. ONE \in Nat \ {0} /\ st \in Sitings
  BY <1>1, <1>3, PrecisionAssumption, TargetTypes DEF Shapes
<1>7. HasSurfaces(new)
  <2>1. HasSurfaces(image)
    BY DEF KeptInv
  <2> QED  BY <1>4, <1>6, <2>1, UnpackedIsSurface DEF HasSurfaces
<1>8. PICK last : last = h[Len(h)]
  OBVIOUS
<1>9. /\ IsList(h) /\ Keeps(h, image) /\ StillThere(last, image)
      /\ image.siting \in {last.siting, Full, st}
  BY <1>1, <1>3, <1>8 DEF KeptInv, Newest
<1>10. ASSUME NEW i \in 1 .. Len(h), Unbroken(h, i, Len(h)), SameSize(new, h[i]), st \in {Full, h[i].siting}, WellPlaced(st),
              NEW c \in Channels, Present(h, i, Len(h), c), ~ IsEmpty(new.planes[c])
       PROVE  Like(new, h[i], c)
  <2>1. PICK n \in Nat \ {0} : n = Len(h)
    BY <1>9, Appended DEF IsList
  <2>2. n \in i .. n /\ i \in i .. n
    BY <2>1
  <2>3. /\ last.siting \in {Full, h[i].siting} /\ WellPlaced(last.siting) /\ ~ IsEmpty(last.planes[c])
        /\ SameSize(image, h[i])
    BY <1>1, <1>4, <1>8, <1>10, <2>1, <2>2 DEF Unbroken, Present, SameSize
  <2>4. image.siting \in {Full, h[i].siting} /\ WellPlaced(image.siting) /\ ~ IsEmpty(image.planes[c])
    BY <1>9, <1>10, <2>3, FullIsPlaced DEF StillThere
  <2>5. Like(image, h[i], c)
    BY <1>9, <1>10, <2>3, <2>4 DEF Keeps
  <2>6. image.siting = st
    <3>1. image.siting \in Sitings
      BY <1>1 DEF WellFormed
    <3> QED  BY <1>1, <1>3, <1>6, <1>10, <2>4, <3>1, OnlyFullIsPlaced DEF Converted
  <2>7. new.planes[c] = image.planes[c]
    <3>1. ~ IsEmpty(Unpacked(c)) /\ HasSurfaces(image)
      BY <1>4, <1>10 DEF KeptInv
    <3>2. Unpacked(c) = image.planes[c]
      BY <1>1, <1>3, <2>4, <2>6, <3>1, UnpackedSame
    <3> QED  BY <1>4, <3>2
  <2> QED  BY <1>4, <2>5, <2>6, <2>7 DEF Like
<1>11. Keeps(h, new)
  BY <1>4, <1>10 DEF Keeps
<1> QED  BY <1>1, <1>3, <1>5, <1>7, <1>11, KeptReturned

(* A call of the resampler returns what it has to.                         *)
LEMMA ResampledKept ==
  ASSUME Inv, KeptInv, Resample
  PROVE  KeptInv'
<1>1. stage = "idle" /\ stage' = "idle" /\ history' = Append(history, image') /\ ONE \in Nat \ {0}
  BY PrecisionAssumption DEF Resample
<1>2. PICK img, new, h : img = image /\ new = image' /\ h = history
  OBVIOUS
<1>3. /\ WellFormed(img) /\ HasSurfaces(img) /\ IsList(h) /\ Sound(h) /\ Keeps(h, img)
      /\ img = h[Len(h)] /\ Near(h[Len(h)], img)
  <2>1. WellFormed(img) /\ HasSurfaces(img) /\ IsList(h) /\ Sound(h) /\ Keeps(h, img) /\ img = h[Len(h)]
    BY <1>1, <1>2 DEF Inv, KeptInv, Newest
  <2> QED  BY <2>1 DEF Near, StillThere
<1>4. WellFormed(new) /\ HasSurfaces(new) /\ Keeps(h, new)
  <2>1. CASE new = UpSample(img)
    BY <1>1, <1>3, <2>1, UpSampleKeeps, UpSampleHasSurfaces, UpSampleKept
  <2>2. CASE \E f \in Targets : new = DownSample(img, f.siting)
    <3>1. PICK f \in Targets : new = DownSample(img, f.siting)
      BY <2>2
    <3>2. PICK st \in Sitings : st = f.siting
      BY TargetTypes DEF Shapes
    <3> QED  BY <1>1, <1>3, <3>1, <3>2, DownSampleKeeps, DownSampleHasSurfaces, DownSampleKept
  <2>3. CASE \E f \in Targets : new = ScaleImage(img, f.w, f.h)
    <3>1. PICK f \in Targets : new = ScaleImage(img, f.w, f.h)
      BY <2>3
    <3>2. PICK w \in Nat \ {0}, ht \in Nat \ {0} : w = f.w /\ ht = f.h
      BY TargetTypes DEF Shapes
    <3>3. WellFormed(new) /\ HasSurfaces(new) /\ new.w = w /\ new.h = ht
      <4>1. WellFormed(ScaleImage(img, w, ht)) /\ ScaleImage(img, w, ht).w = w /\ ScaleImage(img, w, ht).h = ht
        BY <1>3, ScaleKeeps
      <4>2. HasSurfaces(ScaleImage(img, w, ht))
        BY <1>1, <1>3, ScaleHasSurfaces
      <4>3. new = ScaleImage(img, w, ht)
        BY <3>1, <3>2
      <4> QED  BY <4>1, <4>2, <4>3
    <3>4. CASE img.w = w /\ img.h = ht
      <4>1. new = img
        BY <3>1, <3>2, <3>4 DEF ScaleImage
      <4> QED  BY <1>3, <3>3, <4>1
    <3>5. CASE ~ (img.w = w /\ img.h = ht)
      <4>1. ~ SameSize(new, h[Len(h)])
        BY <1>3, <3>3, <3>5 DEF SameSize
      <4> QED  BY <1>3, <3>3, <4>1, OtherSizeKept
    <3> QED  BY <3>4, <3>5
  <2> QED  BY <1>2, <2>1, <2>2, <2>3 DEF Resample
<1> QED  BY <1>1, <1>2, <1>4, KeptReturned

(* Each step keeps KeptInv.                                                *)
LEMMA KeptStep == Inv /\ KeptInv /\ [Next]_vars => KeptInv'
<1> SUFFICES ASSUME Inv, KeptInv, [Next]_vars PROVE KeptInv'
  OBVIOUS
<1>1. PICK img, new, h, last : img = image /\ new = image' /\ h = history /\ last = Newest
  OBVIOUS
<1>2. /\ WellFormed(img) /\ HasSurfaces(img) /\ IsList(h) /\ Sound(h) /\ Keeps(h, img) /\ last = h[Len(h)]
      /\ StillThere(last, img) /\ ONE \in Nat \ {0}
      /\ stage # "pack" => Near(last, img)
  BY <1>1, PrecisionAssumption DEF Inv, KeptInv, Newest, Near
<1>3. CASE StartEncode
  <2>1. /\ stage = "idle" /\ stage' \in {"size", "siting", "pack"} /\ new = img /\ history' = history /\ target' \in Targets
        /\ stage' = "size" => ~ SameSize(target', img)
    BY <1>1, <1>3 DEF StartEncode, FirstStage, SameSize
  <2>2. img = last
    BY <1>1, <2>1 DEF KeptInv
  <2>3. CASE stage' = "pack"
    <3>1. Newest' = last /\ image' = last /\ IsList(h) /\ Sound(h) /\ Kept(h)
      BY <1>1, <2>1, <2>2 DEF Newest, KeptInv
    <3> QED  BY <1>1, <1>2, <2>1, <2>2, <2>3, <3>1 DEF KeptInv
  <2>4. CASE stage' # "pack"
    <3>1. SameSize(img, last)
      BY <2>2 DEF SameSize
    <3> QED  BY <1>1, <1>2, <2>1, <2>2, <2>4, <3>1, KeptUnderWay
  <2> QED  BY <2>3, <2>4
<1>4. CASE UpSampleToScale \/ UpSampleToResite
  <2>1. stage \in {"size", "siting"} /\ stage' = stage /\ new = UpSample(img) /\ history' = history /\ target' = target
    BY <1>1, <1>4 DEF UpSampleToScale, UpSampleToResite
  <2>2. HasSurfaces(new) /\ Keeps(h, new) /\ Near(last, new)
    BY <1>2, <2>1, UpSampleHasSurfaces, UpSampleKept
  <2>3. stage = "size" => SameSize(new, last) /\ ~ SameSize(target', last)
    <3>1. stage = "size" => SameSize(img, last) /\ ~ SameSize(target, last)
      BY <1>1 DEF KeptInv
    <3> QED  BY <1>2, <2>1, <3>1, UpSampleKeeps DEF SameSize
  <2> QED  BY <1>1, <2>1, <2>2, <2>3, KeptUnderWay
<1>5. CASE Scale
  <2>1. /\ stage = "size" /\ stage' = "siting" /\ history' = history /\ Is444(img.siting) /\ target \in Targets
        /\ ~ SameSize(target, last)
    BY <1>1, <1>5 DEF Scale, Inv, StageInv, KeptInv
  <2>2. PICK w \in Nat \ {0}, ht \in Nat \ {0} : w = target.w /\ ht = target.h
    BY <2>1, TargetTypes DEF Shapes
  <2>3. new = ScaleImage(img, w, ht)
    BY <1>1, <1>5, <2>2 DEF Scale
  <2>4. HasSurfaces(new) /\ Near(last, new)
    BY <1>2, <2>1, <2>3, FullScaleHasSurfaces, FullScaleKept
  <2>5. ~ SameSize(new, last)
    <3>1. ScaleImage(img, w, ht).w = w /\ ScaleImage(img, w, ht).h = ht
      BY <1>2, ScaleKeeps
    <3> QED  BY <2>1, <2>2, <2>3, <3>1 DEF SameSize
  <2>6. Keeps(h, new)
    BY <1>2, <2>5, OtherSizeKept
  <2> QED  BY <1>1, <2>1, <2>4, <2>6, KeptUnderWay
<1>6. CASE DownSampleToTarget
  <2>1. stage = "siting" /\ stage' = "pack" /\ history' = history /\ target \in Targets /\ target' = target
    BY <1>6 DEF DownSampleToTarget, Inv, StageInv
  <2>2. PICK st \in Sitings : st = target.siting
    BY <2>1, TargetTypes DEF Shapes
  <2>3. new = DownSample(img, st)
    BY <1>1, <1>6, <2>2 DEF DownSampleToTarget
  <2>4. HasSurfaces(new) /\ Keeps(h, new) /\ StillThere(last, new) /\ new.siting = st
    BY <1>2, <2>1, <2>3, DownSampleHasSurfaces, DownSampleKept, DownSampleKeeps
  <2>5. Newest' = last /\ IsList(h) /\ Sound(h) /\ Kept(h)
    BY <1>1, <2>1 DEF Newest, KeptInv
  <2> QED  BY <1>1, <2>1, <2>2, <2>4, <2>5 DEF KeptInv
<1>7. CASE EndConversion
  <2>1. stage = "siting" /\ stage' = "pack" /\ history' = history /\ image' = image /\ target' = target
    BY <1>7 DEF EndConversion
  <2>2. Newest' = last
    BY <1>1, <2>1 DEF Newest
  <2> QED  BY <1>1, <2>1, <2>2 DEF KeptInv
<1>8. CASE PackAndUnpack
  BY <1>8, PackedKept
<1>9. CASE Resample
  BY <1>9, ResampledKept
<1>10. CASE Finished \/ UNCHANGED vars
  <2>1. image' = image /\ stage' = stage /\ history' = history /\ target' = target
    BY <1>10 DEF Finished, vars
  <2> QED  BY <2>1 DEF KeptInv, Newest
<1> QED
  BY <1>3, <1>4, <1>5, <1>6, <1>7, <1>8, <1>9, <1>10 DEF Next

(* It holds for an image that was just read.                               *)
LEMMA KeptStart == Init => KeptInv
<1> SUFFICES ASSUME Init PROVE KeptInv
  OBVIOUS
<1>1. PICK f \in Originals : image = ImageOf(f)
  BY DEF Init
<1>2. PICK img, h : img = image /\ h = history
  OBVIOUS
<1>3. h = <<img>> /\ stage = "idle"
  BY <1>2 DEF Init
<1>4. <<img>> \in Seq({img}) /\ h # <<>> /\ Len(h) = 1 /\ h[1] = img
  BY <1>3
<1>5. WellFormed(img) /\ HasSurfaces(img)
  BY <1>1, <1>2, PrecisionAssumption, OriginalWellFormed, OriginalHasSurfaces
<1>6. IsList(h) /\ Sound(h)
  <2>1. IsList(h)
    BY <1>3, <1>4 DEF IsList
  <2>2. 1 .. Len(h) = {1}
    BY <1>4
  <2> QED  BY <1>4, <1>5, <2>1, <2>2 DEF Sound
<1>7. Keeps(h, img)
  <2>1. 1 .. Len(h) = {1}
    BY <1>4
  <2> QED  BY <1>4, <2>1 DEF Keeps, Like
<1>8. Kept(h)
  <2>1. 1 .. Len(h) = {1}
    BY <1>4
  <2> QED  BY <2>1 DEF Kept
<1>9. StillThere(img, img)
  BY DEF StillThere
<1> QED  BY <1>2, <1>3, <1>4, <1>5, <1>6, <1>7, <1>8, <1>9 DEF KeptInv, Newest

(* FullResolutionKeepsAll: an image that was converted to full resolution  *)
(* and back to its siting, in any number of calls, is what it was.         *)
THEOREM NothingIsLost == Spec => []FullResolutionKeepsAll
<1>1. KeptInv => FullResolutionKeepsAll
  <2> SUFFICES ASSUME KeptInv PROVE FullResolutionKeepsAll
    OBVIOUS
  <2>1. PICK h : h = history
    OBVIOUS
  <2>2. IsList(h) /\ Kept(h)
    BY <2>1 DEF KeptInv
  <2>3. DOMAIN h = 1 .. Len(h)
    BY <2>2 DEF IsList
  <2> SUFFICES ASSUME NEW i \in DOMAIN h, NEW j \in DOMAIN h, i < j, h[i].siting = h[j].siting,
                      \A k \in i .. j : /\ h[k].w = h[i].w /\ h[k].h = h[i].h
                                        /\ h[k].siting \in {Full, h[i].siting}
                                        /\ WellPlaced(h[k].siting),
                      NEW c \in Channels, \A k \in i .. j : ~ IsEmpty(h[k].planes[c])
               PROVE  h[i].planes[c] = h[j].planes[c]
    BY <2>1 DEF FullResolutionKeepsAll
  <2>4. Unbroken(h, i, j) /\ Present(h, i, j, c)
    BY DEF Unbroken, Present, SameSize
  <2> QED  BY <2>2, <2>3, <2>4 DEF Kept
<1>2. Inv /\ KeptInv /\ [Next]_vars => KeptInv'
  BY KeptStep
<1> QED
  BY <1>1, <1>2, KeptStart, Invariance, PTL DEF Spec

-----------------------------------------------------------------------------
(* Where the sources of a value are.                                       *)

(* The property's moment: where in a line the sources of a value are.      *)
Moment(v, i) == MapThenSumSet(LAMBDA t : 2 * t[i] * v[t], DOMAIN v)

(* The sum of a LAMBDA with a body of its own is the sum of its values.    *)
LEMMA MomentIsMeasured ==
  ASSUME NEW v, IsValue(v), NEW i, NEW g, \A t \in DOMAIN v : g[t] = 2 * t[i]
  PROVE  Moment(v, i) = Measured(g, v)
<1> DEFINE D == DOMAIN v
           f == [t \in D |-> g[t] * v[t]]
           Same(k) == k = [s \in SUBSET D |-> IF s = {} THEN 0 ELSE (2 * Pick(s)[i] * v[Pick(s)]) + k[s \ {Pick(s)}]]
           it == CHOOSE k : Same(k)
<1>1. Moment(v, i) = it[D]
  BY DEF Moment, MapThenSumSet, MapThenFoldSet, Pick
<1>2. ASSUME NEW k
      PROVE  Same(k) <=> Tally(f, D, k)
  <2>1. \A s \in SUBSET D : s # {} => f[Pick(s)] = 2 * Pick(s)[i] * v[Pick(s)]
    BY Picked
  <2> HIDE DEF f
  <2>2. [s \in SUBSET D |-> IF s = {} THEN 0 ELSE (2 * Pick(s)[i] * v[Pick(s)]) + k[s \ {Pick(s)}]]
          = [s \in SUBSET D |-> IF s = {} THEN 0 ELSE f[Pick(s)] + k[s \ {Pick(s)}]]
    BY <2>1
  <2> QED  BY <2>2 DEF Tally
<1>3. IsFiniteSet(D)
  BY DEF IsValue
<1>4. \E k : Same(k)
  <2> HIDE DEF f, Same
  <2> QED  BY <1>2, <1>3, TallyExists
<1>5. Same(it)
  BY <1>4
<1>6. Tally(f, D, it)
  BY <1>2, <1>5
<1>7. Sum(f, D) = it[D]
  <2> HIDE DEF it, f
  <2>1. PICK k : Tally(f, D, k) /\ Sum(f, D) = k[D]
    BY <1>3, SumIsTally
  <2> QED  BY <1>3, <1>6, <2>1, TallyUnique
<1> QED  BY <1>1, <1>7 DEF Measured

(* A whole pixel has the place of its source.                              *)
LEMMA OnlyMeasured ==
  ASSUME ONE \in Nat \ {0}, NEW x, NEW g, g[x] \in Int
  PROVE  IsValue(Only(x)) /\ DOMAIN Only(x) = {x} /\ Measured(g, Only(x)) = g[x] * ONE
<1>1. DOMAIN Only(x) = {x} /\ Only(x)[x] = ONE
  BY DEF Only
<1>2. IsValue(Only(x))
  <2>1. IsFiniteSet({x})
    BY FS_Singleton
  <2> QED  BY <1>1, <2>1 DEF IsValue
<1>3. PICK f : f = [t \in {x} |-> g[t] * Only(x)[t]]
  OBVIOUS
<1>4. f[x] = g[x] * ONE /\ f[x] \in Int
  <2>1. f[x] = g[x] * ONE
    BY <1>1, <1>3
  <2>2. g[x] * ONE \in Int
    BY Z3
  <2> QED  BY <2>1, <2>2
<1>5. Sum(f, {x}) = f[x]
  BY <1>4, SumOfOne
<1> QED  BY <1>1, <1>2, <1>3, <1>4, <1>5 DEF Measured

(* The mean of four pixels is in the middle of them.                       *)
LEMMA MeanMoment ==
  ASSUME ONE \in Nat \ {0}, Divides(4), NEW i,
         NEW a, NEW b, NEW c, NEW d, a[i] \in Int, b[i] \in Int, c[i] \in Int, d[i] \in Int,
         NEW n \in Int, a[i] + b[i] + c[i] + d[i] = 2 * n
  PROVE  Moment(Mean(Only(a), Only(b), Only(c), Only(d)), i) = ONE * n
<1> DEFINE T == {a, b, c, d}
           mean == Mean(Only(a), Only(b), Only(c), Only(d))
<1>1. PICK g : g = [t \in T |-> 2 * t[i]]
  OBVIOUS
<1>2. g[a] = 2 * a[i] /\ g[b] = 2 * b[i] /\ g[c] = 2 * c[i] /\ g[d] = 2 * d[i]
  BY <1>1
<1>3. ASSUME NEW x \in T
      PROVE  IsValue(Only(x)) /\ Fourfold(Only(x)) /\ DOMAIN Only(x) = {x} /\ Measured(g, Only(x)) = g[x] * ONE /\ g[x] \in Int
  <2>1. g[x] \in Int
    BY <1>2
  <2>2. IsValue(Only(x)) /\ DOMAIN Only(x) = {x} /\ Measured(g, Only(x)) = g[x] * ONE
    BY <2>1, OnlyMeasured
  <2>3. Fourfold(Only(x))
    BY <2>2 DEF Fourfold, Only, Divides
  <2> QED  BY <2>1, <2>2, <2>3
<1>4. DOMAIN Only(a) \cup DOMAIN Only(b) \cup DOMAIN Only(c) \cup DOMAIN Only(d) = T
  BY <1>3
<1>5. /\ IsValue(mean) /\ Measured(g, mean) \in Int
      /\ 4 * Measured(g, mean) = g[a] * ONE + g[b] * ONE + g[c] * ONE + g[d] * ONE
  <2>1. \A t \in DOMAIN Only(a) \cup DOMAIN Only(b) \cup DOMAIN Only(c) \cup DOMAIN Only(d) : g[t] \in Int
    BY <1>3, <1>4
  <2>2. PICK va, vb, vc, vd : va = Only(a) /\ vb = Only(b) /\ vc = Only(c) /\ vd = Only(d)
    OBVIOUS
  <2>3. IsValue(va) /\ IsValue(vb) /\ IsValue(vc) /\ IsValue(vd) /\ Fourfold(va) /\ Fourfold(vb) /\ Fourfold(vc) /\ Fourfold(vd)
    BY <1>3, <2>2
  <2>4. /\ IsValue(Mean(va, vb, vc, vd))
        /\ Measured(g, Mean(va, vb, vc, vd)) \in Int
        /\ 4 * Measured(g, Mean(va, vb, vc, vd)) = Measured(g, va) + Measured(g, vb) + Measured(g, vc) + Measured(g, vd)
    BY <2>1, <2>2, <2>3, MeanMeasured
  <2>5. Measured(g, va) = g[a] * ONE /\ Measured(g, vb) = g[b] * ONE /\ Measured(g, vc) = g[c] * ONE /\ Measured(g, vd) = g[d] * ONE
    BY <1>3, <2>2
  <2> QED  BY <2>2, <2>4, <2>5
<1>6. \A t \in DOMAIN mean : g[t] = 2 * t[i]
  <2>1. DOMAIN mean \subseteq T
    BY <1>4 DEF Mean
  <2> QED  BY <1>1, <2>1
<1>7. Moment(mean, i) = Measured(g, mean)
  <2> HIDE DEF mean
  <2> QED  BY <1>5, <1>6, MomentIsMeasured
<1>8. g[a] * ONE + g[b] * ONE + g[c] * ONE + g[d] * ONE = 4 * (ONE * n)
  <2>1. g[a] * ONE + g[b] * ONE + g[c] * ONE + g[d] * ONE = (g[a] + g[b] + g[c] + g[d]) * ONE
    BY <1>3, Z3
  <2>2. g[a] + g[b] + g[c] + g[d] = 4 * n
    BY <1>2
  <2>3. (4 * n) * ONE = 4 * (ONE * n)
    BY Z3
  <2> QED  BY <2>1, <2>2, <2>3
<1>9. ONE * n \in Int
  BY Z3
<1> DEFINE m == Measured(g, mean)
           k == ONE * n
<1>10. m \in Int /\ k \in Int /\ 4 * m = 4 * k
  BY <1>5, <1>8, <1>9
<1>11. m = k
  <2> HIDE DEF m, k
  <2> QED  BY <1>10
<1> QED  BY <1>7, <1>11

-----------------------------------------------------------------------------
(* The macro pixels that no edge cuts through.                             *)
Whole(w, h, st) == {q \in Pixels(w, h) : (q[1] + 1) * st.mw <= w /\ (q[2] + 1) * st.mh <= h}

(* A surface that has never been averaged.                                 *)
Unmixed(s) == \A q \in Pixels(s.w, s.h) : s.at[q] = Only(q)

(* Nor is one that is all filled up with the same.                         *)
Made(s, x) == \A q \in Pixels(s.w, s.h) : s.at[q] = Only(x)

(* Where an unmixed surface is sampled.                                    *)
LEMMA DownSampledMoment ==
  ASSUME ONE \in Nat \ {0}, Divides(4), NEW s, NEW w \in Nat \ {0}, NEW h \in Nat \ {0}, s.w = w, s.h = h, Unmixed(s),
         NEW st, st.mw \in Nat \ {0}, st.mh \in Nat \ {0}, NEW own, NEW other, Placed(own, other, st.mw, st.mh),
         NEW q \in Whole(w, h, st)
  PROVE  LET v == DownSampleSurface(s, w, h, st, own, other).at[q]
         IN  /\ Moment(v, 1) = ONE * (2 * st.mw * q[1] + own[1])
             /\ Moment(v, 2) = ONE * (2 * st.mh * q[2] + own[2])
<1> DEFINE v == DownSampleSurface(s, w, h, st, own, other).at[q]
<1>1. HasValues(s)
  <2> SUFFICES ASSUME NEW p \in Pixels(s.w, s.h) PROVE IsValue(s.at[p])
    BY DEF HasValues
  <2>1. s.at[p] = Only(p)
    BY DEF Unmixed
  <2>2. DOMAIN Only(p) = {p} /\ Only(p)[p] = ONE /\ IsFiniteSet({p})
    BY FS_Singleton DEF Only
  <2> QED  BY <2>1, <2>2 DEF IsValue
<1>2. PICK x0 \in 0 .. st.mw - 1, x1 \in 0 .. st.mw - 1, y0 \in 0 .. st.mh - 1, y1 \in 0 .. st.mh - 1 :
        SampledFrom(s, w, h, st, own, other, x0, x1, y0, y1)
  BY <1>1, DownSampledIsMean
<1>3. PICK mw \in Nat \ {0}, mh \in Nat \ {0} : mw = st.mw /\ mh = st.mh
  OBVIOUS
<1>4. PICK i \in Nat, j \in Nat : q[1] = i /\ q[2] = j /\ q = <<i, j>> /\ i < w /\ j < h
                                 /\ (i + 1) * mw <= w /\ (j + 1) * mh <= h
  BY <1>3 DEF Whole, Pixels
<1>5. i * mw \in Nat /\ j * mh \in Nat /\ (i + 1) * mw = i * mw + mw /\ (j + 1) * mh = j * mh + mh
  BY Z3
<1> DEFINE place(x, y) == <<i * mw + x, j * mh + y>>
<1>6. ASSUME NEW x \in 0 .. mw - 1, NEW y \in 0 .. mh - 1
      PROVE  Seen(s, w, h, st, q, x, y) = Only(place(x, y))
  <2> DEFINE a == i * mw + x
             b == j * mh + y
  <2>1. a \in Nat /\ b \in Nat /\ a < w /\ b < h
    BY <1>4, <1>5
  <2>2. Seen(s, w, h, st, q, x, y) = Get(s, a, b)
    <3>1. Seen(s, w, h, st, q, x, y) = Get(s, AtMost(a, w - 1), AtMost(b, h - 1))
      BY <1>3, <1>4 DEF Seen
    <3> HIDE DEF a, b
    <3>2. AtMost(a, w - 1) = a /\ AtMost(b, h - 1) = b
      BY <2>1 DEF AtMost
    <3> QED  BY <3>1, <3>2
  <2> HIDE DEF a, b
  <2>3. Get(s, a, b) = s.at[<<a, b>>] /\ <<a, b>> \in Pixels(s.w, s.h)
    BY <2>1, GetExact DEF Pixels
  <2> QED  BY <2>2, <2>3 DEF Unmixed, a, b
<1>7. q \in Pixels(CeilDiv(w, mw), CeilDiv(h, mh))
  <2>1. ASSUME NEW n \in Nat \ {0}, NEW m \in Nat \ {0}, NEW k \in Nat, (k + 1) * m <= n
        PROVE  CeilDiv(n, m) \in Nat /\ k < CeilDiv(n, m)
    <3> DEFINE r == (n + m - 1) \div m
    <3>1. n + m - 1 \in Nat /\ r \in Nat /\ n + m - 1 < (r + 1) * m
      BY Z3
    <3> HIDE DEF r
    <3>2. (k + 1) * m = k * m + m /\ (r + 1) * m = r * m + m /\ k * m \in Nat /\ r * m \in Nat
      BY <3>1, Z3
    <3>3. k * m < r * m
      BY <2>1, <3>1, <3>2
    <3>4. k < r
      <4>1. CASE k >= r
        <5>1. k * m >= r * m
          BY <3>1, <4>1, Z3
        <5> QED  BY <3>2, <3>3, <5>1
      <4> QED  BY <3>1, <4>1
    <3> QED  BY <3>1, <3>4 DEF r, CeilDiv
  <2>2. CeilDiv(w, mw) \in Nat /\ i < CeilDiv(w, mw) /\ CeilDiv(h, mh) \in Nat /\ j < CeilDiv(h, mh)
    BY <1>4, <2>1
  <2> QED  BY <1>4, <2>2 DEF Pixels
<1>8. v = Mean(Only(place(x0, y0)), Only(place(x1, y0)), Only(place(x0, y1)), Only(place(x1, y1)))
  BY <1>2, <1>3, <1>6, <1>7 DEF SampledFrom
<1>9. own[1] = x0 + x1 /\ own[2] = y0 + y1
  BY <1>2 DEF SampledFrom
<1> HIDE DEF v
<1>10. PICK a, b, c, d : a = place(x0, y0) /\ b = place(x1, y0) /\ c = place(x0, y1) /\ d = place(x1, y1)
  OBVIOUS
<1>11. PICK x \in Int, y \in Int : x = 2 * mw * q[1] + own[1] /\ y = 2 * mh * q[2] + own[2]
                                  /\ x = 2 * (i * mw) + x0 + x1 /\ y = 2 * (j * mh) + y0 + y1
  <2>1. 2 * mw * i = 2 * (i * mw) /\ 2 * mh * j = 2 * (j * mh)
    BY Z3
  <2> QED  BY <1>4, <1>5, <1>9, <2>1
<1>12. /\ a[1] \in Int /\ b[1] \in Int /\ c[1] \in Int /\ d[1] \in Int /\ a[1] + b[1] + c[1] + d[1] = 2 * x
       /\ a[2] \in Int /\ b[2] \in Int /\ c[2] \in Int /\ d[2] \in Int /\ a[2] + b[2] + c[2] + d[2] = 2 * y
  BY <1>5, <1>10, <1>11
<1>13. v = Mean(Only(a), Only(b), Only(c), Only(d))
  BY <1>8, <1>10
<1>14. Moment(v, 1) = ONE * x /\ Moment(v, 2) = ONE * y
  BY <1>12, <1>13, MeanMoment
<1> QED  BY <1>3, <1>11, <1>14 DEF v

(* What is everywhere the same stays so.                                   *)
LEMMA DownSampledMade ==
  ASSUME ONE \in Nat \ {0}, NEW x, NEW s, NEW w \in Nat \ {0}, NEW h \in Nat \ {0}, s.w = w, s.h = h, Made(s, x),
         NEW st, st.mw \in Nat \ {0}, st.mh \in Nat \ {0}, NEW own, NEW other, Placed(own, other, st.mw, st.mh)
  PROVE  Made(DownSampleSurface(s, w, h, st, own, other), x)
<1> DEFINE new == DownSampleSurface(s, w, h, st, own, other)
<1>1. IsMixture(Only(x))
  BY OnlyIsMixture
<1>2. HasValues(s)
  BY <1>1 DEF HasValues, Made, IsMixture, IsValue
<1>3. PICK x0 \in 0 .. st.mw - 1, x1 \in 0 .. st.mw - 1, y0 \in 0 .. st.mh - 1, y1 \in 0 .. st.mh - 1 :
        SampledFrom(s, w, h, st, own, other, x0, x1, y0, y1)
  BY <1>2, DownSampledIsMean
<1>4. new.w = CeilDiv(w, st.mw) /\ new.h = CeilDiv(h, st.mh) /\ new.w \in Nat /\ new.h \in Nat
  BY CeilDivPositive DEF DownSampleSurface
<1>5. ASSUME NEW q \in Pixels(new.w, new.h), NEW i \in Nat, NEW j \in Nat
      PROVE  Seen(s, w, h, st, q, i, j) = Only(x)
  <2> DEFINE a == q[1] * st.mw + i
             b == q[2] * st.mh + j
  <2>1. a \in Nat /\ b \in Nat
    <3>1. q[1] \in Nat /\ q[2] \in Nat
      BY <1>4 DEF Pixels
    <3> QED  BY <3>1, Z3
  <2>2. /\ AtMost(a, w - 1) \in Nat /\ AtMost(a, w - 1) < s.w
        /\ AtMost(b, h - 1) \in Nat /\ AtMost(b, h - 1) < s.h
    BY <2>1 DEF AtMost
  <2>3. PICK p \in Pixels(s.w, s.h) : Get(s, AtMost(a, w - 1), AtMost(b, h - 1)) = s.at[p]
    BY <2>2, GetInside
  <2> QED  BY <2>3 DEF Seen, Made
<1> HIDE DEF new
<1>6. ASSUME NEW q \in Pixels(new.w, new.h)
      PROVE  new.at[q] = Only(x)
  <2>1. x0 \in Nat /\ x1 \in Nat /\ y0 \in Nat /\ y1 \in Nat
    OBVIOUS
  <2>2. new.at[q] = Mean(Only(x), Only(x), Only(x), Only(x))
    <3>1. new.at[q] = Mean(Seen(s, w, h, st, q, x0, y0), Seen(s, w, h, st, q, x1, y0),
                           Seen(s, w, h, st, q, x0, y1), Seen(s, w, h, st, q, x1, y1))
      BY <1>3, <1>4 DEF SampledFrom, new
    <3>2. /\ Seen(s, w, h, st, q, x0, y0) = Only(x) /\ Seen(s, w, h, st, q, x1, y0) = Only(x)
          /\ Seen(s, w, h, st, q, x0, y1) = Only(x) /\ Seen(s, w, h, st, q, x1, y1) = Only(x)
      BY <1>5, <2>1
    <3> QED  BY <3>1, <3>2
  <2> QED  BY <1>1, <2>2, MeanOfMixture
<1> QED  BY <1>6 DEF Made, new

-----------------------------------------------------------------------------
(* SampledAtPoint.                                                         *)

(* A surface of an image that has never been down-sampled: it was not      *)
(* there, or it is what the original had, or all of it was made up.        *)
Plain(s) == IsEmpty(s) \/ Unmixed(s) \/ \E x \in Special : Made(s, x)

(* The property's centred, for any image.                                  *)
Centred(img, c, point) ==
  LET s == img.planes[c]
      st == img.siting
  IN  ~ IsEmpty(s) /\ Genuine(s) =>
        \A q \in Whole(img.w, img.h, st) : /\ Moment(s.at[q], 1) = ONE * (2 * st.mw * q[1] + point[1])
                                           /\ Moment(s.at[q], 2) = ONE * (2 * st.mh * q[2] + point[2])

(* What is known of an image when all before it had full resolution.       *)
Tracked(img) ==
  /\ img.siting = Full => \A c \in Channels : Plain(img.planes[c])
  /\ img.siting # Full => Centred(img, ChannelU, img.siting.u) /\ Centred(img, ChannelV, img.siting.v)

(* The first n images and the first one had full resolution, and the size  *)
(* of img.                                                                 *)
AllFull(h, n, img) == \A i \in {1} \cup (1 .. n) : h[i].siting = Full /\ SameSize(h[i], img)

(* The image returned last and the one being worked on are tracked, if     *)
(* those before them had full resolution.                                  *)
SampledInv ==
  /\ AllFull(history, Len(history) - 1, Newest) /\ WellPlaced(Newest.siting) => Tracked(Newest)
  /\ AllFull(history, Len(history), image) /\ WellPlaced(image.siting) => Tracked(image)

(* What was made up is not genuine.                                        *)
LEMMA NothingGenuine ==
  ASSUME NEW x \in Special, NEW s, s.w \in Nat \ {0}, s.h \in Nat \ {0}, Made(s, x)
  PROVE  ~ Genuine(s)
<1>1. <<0, 0>> \in Pixels(s.w, s.h)
  BY DEF Pixels
<1>2. s.at[<<0, 0>>] = Only(x)
  BY <1>1 DEF Made
<1>3. x \in DOMAIN s.at[<<0, 0>>]
  BY <1>2 DEF Only
<1>4. x \in Sources(s)
  BY <1>1, <1>3 DEF Sources
<1> QED  BY <1>4 DEF Genuine, Special

(* At full resolution a pixel is where it is.                              *)
LEMMA FullCentred ==
  ASSUME ONE \in Nat \ {0}, NEW img, WellFormed(img), img.siting = Full, NEW c \in Channels, Plain(img.planes[c])
  PROVE  Centred(img, c, <<0, 0>>)
<1> DEFINE s == img.planes[c]
<1> SUFFICES ASSUME ~ IsEmpty(s), Genuine(s), NEW q \in Whole(img.w, img.h, Full)
             PROVE  Moment(s.at[q], 1) = ONE * (2 * 1 * q[1] + 0) /\ Moment(s.at[q], 2) = ONE * (2 * 1 * q[2] + 0)
  BY DEF Centred, Full
<1>1. s.w = img.w /\ s.h = img.h /\ img.w \in Nat \ {0} /\ img.h \in Nat \ {0}
  BY FullSiting, FullSizes DEF WellFormed
<1> HIDE DEF s
<1>2. Unmixed(s)
  BY <1>1, NothingGenuine DEF Plain, s
<1>3. q \in Pixels(s.w, s.h) /\ q[1] \in Nat /\ q[2] \in Nat
  BY <1>1 DEF Whole, Pixels
<1>4. s.at[q] = Only(q)
  BY <1>2, <1>3 DEF Unmixed
<1>5. ASSUME NEW i \in {1, 2}
      PROVE  Moment(Only(q), i) = ONE * (2 * 1 * q[i] + 0)
  <2>1. PICK g : g = [t \in {q} |-> 2 * t[i]]
    OBVIOUS
  <2>2. g[q] = 2 * q[i] /\ g[q] \in Int
    BY <1>3, <2>1
  <2>3. IsValue(Only(q)) /\ DOMAIN Only(q) = {q} /\ Measured(g, Only(q)) = g[q] * ONE
    BY <2>2, OnlyMeasured
  <2>4. Moment(Only(q), i) = Measured(g, Only(q))
    <3>1. \A t \in DOMAIN Only(q) : g[t] = 2 * t[i]
      BY <2>1, <2>3
    <3> QED  BY <2>3, <3>1, MomentIsMeasured
  <2>5. g[q] * ONE = ONE * (2 * 1 * q[i] + 0)
    <3>1. 2 * 1 * q[i] + 0 = g[q]
      BY <1>3, <2>2
    <3>2. g[q] * ONE = ONE * g[q]
      BY <2>2, Z3
    <3> QED  BY <3>1, <3>2
  <2> QED  BY <2>3, <2>4, <2>5
<1> QED  BY <1>4, <1>5

(* Sampled down once, the chroma is centred on the sample points.          *)
LEMMA TrackedDownSampled ==
  ASSUME ONE \in Nat \ {0}, Divides(4), NEW img, WellFormed(img), img.siting = Full, Tracked(img),
         NEW st \in Sitings, WellPlaced(st)
  PROVE  Tracked(DownSample(img, st))
<1>1. CASE st = Full
  BY <1>1 DEF DownSample
<1>2. CASE st # Full
  <2> DEFINE new == DownSample(img, st)
             below(c, own, other) == IF IsEmpty(img.planes[c]) THEN img.planes[c]
                                     ELSE DownSampleSurface(img.planes[c], img.w, img.h, st, own, other)
  <2>1. UpSample(img) = img
    BY FullSiting DEF UpSample
  <2>2. new.planes[ChannelU] = below(ChannelU, st.u, st.v) /\ new.planes[ChannelV] = below(ChannelV, st.v, st.u)
    BY <1>2, <2>1, DownSampledPlanes
  <2>3. new.w = img.w /\ new.h = img.h /\ new.siting = st /\ img.w \in Nat \ {0} /\ img.h \in Nat \ {0}
    BY DownSampleKeeps DEF WellFormed
  <2>4. st.mw \in Nat \ {0} /\ st.mh \in Nat \ {0} /\ Placed(st.u, st.v, st.mw, st.mh) /\ Placed(st.v, st.u, st.mw, st.mh)
    BY SitingTypes, PointsPlaced
  <2> HIDE DEF new
  <2>5. ASSUME NEW c \in Channels, NEW own, NEW other, Placed(own, other, st.mw, st.mh),
               new.planes[c] = below(c, own, other)
        PROVE  Centred(new, c, own)
    <3> DEFINE s == img.planes[c]
               d == DownSampleSurface(s, img.w, img.h, st, own, other)
    <3>1. CASE IsEmpty(s)
      BY <2>5, <3>1 DEF Centred
    <3>2. CASE ~ IsEmpty(s)
      <4>1. s.w = img.w /\ s.h = img.h
        BY <3>2, FullSiting, FullSizes
      <4>2. new.planes[c] = d
        BY <2>5, <3>2
      <4>3. Plain(s)
        BY DEF Tracked
      <4> HIDE DEF s, d, below
      <4>4. CASE Unmixed(s)
        <5>1. ASSUME NEW q \in Whole(img.w, img.h, st)
              PROVE  /\ Moment(d.at[q], 1) = ONE * (2 * st.mw * q[1] + own[1])
                     /\ Moment(d.at[q], 2) = ONE * (2 * st.mh * q[2] + own[2])
          BY <2>3, <2>4, <2>5, <4>1, <4>4, DownSampledMoment DEF d
        <5> QED  BY <2>3, <4>2, <5>1 DEF Centred
      <4>5. CASE \E x \in Special : Made(s, x)
        <5>1. PICK x \in Special : Made(s, x)
          BY <4>5
        <5>2. Made(d, x)
          BY <2>3, <2>4, <2>5, <4>1, <5>1, DownSampledMade DEF d
        <5>3. d.w \in Nat \ {0} /\ d.h \in Nat \ {0}
          BY <2>3, <2>4, CeilDivPositive DEF d, DownSampleSurface
        <5> QED  BY <4>2, <5>2, <5>3, NothingGenuine DEF Centred
      <4> QED  BY <3>2, <4>3, <4>4, <4>5 DEF Plain, s
    <3> QED  BY <3>1, <3>2
  <2> HIDE DEF below
  <2>6. Centred(new, ChannelU, st.u) /\ Centred(new, ChannelV, st.v)
    BY <2>2, <2>4, <2>5, ChannelNames
  <2> QED  BY <1>2, <2>3, <2>6 DEF Tracked, new
<1> QED  BY <1>1, <1>2

(* A surface that is not there comes back as all the same.                 *)
LEMMA UnpackedMade ==
  ASSUME NEW c \in Channels, ~ IsEmpty(Unpacked(c)), IsEmpty(image.planes[c])
  PROVE  \E x \in Special : Made(Unpacked(c), x)
<1> DEFINE x == IF c = ChannelA THEN Opaque ELSE Poison
           w == PlaneW(target.w, target.siting, c)
           ht == PlaneH(target.h, target.siting, c)
<1>1. Unpacked(c) = [w |-> w, h |-> ht, at |-> [p \in Pixels(w, ht) |-> Only(x)]]
  BY DEF Unpacked, IsEmpty, Empty
<1> HIDE DEF w, ht
<1>2. Made(Unpacked(c), x)
  BY <1>1 DEF Made
<1> QED  BY <1>2 DEF Special

(* Through a frame it stays there.                                         *)
LEMMA TrackedUnpacked ==
  ASSUME WellFormed(image), HasSurfaces(image), image.w = target.w, image.h = target.h, image.siting = target.siting,
         Tracked(image),
         NEW new, new.w = image.w, new.h = image.h, new.siting = image.siting, \A c \in Channels : new.planes[c] = Unpacked(c),
         \A c \in Channels : ~ IsEmpty(new.planes[c]) => new.planes[c].w \in Nat \ {0} /\ new.planes[c].h \in Nat \ {0}
  PROVE  Tracked(new)
<1>1. ASSUME NEW c \in Channels, ~ IsEmpty(new.planes[c])
      PROVE  \/ ~ IsEmpty(image.planes[c]) /\ new.planes[c] = image.planes[c]
             \/ \E x \in Special : Made(new.planes[c], x)
  BY <1>1, UnpackedSame, UnpackedMade
<1>2. ASSUME NEW c \in Channels, Plain(image.planes[c])
      PROVE  Plain(new.planes[c])
  BY <1>1, <1>2 DEF Plain
<1>3. ASSUME NEW c \in Channels, NEW point, Centred(image, c, point)
      PROVE  Centred(new, c, point)
  <2>1. CASE IsEmpty(new.planes[c]) \/ ~ Genuine(new.planes[c])
    BY <2>1 DEF Centred
  <2>2. CASE ~ IsEmpty(new.planes[c]) /\ Genuine(new.planes[c])
    <3>1. new.planes[c] = image.planes[c]
      BY <1>1, <2>2, NothingGenuine
    <3> QED  BY <1>3, <3>1 DEF Centred
  <2> QED  BY <2>1, <2>2
<1> QED  BY <1>2, <1>3, ChannelNames DEF Tracked

(* A call that returned.                                                   *)
LEMMA SampledReturned ==
  ASSUME KeptInv, history' = Append(history, image'), stage' = "idle", NEW img, img = image',
         AllFull(history, Len(history), img) /\ WellPlaced(img.siting) => Tracked(img)
  PROVE  SampledInv'
<1>1. PICK h, n : h = history /\ n = Len(h)
  OBVIOUS
<1>2. (\E S : h \in Seq(S)) /\ h # <<>>
  BY <1>1 DEF KeptInv, IsList
<1>3. PICK new : new = img
  OBVIOUS
<1>4. PICK g : g = Append(h, new)
  OBVIOUS
<1>5. n \in Nat \ {0} /\ Len(g) = n + 1 /\ (\A i \in 1 .. n : g[i] = h[i]) /\ g[n + 1] = img
  <2>1. /\ \E S : Append(h, new) \in Seq(S)
        /\ Append(h, new) # <<>>
        /\ Len(h) \in Nat \ {0} /\ Len(Append(h, new)) = Len(h) + 1
        /\ \A i \in 1 .. Len(h) : Append(h, new)[i] = h[i]
        /\ Append(h, new)[Len(h) + 1] = new
    BY <1>2, Appended
  <2> QED  BY <1>1, <1>3, <1>4, <2>1
<1>6. history' = g
  BY <1>1, <1>3, <1>4
<1>7. Newest' = img
  BY <1>5, <1>6 DEF Newest
<1>8. AllFull(g, n, img) => AllFull(h, n, img)
  BY <1>5 DEF AllFull
<1>9. AllFull(g, n + 1, img) => AllFull(g, n, img)
  BY <1>5 DEF AllFull
<1>10. AllFull(g, n, img) /\ WellPlaced(img.siting) => Tracked(img)
  BY <1>1, <1>8
<1>11. Len(g) - 1 = n
  BY <1>5
<1>12. AllFull(g, Len(g) - 1, img) /\ WellPlaced(img.siting) => Tracked(img)
  BY <1>10, <1>11
<1>13. AllFull(g, Len(g), img) /\ WellPlaced(img.siting) => Tracked(img)
  BY <1>5, <1>9, <1>10
<1> QED  BY <1>6, <1>7, <1>12, <1>13 DEF SampledInv

(* A step within encode_frame.                                             *)
LEMMA SampledUnderWay ==
  ASSUME SampledInv, history' = history, NEW img, img = image',
         AllFull(history, Len(history), img) /\ WellPlaced(img.siting) => Tracked(img)
  PROVE  SampledInv'
<1>1. PICK last, h : last = Newest /\ h = history
  OBVIOUS
<1>2. Newest' = last /\ history' = h
  BY <1>1 DEF Newest
<1>3. AllFull(h, Len(h) - 1, last) /\ WellPlaced(last.siting) => Tracked(last)
  BY <1>1 DEF SampledInv
<1>4. AllFull(h, Len(h), img) /\ WellPlaced(img.siting) => Tracked(img)
  BY <1>1
<1> QED  BY <1>2, <1>3, <1>4 DEF SampledInv

(* As long as there are calls to come, a pixel can be cut into four.       *)
LEMMA FourDivides ==
  ASSUME Inv, calls < MaxCalls
  PROVE  Divides(4)
<1>1. 1 \in 1 .. MaxCalls
  BY ConversionAssumption DEF Inv, StageInv
<1>2. Divides(4 * Parts[0]) /\ Parts[0] \in Nat \ {0}
  <2>1. Divides(4 * Parts[1 - 1]) /\ Parts[1 - 1] \in Nat \ {0}
    BY <1>1, PartsForACall
  <2> QED  BY <2>1
<1>3. PICK p \in Nat \ {0}, k \in Int : ONE = (4 * p) * k
  BY <1>2 DEF Divides
<1>4. (4 * p) * k = 4 * (p * k) /\ p * k \in Int
  BY Z3
<1> QED  BY <1>3, <1>4 DEF Divides

(* encode_frame.                                                           *)
LEMMA PackedSampled ==
  ASSUME Inv, KeptInv, SampledInv, PackAndUnpack
  PROVE  SampledInv'
<1>1. stage = "pack" /\ target \in Targets /\ image.w = target.w /\ image.h = target.h /\ Converted /\ WellFormed(image)
      /\ history' = Append(history, image') /\ stage' = "idle" /\ HasSurfaces(image)
  BY DEF Inv, StageInv, PackAndUnpack, KeptInv
<1>2. image' = [w |-> target.w, h |-> target.h, siting |-> target.siting, planes |-> [c \in Channels |-> Unpacked(c)]]
  BY DEF PackAndUnpack
<1>3. PICK new, h, st : new = image' /\ h = history /\ st = target.siting
  OBVIOUS
<1>4. /\ new.w = target.w /\ new.h = target.h /\ new.siting = st
      /\ \A c \in Channels : new.planes[c] = Unpacked(c)
  BY <1>2, <1>3
<1>5. WellFormed(new)
  <2>1. WellFormed(image')
    BY InvStep DEF Next, Inv
  <2> QED  BY <1>3, <2>1
<1>6. st \in Sitings /\ image.siting \in Sitings
  BY <1>1, <1>3, TargetTypes DEF Shapes, WellFormed
<1>7. \A c \in Channels : ~ IsEmpty(new.planes[c]) => new.planes[c].w \in Nat \ {0} /\ new.planes[c].h \in Nat \ {0}
  BY <1>5, SurfaceSize
<1>8. ASSUME AllFull(h, Len(h), new), WellPlaced(st)
      PROVE  Tracked(new)
  <2>1. PICK n \in Nat \ {0} : n = Len(h)
    BY <1>3, Appended DEF KeptInv, IsList
  <2>2. h[Len(h)].siting = Full
    BY <1>8, <2>1 DEF AllFull
  <2>3. image.siting \in {Full, st}
    BY <1>1, <1>3, <2>2 DEF KeptInv, Newest
  <2>4. image.siting = st
    BY <1>1, <1>3, <1>6, <1>8, <2>3, OnlyFullIsPlaced DEF Converted
  <2>5. AllFull(h, Len(h), image)
    BY <1>1, <1>4, <1>8 DEF AllFull, SameSize
  <2>6. Tracked(image)
    BY <1>3, <1>8, <2>4, <2>5 DEF SampledInv
  <2> QED  BY <1>1, <1>3, <1>4, <1>7, <2>4, <2>6, TrackedUnpacked
<1>9. AllFull(history, Len(history), new) /\ WellPlaced(new.siting) => Tracked(new)
  BY <1>3, <1>4, <1>8
<1> QED  BY <1>1, <1>3, <1>9, SampledReturned

(* A call of the resampler.                                                *)
LEMMA ResampledSampled ==
  ASSUME Inv, KeptInv, SampledInv, Resample
  PROVE  SampledInv'
<1>1. stage = "idle" /\ stage' = "idle" /\ history' = Append(history, image') /\ ONE \in Nat \ {0} /\ Divides(4)
  BY PrecisionAssumption, FourDivides DEF Resample
<1>2. PICK img, new, h : img = image /\ new = image' /\ h = history
  OBVIOUS
<1>3. WellFormed(img) /\ img = h[Len(h)] /\ IsList(h)
      /\ (AllFull(h, Len(h), img) /\ WellPlaced(img.siting) => Tracked(img))
  BY <1>1, <1>2 DEF Inv, KeptInv, Newest, SampledInv
<1>4. ASSUME AllFull(h, Len(h), new), WellPlaced(new.siting)
      PROVE  Tracked(new)
  <2>1. PICK n \in Nat \ {0} : n = Len(h)
    BY <1>3, Appended DEF IsList
  <2>2. img.siting = Full /\ SameSize(img, new)
    BY <1>3, <1>4, <2>1 DEF AllFull
  <2>3. AllFull(h, Len(h), img) /\ Tracked(img)
    <3>1. AllFull(h, Len(h), img)
      BY <1>4, <2>2 DEF AllFull, SameSize
    <3> QED  BY <1>3, <2>2, <3>1, FullIsPlaced
  <2>4. CASE new = UpSample(img)
    BY <2>2, <2>3, <2>4, FullSiting DEF UpSample
  <2>5. CASE \E f \in Targets : new = DownSample(img, f.siting)
    <3>1. PICK f \in Targets : new = DownSample(img, f.siting)
      BY <2>5
    <3>2. PICK st \in Sitings : st = f.siting
      BY TargetTypes DEF Shapes
    <3>3. new = DownSample(img, st)
      BY <3>1, <3>2
    <3>4. WellPlaced(st)
      <4>1. DownSample(img, st).siting = st
        BY <1>3, DownSampleKeeps
      <4> QED  BY <1>4, <3>3, <4>1
    <3>5. Tracked(DownSample(img, st))
      BY <1>1, <1>3, <2>2, <2>3, <3>4, TrackedDownSampled
    <3> QED  BY <3>3, <3>5
  <2>6. CASE \E f \in Targets : new = ScaleImage(img, f.w, f.h)
    <3>1. PICK f \in Targets : new = ScaleImage(img, f.w, f.h)
      BY <2>6
    <3>2. PICK w \in Nat \ {0}, ht \in Nat \ {0} : w = f.w /\ ht = f.h
      BY TargetTypes DEF Shapes
    <3>3. ScaleImage(img, w, ht).w = w /\ ScaleImage(img, w, ht).h = ht
      <4>1. WellFormed(img)
        BY <1>3
      <4> QED  BY <4>1, ScaleKeeps
    <3>4. img.w = w /\ img.h = ht
      BY <2>2, <3>1, <3>2, <3>3 DEF SameSize
    <3> QED  BY <2>3, <3>1, <3>2, <3>4 DEF ScaleImage
  <2> QED  BY <1>2, <2>4, <2>5, <2>6 DEF Resample
<1> QED  BY <1>1, <1>2, <1>4, SampledReturned

(* Each step keeps SampledInv.                                             *)
LEMMA SampledStep == Inv /\ KeptInv /\ SampledInv /\ [Next]_vars => SampledInv'
<1> SUFFICES ASSUME Inv, KeptInv, SampledInv, [Next]_vars PROVE SampledInv'
  OBVIOUS
<1>1. PICK img, new, h, last : img = image /\ new = image' /\ h = history /\ last = Newest
  OBVIOUS
<1>2. /\ WellFormed(img) /\ IsList(h) /\ last = h[Len(h)] /\ ONE \in Nat \ {0}
      /\ stage # "pack" => img.siting \in {last.siting, Full}
      /\ AllFull(h, Len(h), img) /\ WellPlaced(img.siting) => Tracked(img)
  BY <1>1, PrecisionAssumption DEF Inv, KeptInv, Newest, SampledInv
<1>3. ASSUME NEW other, AllFull(h, Len(h), other)
      PROVE  last.siting = Full /\ SameSize(last, other)
  <2>1. PICK n \in Nat \ {0} : n = Len(h)
    BY <1>2, Appended DEF IsList
  <2> QED  BY <1>2, <1>3, <2>1 DEF AllFull
<1>4. CASE UpSampleToScale \/ UpSampleToResite
  <2>1. stage # "pack" /\ ~ Is444(img.siting) /\ history' = history
    BY <1>1, <1>4 DEF UpSampleToScale, UpSampleToResite
  <2>2. ~ AllFull(h, Len(h), new)
    BY <1>2, <1>3, <2>1, FullSiting
  <2> QED  BY <1>1, <2>1, <2>2, SampledUnderWay
<1>5. CASE Scale
  <2>1. stage = "size" /\ history' = history /\ target \in Targets /\ ~ SameSize(target, last)
    BY <1>1, <1>5 DEF Scale, Inv, StageInv, KeptInv
  <2>2. PICK w \in Nat \ {0}, ht \in Nat \ {0} : w = target.w /\ ht = target.h
    BY <2>1, TargetTypes DEF Shapes
  <2>3. new = ScaleImage(img, w, ht)
    BY <1>1, <1>5, <2>2 DEF Scale
  <2>4. ScaleImage(img, w, ht).w = w /\ ScaleImage(img, w, ht).h = ht
    BY <1>2, ScaleKeeps
  <2>5. ~ AllFull(h, Len(h), new)
    BY <1>3, <2>1, <2>2, <2>3, <2>4 DEF SameSize
  <2> QED  BY <1>1, <2>1, <2>5, SampledUnderWay
<1>6. CASE DownSampleToTarget
  <2>1. /\ stage = "siting" /\ history' = history /\ Is444(img.siting) /\ target \in Targets /\ Divides(4)
    BY <1>1, <1>6, FourDivides DEF DownSampleToTarget, Inv, StageInv
  <2>2. PICK st \in Sitings : st = target.siting
    BY <2>1, TargetTypes DEF Shapes
  <2>3. new = DownSample(img, st)
    BY <1>1, <1>6, <2>2 DEF DownSampleToTarget
  <2>4. DownSample(img, st).siting = st /\ DownSample(img, st).w = img.w /\ DownSample(img, st).h = img.h
    BY <1>2, DownSampleKeeps
  <2>5. ASSUME AllFull(h, Len(h), new), WellPlaced(new.siting)
        PROVE  Tracked(new)
    <3>1. img.siting = Full
      BY <1>2, <1>3, <2>1, <2>5
    <3>2. AllFull(h, Len(h), img)
      BY <2>3, <2>4, <2>5 DEF AllFull, SameSize
    <3>3. Tracked(img)
      BY <1>2, <3>1, <3>2, FullIsPlaced
    <3>4. WellPlaced(st)
      BY <2>3, <2>4, <2>5
    <3>5. Tracked(DownSample(img, st))
      BY <1>2, <2>1, <3>1, <3>3, <3>4, TrackedDownSampled
    <3> QED  BY <2>3, <3>5
  <2> QED  BY <1>1, <2>1, <2>5, SampledUnderWay
<1>7. CASE StartEncode \/ EndConversion
  <2>1. history' = history /\ new = img
    BY <1>1, <1>7 DEF StartEncode, EndConversion
  <2> QED  BY <1>1, <1>2, <2>1, SampledUnderWay
<1>8. CASE PackAndUnpack
  BY <1>8, PackedSampled
<1>9. CASE Resample
  BY <1>9, ResampledSampled
<1>10. CASE Finished \/ UNCHANGED vars
  <2>1. image' = image /\ history' = history
    BY <1>10 DEF Finished, vars
  <2> QED  BY <2>1 DEF SampledInv, Newest
<1> QED
  BY <1>4, <1>5, <1>6, <1>7, <1>8, <1>9, <1>10 DEF Next

(* An original at full resolution is unmixed.                              *)
LEMMA SampledStart == Init => SampledInv
<1> SUFFICES ASSUME Init PROVE SampledInv
  OBVIOUS
<1>1. PICK f \in Originals : image = ImageOf(f)
  BY DEF Init
<1>2. PICK img, h : img = image /\ h = history
  OBVIOUS
<1>3. h = <<img>>
  BY <1>2 DEF Init
<1>4. Len(h) = 1 /\ h[1] = img
  BY <1>3
<1>5. ASSUME img.siting = Full
      PROVE  Tracked(img)
  <2> SUFFICES ASSUME NEW c \in Channels, ~ IsEmpty(img.planes[c])
               PROVE  Plain(img.planes[c])
    BY <1>5 DEF Tracked, Plain
  <2>1. Unmixed(img.planes[c])
    BY <1>1, <1>2, OriginalPlanes DEF Unmixed
  <2> QED  BY <2>1 DEF Plain
<1>6. \A n : AllFull(h, n, img) => Tracked(img)
  BY <1>4, <1>5 DEF AllFull
<1> QED  BY <1>2, <1>4, <1>6 DEF SampledInv, Newest

(* SampledAtPoint: chroma sampled down from full resolution is centred on  *)
(* the siting's sample points, in every macro pixel no edge cuts through.  *)
THEOREM ChromaIsCentred == Spec => []SampledAtPoint
<1>1. Inv /\ KeptInv /\ SampledInv => SampledAtPoint
  <2> SUFFICES ASSUME Inv, KeptInv, SampledInv PROVE SampledAtPoint
    OBVIOUS
  <2>1. PICK img, h, n : img = image /\ h = history /\ n = Len(h)
    OBVIOUS
  <2> DEFINE before == {1} \cup {i \in DOMAIN history : i < Len(history) \/ history[i] # image}
  <2>2. /\ IsList(h) /\ Sound(h) /\ WellFormed(img) /\ ONE \in Nat \ {0}
        /\ AllFull(h, n - 1, h[n]) /\ WellPlaced(h[n].siting) => Tracked(h[n])
        /\ AllFull(h, n, img) /\ WellPlaced(img.siting) => Tracked(img)
    BY <2>1, PrecisionAssumption DEF Inv, KeptInv, SampledInv, Newest
  <2>3. n \in Nat \ {0} /\ DOMAIN h = 1 .. n /\ Len(Append(h, img)) = n + 1 /\ DOMAIN Append(h, img) = 1 .. n + 1
        /\ \A i \in 1 .. n : Append(h, img)[i] = h[i]
    <3>1. (\E S : h \in Seq(S)) /\ h # <<>>
      BY <2>2 DEF IsList
    <3>2. /\ \E S : Append(h, img) \in Seq(S)
          /\ Append(h, img) # <<>>
          /\ Len(h) \in Nat \ {0} /\ Len(Append(h, img)) = Len(h) + 1
          /\ \A i \in 1 .. Len(h) : Append(h, img)[i] = h[i]
          /\ Append(h, img)[Len(h) + 1] = img
      BY <3>1, Appended
    <3>3. PICK g : g = Append(h, img)
      OBVIOUS
    <3>4. DOMAIN g = 1 .. Len(g)
      BY <3>2, <3>3
    <3> QED  BY <2>1, <3>1, <3>2, <3>3, <3>4
  <2>4. ASSUME OneSize, WellPlaced(img.siting),
               \A i \in before : Is444(history[i].siting) /\ WellPlaced(history[i].siting)
        PROVE  Tracked(img)
    <3>1. \A i \in 1 .. n : SameSize(h[i], img)
      <4>1. \A i \in DOMAIN Append(h, img) : Append(h, img)[i].w = img.w /\ Append(h, img)[i].h = img.h
        BY <2>1, <2>4 DEF OneSize, Timeline
      <4> QED  BY <2>3, <4>1 DEF SameSize
    <3>2. before = {1} \cup {i \in 1 .. n : i < n \/ h[i] # img}
      BY <2>1, <2>3
    <3>3. \A i \in before : h[i].siting = Full
      <4>1. ASSUME NEW i \in before
            PROVE  h[i].siting = Full
        <5>1. i \in 1 .. n
          BY <2>3, <3>2
        <5>2. h[i].siting \in Sitings
          BY <2>1, <2>2, <5>1 DEF Sound, WellFormed
        <5>3. Is444(h[i].siting) /\ WellPlaced(h[i].siting)
          BY <2>1, <2>4
        <5> QED  BY <5>2, <5>3, OnlyFullIsPlaced
      <4> QED  BY <4>1
    <3> HIDE DEF before
    <3>4. 1 \in 1 .. n /\ 1 \in before
      BY <2>3, <3>2
    <3>5. CASE h[n] = img
      <4>1. \A i \in {1} \cup (1 .. n - 1) : i \in before /\ i \in 1 .. n
        BY <2>3, <3>2, <3>4
      <4>2. AllFull(h, n - 1, h[n])
        BY <3>1, <3>3, <3>5, <4>1 DEF AllFull
      <4> QED  BY <2>2, <2>4, <3>5, <4>2
    <3>6. CASE h[n] # img
      <4>1. \A i \in {1} \cup (1 .. n) : i \in before /\ i \in 1 .. n
        BY <2>3, <3>2, <3>4, <3>6
      <4>2. AllFull(h, n, img)
        BY <3>1, <3>3, <4>1 DEF AllFull
      <4> QED  BY <2>2, <2>4, <4>2
    <3> QED  BY <3>5, <3>6
  <2>5. ASSUME Tracked(img)
        PROVE  Centred(img, ChannelU, img.siting.u) /\ Centred(img, ChannelV, img.siting.v)
    <3>1. CASE img.siting = Full
      <4>1. Full.u = <<0, 0>> /\ Full.v = <<0, 0>>
        BY DEF Full
      <4>2. Plain(img.planes[ChannelU]) /\ Plain(img.planes[ChannelV])
        BY <2>5, <3>1, ChannelNames DEF Tracked
      <4> QED  BY <2>2, <3>1, <4>1, <4>2, FullCentred, ChannelNames
    <3>2. CASE img.siting # Full
      BY <2>5, <3>2 DEF Tracked
    <3> QED  BY <3>1, <3>2
  <2>6. SampledAtPoint <=> (/\ OneSize
                            /\ WellPlaced(image.siting)
                            /\ \A i \in before : Is444(history[i].siting) /\ WellPlaced(history[i].siting)
                            => Centred(image, ChannelU, image.siting.u) /\ Centred(image, ChannelV, image.siting.v))
    BY Zenon DEF SampledAtPoint, Centred, Whole, Moment
  <2> HIDE DEF before
  <2> QED  BY <2>1, <2>4, <2>5, <2>6
<1>2. Inv /\ KeptInv /\ [Next]_vars => KeptInv'
  BY KeptStep
<1>3. Inv /\ KeptInv /\ SampledInv /\ [Next]_vars => SampledInv'
  BY SampledStep
<1> QED
  BY <1>1, <1>2, <1>3, KeptStart, SampledStart, Invariance, PTL DEF Spec

=============================================================================
