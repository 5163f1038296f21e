---------------------------- MODULE MCFrameStream ---------------------------
EXTENDS FrameStream, SmallFormats

Frame(fmt, data) ==
  [format |-> fmt, u_point |-> "left", v_point |-> "center", data |-> data,
   matrix |-> IF data = "a" THEN "bt709" ELSE "bt601"]
Write1(frame, v) == [frame |-> frame, version |-> v]

A == Frame(Planar420("lower_left"), "a")
B == Frame(Split("upper_left"), "b")
C == Frame(Swizzled(2, 4, 2), "c")
D == Frame(Blocks2x2, "d")
Overlapping == Frame([Split("upper_left") EXCEPT !.channel_blocks[4] = One(2, 0, 2)], "e")

(* Lines that leave the plane; and what is returned with places that share  *)
(* bits, for its macro pixels are cut or its planes overlap.                *)
BelowPlane == Frame([Planar420("lower_left") EXCEPT !.planes[1].line_stride = 2], "f")
CutMacroPixel == Frame(OddYV12Frame, "g")
PlanesMeet == Frame([OverlapBehindFirst EXCEPT !.channel_blocks[ChannelV] = One(3, 0, 3)], "h")

TwoMatrices == {"bt601", "bt709"}
TwoPoints == {"left", "center"}

ValidScripts ==
  {<<Write1(A, 1), Write1(B, 0)>>, <<Write1(B, 0), Write1(B, 1)>>, <<Write1(C, 1), Write1(D, 1)>>,
   <<Write1(D, 0), Write1(C, 1)>>}

FailingScripts ==
  {<<Write1(A, 0), Write1(C, 0)>>, <<Write1(Overlapping, 1), Write1(A, 1)>>, <<Write1(B, 2)>>,
   <<Write1(BelowPlane, 1)>>, <<Write1(CutMacroPixel, 0)>>, <<Write1(PlanesMeet, 1)>>}

NothingBefore == {<<>>}
SomethingBefore ==
  {<<>>, <<[kind |-> "picture", bytes |-> 24, whole |-> TRUE, body |-> "data"]>>,
   <<[kind |-> "file_header", bytes |-> 24, whole |-> TRUE, body |-> [version |-> 2]]>>}

OneFrame == {<<Write1(A, 1)>>}
=============================================================================
