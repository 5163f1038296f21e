--------------------------- MODULE MCCreateFormat ---------------------------
EXTENDS CreateFormat, SmallFormats

MiniCalc == INSTANCE MiniCalc
Eval(e, v) == MiniCalc!MinicalcEvaluate(e, v)

Num(n)       == [op |-> "num", value |-> n]
Var(i, name) == [op |-> "var", name |-> <<i, name>>]
Op(f, l, r)  == [op |-> f, lhs |-> l, rhs |-> r]
W  == Var(0, "image_w")
H  == Var(0, "image_h")
MW == Var(0, "macro_px_w")
MH == Var(0, "macro_px_h")
PadW == Op("next_multiple", W, MW)
PadH == Op("next_multiple", H, MH)
After(i) == Op("add", Var(i, "base_offset"), Var(i, "plane_size"))

PlaneT(base, stride, bytes, block_stride, mode, bo) ==
  [base_offset |-> base, line_stride |-> stride, plane_size |-> bytes,
   block_stride |-> block_stride, interleave_mode |-> mode, block_order |-> bo]
Template(mw, mh, origin, planes_t, blocks) ==
  [macro_px_w |-> mw, macro_px_h |-> mh, origin |-> origin, planes |-> planes_t, channel_blocks |-> blocks]

(* YV12: chroma lines of image_w/macro_px_w bytes; macro pixels of mw x mh. *)
YV12(mw, mh, chroma_stride) ==
  Template(mw, mh, "upper_left",
    <<PlaneT(Num(0), PadW, Op("mul", PadW, PadH), 8, 0, Linear),
      PlaneT(After(1), chroma_stride, Op("mul", Op("div", PadW, MW), Op("div", PadH, MH)), 8, 0, Linear),
      PlaneT(After(2), chroma_stride, Op("mul", Op("div", PadW, MW), Op("div", PadH, MH)), 8, 2, Linear)>>,
    <<One(1, 0, 8), One(2, 0, 8), One(3, 0, 8), NoChan>>)

(* IMC1, its chroma planes in reverse order, aligned to lines of plane 1.   *)
IMC1 ==
  Template(2, 2, "upper_left",
    <<PlaneT(Num(0), PadW, Op("mul", Var(0, "line_stride"), PadH), 8, 0, Linear),
      PlaneT(Op("mul", Op("next_multiple", H, Num(4)), Var(1, "line_stride")), Var(1, "line_stride"),
             Op("div", Op("mul", Var(0, "line_stride"), PadH), MH), 8, 1, Linear),
      PlaneT(Op("next_multiple", After(2), Op("mul", Num(4), Var(1, "line_stride"))), Var(1, "line_stride"),
             Op("div", Op("mul", Var(0, "line_stride"), PadH), MH), 8, 0, Linear)>>,
    <<One(1, 0, 8), One(3, 0, 8), One(2, 0, 8), NoChan>>)

(* cyuv: packed 4:2:2 from the lower left; block_stride and offset vary to  *)
(* give templates whose samples do not fit.                                 *)
Cyuv(block_stride, offset) ==
  Template(2, 1, "lower_left",
    <<PlaneT(Num(0), Op("mul", PadW, Num(2)), Op("mul", Var(0, "line_stride"), PadH), block_stride, 0, Linear)>>,
    <<Chan(2, 1, <<Smp(1, 8, 8), Smp(1, 24, 8)>>), One(1, 0, 8), One(1, offset, 6), NoChan>>)

ByteMega(w, h) ==
  Mega(w, h, <<IF w = 2 THEN 0 ELSE NOT_SET, NOT_SET>>, <<IF w = 2 THEN NOT_SET ELSE 0, IF h = 2 THEN 0 ELSE 1>>)

(* Luma in two reordered planes of a byte per pixel, at the given bases.    *)
TwoOrders(bo1, bo2, base1, base2) ==
  Template(1, 1, "upper_left",
    <<PlaneT(base1, W, Op("mul", W, H), 8, 0, bo1), PlaneT(base2, W, Op("mul", W, H), 8, 0, bo2)>>,
    <<One(1, 0, 8), NoChan, NoChan, One(2, 0, 8)>>)

ZOrder == Mega(2, 2, <<0, NOT_SET>>, <<NOT_SET, 0>>)

Request(w, h, t, mw, mh) == [width |-> w, height |-> h, template |-> t, macro_px_w |-> mw, macro_px_h |-> mh]
WithOwnSiting(sizes, templates) ==
  {Request(wh[1], wh[2], t, t.macro_px_w, t.macro_px_h) : wh \in sizes, t \in templates}

Sizes == (1 .. 4) \X (1 .. 4)

Templates ==
  {YV12(2, 2, Op("div", W, MW)), YV12(2, 1, Op("div", PadW, MW)), IMC1, Cyuv(32, 16), Cyuv(24, 16), Cyuv(32, 25),
   TwoOrders(ZOrder, Linear, Num(0), After(1)),
   TwoOrders(Linear, Linear, Num(0), Num(1)),
   TwoOrders(ZOrder, ZOrder, Num(0), Num(1)),
   TwoOrders(Mega(2, 2, <<0, 0>>, <<NOT_SET, NOT_SET>>), ZOrder, Num(0), After(1)),
   TwoOrders(Linear, ZOrder, After(1), Num(0)),
   YV12(2, 2, Num(0)), YV12(2, 1, [op |-> "bad"]), YV12(1, 1, Op("next_multiple", W, Num(0)))}

SomeRequests == WithOwnSiting(Sizes, Templates) \cup {Request(2, 2, IMC1, 2, 1), Request(2, 2, IMC1, 1, 2)}
=============================================================================
