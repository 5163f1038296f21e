--------------------------- MODULE MCConfigManager --------------------------
EXTENDS Configurations

J(type, value) == [type |-> type, value |-> value]
U(n)    == J("Uint", n)
D(n)    == J("Double", n)
S(text) == J("String", text)
A(list) == J("Array", list)
O(f)    == J("Object", f)

(* A document with some of its fields, and without one of them.            *)
With(doc, fields) == O([f \in DOMAIN doc.value \cup DOMAIN fields |->
                          IF f \in DOMAIN fields THEN fields[f] ELSE doc.value[f]])
Without(doc, field) == O([f \in DOMAIN doc.value \ {field} |-> doc.value[f]])

Sample(plane, bits, offset) ==
  O([plane |-> U(plane), int_bits |-> U(bits), frac_bits |-> U(0), offset |-> U(offset)])
Blk(w, h, samples) == O([block_w |-> U(w), block_h |-> U(h), samples |-> A(samples)])
NoBlk == Blk(0, 0, <<>>)
Pl(block_stride) ==
  O([base_offset |-> S("0"), line_stride |-> S("image_w"), plane_size |-> S("image_w * image_h"),
     block_stride |-> U(block_stride)])
Order(w, h, x_mask, y_mask) ==
  O([mega_block_width |-> U(w), mega_block_height |-> U(h), x_mask |-> A(x_mask), y_mask |-> A(y_mask)])
Dash == S("-")

(* A template of one plane with an alpha channel, its samples those given. *)
Doc(y_samples, plane) ==
  O([origin |-> S("upper_left"), fourcc |-> S("Y8A8"),
     subsampling_mode |-> O([macro_px_w |-> U(1), macro_px_h |-> U(1)]),
     y_block |-> Blk(1, 1, y_samples), u_block |-> NoBlk, v_block |-> NoBlk,
     a_block |-> Blk(1, 1, <<Sample(0, 4, 0)>>), planes |-> A(<<plane>>)])

(* Mega blocks of 4x2 whose swizzles differ in length and symmetry.        *)
Swizzled == Doc(<<Sample(0, 4, 4)>>,
  With(Pl(8), [block_order |-> Order(4, 2, <<U(1), Dash, U(0)>>, <<U(0), Dash>>)]))
(* Luma in two samples, the last of which announces another one.           *)
Dangling == With(Sample(0, 2, 4), [has_continuation |-> J("Bool", TRUE)])
Interleaved == Without(Doc(<<Sample(0, 2, 6), Dangling>>,
  With(Pl(12), [interleave_pattern |-> S("INTERLEAVE_1_3_5__0_2_4")])), "fourcc")

GoodTemplates == {Swizzled, Interleaved}
BadTemplates ==
  {J("malformed", ""), J("cut off", ""), A(<<>>), Without(Swizzled, "v_block"),
   With(Swizzled, [fourcc |-> S("TOOLONG")]), With(Swizzled, [fourcc |-> U(4)]),
   With(Swizzled, [origin |-> S("middle")]), With(Swizzled, [planes |-> A(<<U(1)>>)]),
   With(Swizzled, [planes |-> A(<<With(Pl(8), [interleave_pattern |-> S("odd")])>>)]),
   With(Swizzled, [planes |-> A(<<With(Pl(8), [block_order |-> Order(4, 2, <<U(32)>>, <<U(0)>>)])>>)]),
   With(Swizzled, [planes |-> A(<<With(Pl(8), [block_order |-> Order(4, 2, <<S("x")>>, <<U(0)>>)])>>)]),
   With(Swizzled, [subsampling_mode |-> O([macro_px_w |-> U(256), macro_px_h |-> U(1)])]),
   Doc(<<U(0)>>, Pl(8)), Doc(<<Sample(256, 4, 4)>>, Pl(8)), Doc(<<Sample(0, 260, 4)>>, Pl(8)),
   Doc(<<Sample(1, 4, 4)>>, Pl(8)), Doc(<<Sample(0, 4, 5)>>, Pl(8)), Doc(<<Sample(0, 4, 3)>>, Pl(8)),
   Doc(<<Sample(0, 4, 5), Sample(1, 4, 4)>>, Pl(8))}

Point(x, y) == O([sample_x |-> D(x), sample_y |-> D(y)])
Siting(w, h, u, v) == O([block_width |-> U(w), block_height |-> U(h), u_sample_point |-> u, v_sample_point |-> v])
Siting420 == Siting(2, 2, Point(2, 2), Point(2, 2))
Siting422 == Siting(2, 1, Point(0, 0), Point(0, 0))
BadSitings ==
  {J("malformed", ""), J("cut off", ""), Siting(256, 2, Point(0, 0), Point(0, 0)), Siting(2, 2, Point(5, 0), Point(0, 0)),
   Siting(2, 2, Point(0, 0), O([sample_x |-> U(0), sample_y |-> U(0)])), Without(Siting420, "v_sample_point"), S("420")}

Row(a, b, c) == A(<<D(a), D(b), D(c)>>)
Identity == A(<<Row(4, 0, 0), Row(0, 4, 0), Row(0, 0, 4)>>)
Turned   == A(<<D(4), D(0)>>)
Matrix(to_yuv, y_range) ==
  O([f \in Matrices \cup RangeNames |->
       CASE f = "to_yuv" -> to_yuv [] f = "to_rgb" -> Identity [] f = "y_range" -> y_range [] OTHER -> Turned])
Good == Matrix(Identity, Turned)
BadMatrices ==
  {Matrix(A(<<Row(4, 0, 0)>>), Turned), Matrix(A(<<U(1), U(1), U(1)>>), Turned), Matrix(Identity, A(<<D(0)>>)),
   Matrix(A(<<A(<<D(1)>>), Row(0, 4, 0), Row(0, 0, 4)>>), Turned), Matrix(Identity, A(<<U(0), D(0)>>)),
   J("cut off", ""), A(<<>>), Without(Good, "v_range")}

Docs ==
  [px_fmt |-> GoodTemplates \cup BadTemplates, chroma_siting |-> {Siting420, Siting422} \cup BadSitings,
   rgb_conversion |-> {Good} \cup BadMatrices]
Parsed == [kind \in Kinds |-> {Loaded(kind, doc) : doc \in Docs[kind]} \ Errors]

Subs == {<<1, 1>>, <<2, 2>>, <<2, 1>>, <<0, 0>>}
Sub(item) == IF "macro_px_w" \in DOMAIN item THEN <<item.macro_px_w, item.macro_px_h>> ELSE <<0, 0>>
TwoNames == {"a", "b"}

Pair(a, b) == [name \in TwoNames |-> IF name = "a" THEN a ELSE b]
Tree(t_a, t_b, s_a, s_b, m_a, m_b) ==
  [px_fmt |-> Pair(t_a, t_b), chroma_siting |-> Pair(s_a, s_b), rgb_conversion |-> Pair(m_a, m_b)]

T1 == Loaded("px_fmt", Swizzled)
T2 == Loaded("px_fmt", Interleaved)
S420 == Loaded("chroma_siting", Siting420)
S422 == Loaded("chroma_siting", Siting422)
M1 == Loaded("rgb_conversion", Good)

(* One folder of each tree fails in some way, or none.                     *)
SomeTrees ==
  {Tree(Loaded("px_fmt", doc), T1, S420, S422, M1, Missing) : doc \in BadTemplates}
    \cup {Tree(T2, Missing, Loaded("chroma_siting", doc), S420, M1, Missing) : doc \in BadSitings}
    \cup {Tree(T1, T2, S420, Missing, Loaded("rgb_conversion", doc), M1) : doc \in BadMatrices}
    \cup {Tree(T2, T1, S422, Error("unreadable"), M1, M1), Tree(T1, Missing, Error("dangling link"), S420, M1, Missing),
          Tree(T1, T2, S420, S422, M1, M1)}

=============================================================================
