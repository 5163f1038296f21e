------------------------------- MODULE MCTools ------------------------------
EXTENDS Tools

Path(stem, suffix) == [stem |-> stem, suffix |-> suffix]
Photo == Path("photo", "raw")
Scan  == Path("scan", "bin")
Short == Path("short", "yuv")
Dump  == Path("dump", "hex")
Old   == Path("old", "xyuv")
Image == Path("image", "png")
Bare  == Path("bare", "")
New   == Path("new", "xyuv")
Lock  == Path("lock", "raw")
Full  == Path("full", "xyuv")

SmallTemplates ==
  [grey |-> [subsampling |-> "1x1", origin |-> "upper_left", depth |-> 1, valid |-> TRUE],
   deep |-> [subsampling |-> "1x1", origin |-> "lower_left", depth |-> 2, valid |-> TRUE],
   half |-> [subsampling |-> "2x1", origin |-> "upper_left", depth |-> 1, valid |-> TRUE],
   torn |-> [subsampling |-> "1x1", origin |-> "upper_left", depth |-> 1, valid |-> FALSE]]
SmallSitings == [s444 |-> "1x1", s422 |-> "2x1"]

Buffer(name, bytes, zeros) == [id |-> <<name>>, bytes |-> bytes, zeros |-> zeros]

SmallFiles ==
  LET format == [template |-> "grey", siting |-> PointsOf("s444"), matrix |-> "bt601", w |-> 3, h |-> 1,
                 origin |-> "upper_left", size |-> 3]
      content(p) ==
        CASE p = Photo -> <<[kind |-> "bytes", data |-> Buffer("photo", 12, 0)]>>
          [] p = Scan  -> <<[kind |-> "bytes", data |-> Buffer("scan", 7, 0)]>>
          [] p = Short -> <<[kind |-> "bytes", data |-> Buffer("short", 2, 0)]>>
          [] p = Dump  -> <<[kind |-> "hex", data |-> Buffer("dump", 6, 2)]>>
          [] p = Old   -> <<[kind |-> "frame", frame |-> [format |-> format, data |-> Buffer("old", 3, 0)]]>>
          [] p = Bare  -> <<>>
  IN  [p \in {Photo, Scan, Short, Dump, Old, Bare} |-> content(p)]

Header(inputs, outputs, templates, sitings, w, h) ==
  [prog |-> "header", inputs |-> inputs, outputs |-> outputs, templates |-> templates, sitings |-> sitings,
   matrices |-> <<"bt601">>, w |-> w, h |-> h, cat |-> FALSE, writeout |-> TRUE, meta |-> FALSE, flip |-> FALSE]
Cat(c) == [c EXCEPT !.cat = TRUE]
Meta(c) == [c EXCEPT !.meta = TRUE]
Flip(c) == [c EXCEPT !.flip = TRUE]
NoWriteout(c) == [c EXCEPT !.writeout = FALSE]
Encode(in, out, t, st) == [Header(<<in>>, <<out>>, <<t>>, <<st>>, 0, 0) EXCEPT !.prog = "encode"]
Decode(in, out, t, w, h) == [Header(<<in>>, <<out>>, t, [k \in DOMAIN t |-> "s444"], w, h) EXCEPT !.prog = "decode"]

Batches ==
  {Header(<<Photo, Scan>>, <<>>, <<"grey">>, <<"s444">>, 3, 2),
   Header(<<Photo, Scan, Dump>>, <<Path("x", "hex"), Lock, New>>, <<"deep", "grey", "half">>, <<"s444", "s444", "s422">>, 5, 1),
   Header(<<Photo, Scan>>, <<New>>, <<"grey">>, <<"s444">>, 3, 2),
   Header(<<Photo, Old>>, <<Old, New>>, <<"grey">>, <<"s444">>, 3, 2),
   Header(<<Photo, Scan>>, <<New, New>>, <<"grey">>, <<"s444">>, 3, 2),
   Header(<<Photo, Short, Scan>>, <<>>, <<"grey">>, <<"s444">>, 5, 1),
   Header(<<Scan, Dump>>, <<Full, Path("y", "raw")>>, <<"grey">>, <<"s444">>, 7, 1),
   Header(<<Scan, Dump>>, <<>>, <<"grey", "half">>, <<"s444">>, 3, 1),
   Header(<<Scan, Photo>>, <<New, Image>>, <<"grey", "torn">>, <<"s444">>, 3, 1),
   Header(<<Old>>, <<>>, <<"grey">>, <<"s444">>, 3, 1),
   Header(<<Photo>>, <<New>>, <<"grey">>, <<"s444">>, 4, 4),
   Header(<<Bare>>, <<New>>, <<"grey">>, <<"s444">>, 3, 1),
   Header(<<New>>, <<Path("x", "hex")>>, <<"nonsense">>, <<"s444">>, 3, 1),
   Meta(Header(<<New, Scan>>, <<Path("x", "raw"), Path("z", "yuv")>>, <<"grey">>, <<"s444">>, 3, 1)),
   Meta(Header(<<Path("x", "raw"), Path("x", "hex")>>, <<Image, Path("y", "bin")>>, <<"grey">>, <<"s444">>, 3, 1)),
   Flip(Header(<<New, Path("x", "hex")>>, <<Full, Path("z", "xyuv")>>, <<"grey">>, <<"s444">>, 5, 1))}

Concatenations ==
  {Cat(Header(<<Photo, Scan>>, <<New>>, <<"grey">>, <<"s444">>, 3, 2)),
   Cat(Header(<<Scan, Short, Photo>>, <<Full>>, <<"grey">>, <<"s444">>, 2, 1)),
   Cat(Header(<<Old, Photo>>, <<Old, New>>, <<"grey">>, <<"s444">>, 3, 1)),
   Cat(Header(<<Scan, Photo>>, <<Full, New>>, <<"grey">>, <<"s444">>, 3, 1)),
   Cat(Header(<<Scan, Photo, Old, Dump>>, <<New>>, <<"grey", "grey", "grey", "half">>, <<"s444", "s444", "s444", "s444">>, 3, 1)),
   Cat(Header(<<Dump, Photo>>, <<>>, <<"grey">>, <<"s444">>, 7, 1)),
   Cat(Header(<<Scan>>, <<Lock>>, <<"grey">>, <<"s444">>, 3, 1)),
   Cat(Header(<<>>, <<>>, <<"grey">>, <<"s444">>, 3, 1)),
   NoWriteout(Cat(Header(<<Scan>>, <<>>, <<"grey">>, <<"s444">>, 3, 1))),
   NoWriteout(Header(<<Scan, Old>>, <<>>, <<"grey">>, <<"s444">>, 3, 1))}

Conversions ==
  {Encode(Old, New, "deep", "s444"), Meta(Encode(New, Path("x", "hex"), "half", "s422")),
   Meta(Encode(Old, Full, "half", "s444")), Meta(Encode(Old, Full, "grey", "s444")),
   Meta(Encode(Old, Path("t", "yuv"), "grey", "s444")),
   Encode(Scan, New, "grey", "s444"), Encode(Old, Old, "nonsense", "s444"), Encode(Bare, New, "grey", "s444"),
   Decode(Old, Old, <<>>, 0, 0), Decode(Path("x", "hex"), Path("y", "raw"), <<"grey">>, 3, 1),
   Decode(New, Image, <<>>, 0, 0), Decode(New, Path("x", "bin"), <<"grey">>, 3, 2),
   Flip(Decode(Full, Path("x", "hex"), <<>>, 0, 0)), Decode(Scan, Full, <<"grey">>, 7, 1),
   Decode(Scan, New, <<"grey">>, 0, 0)}

SmallCommands == Batches \cup Concatenations \cup Conversions
NotWritable == {Lock, Path("z", "yuv.json"), Path("t", "yuv.json")}
MayBeFull == {Full, Path("y", "raw")}
=============================================================================
