---------------------------- MODULE MCPixelPacker ---------------------------
EXTENDS PixelPacker, SmallFormats

WholeBlockFormats ==
  {Planar420("upper_left"), Planar420("lower_left"), SideBySide, Packed422, Blocks2x2,
   Split("upper_left"), Split("lower_left"), Swizzled(2, 4, 2), Swizzled(4, 8, 4)}
    \cup {SemiPlanar(mode) : mode \in InterleaveModes}

IrregularFormats == {HalfABlock, BrokenBlocks2x2, StrayBytes, StrayBytesRotated, UnevenMegaLine}
=============================================================================
