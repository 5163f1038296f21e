---------------------------- MODULE MCConversion ----------------------------
EXTENDS Conversion

S420  == [mw |-> 2, mh |-> 2, u |-> <<1, 1>>, v |-> <<1, 1>>]
S422  == [mw |-> 2, mh |-> 1, u |-> <<1, 0>>, v |-> <<1, 0>>]
S411  == [mw |-> 4, mh |-> 1, u |-> <<1, 0>>, v |-> <<1, 0>>]
S410  == [mw |-> 4, mh |-> 4, u |-> <<1, 1>>, v |-> <<1, 1>>]
Pal   == [mw |-> 2, mh |-> 2, u |-> <<0, 0>>, v |-> <<0, 2>>]
Beyond == [mw |-> 1, mh |-> 1, u |-> <<1, 1>>, v |-> <<0, 0>>]
Tall  == [mw |-> 1, mh |-> 3, u |-> <<0, 2>>, v |-> <<0, 0>>]

Shape(w, h, siting, channels) == [w |-> w, h |-> h, siting |-> siting, channels |-> channels]
YUV == {ChannelY, ChannelU, ChannelV}

SmallOriginals ==
  {Shape(4, 4, st, YUV) : st \in {Full, S420, S410}}
    \cup {Shape(5, 3, st, YUV) : st \in {Full, S420, Pal}}
    \cup {Shape(4, 4, Full, {ChannelY}), Shape(2, 2, S420, Channels), Shape(5, 3, S411, {ChannelU})}

SmallTargets ==
  {Shape(4, 4, st, YUV) : st \in {Full, S420, S422, S410, Beyond}}
    \cup {Shape(5, 3, st, Channels) : st \in {Full, S420, Pal, Tall}}
    \cup {Shape(4, 4, S411, {ChannelY, ChannelV}), Shape(3, 3, S420, {ChannelY})}
=============================================================================
