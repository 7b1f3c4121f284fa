------------------------ MODULE MCAreaBasedQuadTree --------------------------
(***************************************************************************)
(* Instances of AreaBasedQuadTree over an 8 by 8 space, so that nodes of   *)
(* three sizes split.                                                      *)
(***************************************************************************)
EXTENDS AreaBasedQuadTree

\* The key of a pair of prefixes, each given by address and length.
Pair(dest, destLen, src, srcLen) ==
  RectangleOf(RangeOf(dest, 2 ^ (AddressBits - destLen)),
              RangeOf(src, 2 ^ (AddressBits - srcLen)))

\* Rectangles that cross the root, a quarter or a sixteenth, in x and in y, and
\* enough others in one quarter to split it, and one in another quarter.
MCKeys ==
  {Pair(0, 0, 4, 1), Pair(4, 2, 0, 0),
   Pair(0, 1, 2, 2), Pair(0, 1, 0, 3), Pair(2, 2, 0, 1),
   Pair(0, 2, 0, 2), Pair(0, 2, 0, 3), Pair(1, 3, 1, 3),
   Pair(4, 2, 6, 2)}

\* Keys that prefixPairToRectangle makes, one of them of a host's prefix.
HostKeys ==
  {PrefixPairToRectangle([addr |-> addr, len |-> len], DefaultPrefix) :
     addr \in {0, 4}, len \in {1, AddressBits}}
==============================================================================
