----------------------------- MODULE PrefixPairs -----------------------------
(***************************************************************************)
(* Address ranges and prefix pairs, the values on which the route and      *)
(* policy engine of an SDX works (package aqt of the controller).          *)
(*                                                                         *)
(* A prefix is what is written: an address and a length, "10.0.0.5/24"     *)
(* being another way to write "10.0.0.0/24".  A range is a start and a     *)
(* length; the range of a prefix is the block of addresses it stands for.  *)
(* A prefix pair <destination, source> is a rectangle: x is the            *)
(* destination range and y the source range.                               *)
(***************************************************************************)
EXTENDS Integers

CONSTANT AddressBits     \* width of an address; 32 in the code

\* The conjuncts about powers are arithmetic that the provers do not do
\* themselves.
ASSUME AddressBitsAssumption ==
  /\ AddressBits \in Nat /\ AddressBits >= 2
  /\ 2 ^ AddressBits \in Nat
  /\ 2 ^ AddressBits > 2
  /\ \A i \in 0..AddressBits : 2 ^ i \in Nat
  /\ \A i, j \in 0..AddressBits : i <= j => 2 ^ j = 2 ^ (j - i) * 2 ^ i
  /\ \A i, j \in 0..AddressBits : i < j => 2 ^ i < 2 ^ j

Prefixes == [addr : 0..(2 ^ AddressBits - 1), len : 0..AddressBits]

\* The prefixes with host addresses, all but the two longest lengths.
HostPrefixes == {p \in Prefixes : 2 ^ (AddressBits - p.len) > 2}

\* DEFAULT_PREFIX, "0.0.0.0/0".
DefaultPrefix == [addr |-> 0, len |-> 0]

Ranges == [start : Int, length : Nat]

Rectangles == [x : Ranges, y : Ranges]

RangeOf(start, length) == [start |-> start, length |-> length]

RectangleOf(destRange, srcRange) == [x |-> destRange, y |-> srcRange]

\* The whole address space, the range of DefaultPrefix.
DefaultRange == RangeOf(0, 2 ^ AddressBits)

(***************************************************************************)
(* prefixToRange of the prefix that has the given length and starts at     *)
(* address addr.  SubnetUtils counts host addresses without the network    *)
(* and broadcast addresses, and reports a low address of 0.0.0.0 and a     *)
(* count of 0 when the block has no host, that is for the two longest      *)
(* prefix lengths: the code's "- 1" and "+ 2" then give [-1, 1).           *)
(***************************************************************************)
PrefixToRange(addr, len) ==
  LET size == 2 ^ (AddressBits - len)
  IN  IF size > 2 THEN RangeOf(addr - (addr % size), size)
                  ELSE RangeOf(-1, 2)

\* The ranges of all prefixes.
PrefixRanges ==
  {PrefixToRange(addr, len) : addr \in 0..(2 ^ AddressBits - 1), len \in 0..AddressBits}

PrefixRangeAt ==
  [addr \in 0..(2 ^ AddressBits - 1) |-> [len \in 0..AddressBits |-> PrefixToRange(addr, len)]]

PrefixRange(p) == PrefixRangeAt[p.addr][p.len]

\* Whether a prefix is written with its network address (normalizePrefix).
Normal(p) == p.addr = PrefixRange(p).start

PrefixPairToRectangle(dest, src) == RectangleOf(PrefixRange(dest), PrefixRange(src))

Covers(r, q) ==
  /\ r.start <= q.start
  /\ r.start + r.length >= q.start + q.length

RangesMeet(r, q) ==
  /\ r.start < q.start + q.length
  /\ q.start < r.start + r.length

Larger(i, j) == IF i >= j THEN i ELSE j
Smaller(i, j) == IF i <= j THEN i ELSE j

\* A mutation: the length with its two ends swapped.
MeetOfRangesSwapped(r, q) ==
  LET low  == Larger(r.start, q.start)
      high == Smaller(r.start + r.length, q.start + q.length)
  IN  RangeOf(low, low - high)

MeetOfRanges(r, q) ==
  LET low  == Larger(r.start, q.start)
      high == Smaller(r.start + r.length, q.start + q.length)
  IN  RangeOf(low, high - low)

\* Rectangle.intersect returns null exactly when this is false ...
Meets(a, b) == RangesMeet(a.x, b.x) /\ RangesMeet(a.y, b.y)

\* ... and otherwise this rectangle.
Intersect(a, b) == RectangleOf(MeetOfRanges(a.x, b.x), MeetOfRanges(a.y, b.y))

Contains(a, b) == Covers(a.x, b.x) /\ Covers(a.y, b.y)

(***************************************************************************)
(* Priorities.  compareInbound ranks the narrower destination first, then  *)
(* the narrower source; compareOutbound the narrower source first, then    *)
(* the narrower destination.  InboundAtLeast(a, b) is                      *)
(* a.compareInbound(b) >= 0 and InboundAbove(a, b) is > 0.                 *)
(***************************************************************************)
InboundAbove(a, b) ==
  \/ a.x.length < b.x.length
  \/ a.x.length = b.x.length /\ a.y.length < b.y.length

InboundAtLeast(a, b) == ~ InboundAbove(b, a)

OutboundAbove(a, b) ==
  \/ a.y.length < b.y.length
  \/ a.y.length = b.y.length /\ a.x.length < b.x.length

OutboundAtLeast(a, b) == ~ OutboundAbove(b, a)
==============================================================================
