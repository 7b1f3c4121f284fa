------------------------ MODULE AdvertiseEngine_proofs -----------------------
(***************************************************************************)
(* Lemmas about prefix pairs and about the operators of the route and      *)
(* policy engine: what the keys, the matches and the tables of a call are. *)
(***************************************************************************)
EXTENDS AdvertiseEngine, TLAPS, WellFoundedInduction

------------------------------------------------------------------------------
(***************************************************************************)
(* Prefix pairs and keys.                                                  *)
(***************************************************************************)

\* The intersection of two prefix pairs that meet is a prefix pair.
LEMMA IntersectType ==
  ASSUME NEW a \in Rectangles, NEW b \in Rectangles, Meets(a, b)
  PROVE  Intersect(a, b) \in Rectangles
BY DEF Rectangles, Ranges, Meets, RangesMeet, Intersect, RectangleOf,
       MeetOfRanges, RangeOf, Larger, Smaller

\* The intersection of two prefix pairs lies in each of them.
LEMMA IntersectContained ==
  ASSUME NEW a \in Rectangles, NEW b \in Rectangles, Meets(a, b)
  PROVE  Contains(a, Intersect(a, b)) /\ Contains(b, Intersect(a, b))
BY DEF Rectangles, Ranges, Meets, RangesMeet, Intersect, RectangleOf,
       MeetOfRanges, RangeOf, Larger, Smaller, Contains, Covers

\* The intersection with a range that covers the other is the other.
LEMMA MeetOfCovered ==
  ASSUME NEW r \in Ranges, NEW q \in Ranges, Covers(q, r)
  PROVE  MeetOfRanges(r, q) = r
<1>1. Larger(r.start, q.start) = r.start
  BY DEF Covers, Larger, Ranges
<1>2. Smaller(r.start + r.length, q.start + q.length) = r.start + r.length
  BY DEF Covers, Smaller, Ranges
<1> DEFINE low  == Larger(r.start, q.start)
           high == Smaller(r.start + r.length, q.start + q.length)
<1>3. MeetOfRanges(r, q) = [start |-> low, length |-> high - low]
  BY DEF MeetOfRanges, RangeOf
<1>4. r = [start |-> r.start, length |-> r.length]
  BY DEF Ranges
<1>5. low = r.start /\ high = r.start + r.length
  BY <1>1, <1>2
<1> HIDE DEF low, high
<1>6. high - low = r.length
  BY <1>5 DEF Ranges
<1> QED BY <1>3, <1>4, <1>5, <1>6

\* Multiples of a size that are less than the size apart are equal.
LEMMA SameMultiple ==
  ASSUME NEW m \in Int, NEW n \in Int, NEW size \in Nat, size > 0,
         m * size - n * size < size, n * size - m * size < size
  PROVE  m = n
<1>1. ASSUME NEW i \in Int, NEW j \in Int, i > j PROVE i * size - j * size >= size
  <2>1. i - j - 1 \in Nat
    BY <1>1
  <2>2. (i - j - 1) * size >= 0
    BY <2>1
  <2>3. (i - j - 1) * size = i * size - j * size - size
    OBVIOUS
  <2> QED BY <2>2, <2>3
<1>2. ~ (m > n)
  BY <1>1
<1>3. ~ (n > m)
  BY <1>1
<1> QED BY <1>2, <1>3

\* The start of a block is a multiple of its size.
LEMMA BlockStart ==
  ASSUME NEW addr \in Nat, NEW size \in Nat, size > 0
  PROVE  \E n \in Int : addr - (addr % size) = n * size
<1>1. addr = size * (addr \div size) + (addr % size) /\ addr \div size \in Int
  OBVIOUS
<1>2. addr - (addr % size) = (addr \div size) * size
  BY <1>1
<1> QED BY <1>1, <1>2

\* What a prefix range is: a block, or the range of a prefix without hosts.
LEMMA PrefixRangeIs ==
  ASSUME NEW q \in PrefixRanges, q \in Ranges
  PROVE  /\ q.length > 1
         /\ \/ q.length > 2 /\ \E n \in Int : q.start = n * q.length
            \/ q.length = 2 /\ q.start = -1
<1>1. PICK addr \in 0..(2 ^ AddressBits - 1), len \in 0..AddressBits :
        q = PrefixToRange(addr, len)
  BY DEF PrefixRanges
<1>2. addr \in Nat
  BY AddressBitsAssumption
<1> DEFINE size == 2 ^ (AddressBits - len)
<1>3. CASE size > 2
  <2>1. q.start = addr - (addr % size) /\ q.length = size
    BY <1>1, <1>3 DEF PrefixToRange, RangeOf
  <2>2. size \in Nat /\ size > 0
    BY <1>3, <2>1 DEF Ranges
  <2>3. \E n \in Int : addr - (addr % size) = n * size
    <3> HIDE DEF size
    <3> QED BY <1>2, <2>2, BlockStart
  <2> QED BY <1>3, <2>1, <2>2, <2>3
<1>4. CASE ~ (size > 2)
  BY <1>1, <1>4 DEF PrefixToRange, RangeOf
<1> QED BY <1>3, <1>4

\* Prefix ranges of one length that meet are the same.
LEMMA PrefixesAligned ==
  ASSUME NEW q \in PrefixRanges, NEW r \in PrefixRanges, q \in Ranges, r \in Ranges,
         q.length = r.length, RangesMeet(q, r)
  PROVE  q = r
<1>1. /\ \/ q.length > 2 /\ \E n \in Int : q.start = n * q.length
         \/ q.length = 2 /\ q.start = -1
      /\ \/ r.length > 2 /\ \E n \in Int : r.start = n * r.length
         \/ r.length = 2 /\ r.start = -1
  BY PrefixRangeIs
<1>2. q.start \in Int /\ r.start \in Int /\ q.length \in Nat
  BY DEF Ranges
<1>3. q.start = r.start
  <2>1. CASE q.length > 2
    <3> DEFINE size == q.length
    <3>1. PICK m \in Int : q.start = m * size
      BY <1>1, <2>1
    <3>2. PICK n \in Int : r.start = n * size
      BY <1>1, <2>1
    <3>3. q.start - r.start < size /\ r.start - q.start < size
      BY <1>2 DEF RangesMeet
    <3> HIDE DEF size
    <3>4. m * size - n * size < size /\ n * size - m * size < size
      BY <3>1, <3>2, <3>3
    <3>5. size \in Nat /\ size > 0
      BY <1>2, <2>1 DEF size
    <3>6. m = n
      BY <3>4, <3>5, SameMultiple
    <3> QED BY <3>1, <3>2, <3>6
  <2>2. CASE ~ (q.length > 2)
    BY <1>1, <2>2
  <2> QED BY <2>1, <2>2
<1> QED BY <1>3 DEF Ranges

LEMMA DefaultIsPrefix == DefaultRange \in PrefixRanges
<1> DEFINE size == 2 ^ AddressBits
<1>1. size \in Nat /\ size > 2 /\ 0 \in 0..(size - 1) /\ 0 \in 0..AddressBits
  BY AddressBitsAssumption
<1>2. AddressBits - 0 = AddressBits
  BY AddressBitsAssumption
<1>3. PrefixToRange(0, 0) = RangeOf(0 - (0 % size), size)
  BY <1>1, <1>2 DEF PrefixToRange
<1>4. 0 - (0 % size) = 0
  <2> HIDE DEF size
  <2> QED BY <1>1
<1> QED BY <1>1, <1>3, <1>4 DEF PrefixRanges, DefaultRange

\* Meeting is symmetric, and so is the intersection.
LEMMA IntersectCommutes ==
  ASSUME NEW a \in Rectangles, NEW b \in Rectangles
  PROVE  /\ Meets(a, b) <=> Meets(b, a)
         /\ Intersect(a, b) = Intersect(b, a)
BY DEF Rectangles, Ranges, Meets, RangesMeet, Intersect, RectangleOf,
       MeetOfRanges, RangeOf, Larger, Smaller

\* Both priorities are total preorders on prefix pairs.
LEMMA PrioritiesOrder ==
  ASSUME NEW a \in Rectangles, NEW b \in Rectangles, NEW c \in Rectangles
  PROVE  /\ OutboundAtLeast(a, b) /\ OutboundAtLeast(b, c) => OutboundAtLeast(a, c)
         /\ InboundAtLeast(a, b) /\ InboundAtLeast(b, c) => InboundAtLeast(a, c)
         /\ OutboundAbove(a, b) /\ OutboundAtLeast(b, c) => OutboundAbove(a, c)
         /\ InboundAbove(a, b) /\ InboundAtLeast(b, c) => InboundAbove(a, c)
         /\ OutboundAtLeast(a, a) /\ InboundAtLeast(a, a)
BY DEF Rectangles, Ranges, OutboundAtLeast, OutboundAbove, InboundAtLeast, InboundAbove

LEMMA DefaultRangeType == DefaultRange \in Ranges
BY AddressBitsAssumption DEF DefaultRange, RangeOf, Ranges

\* The range of a prefix is one of the prefix ranges.
LEMMA PrefixRangeType ==
  ASSUME NEW p \in Prefixes
  PROVE  /\ PrefixRange(p) = PrefixToRange(p.addr, p.len)
         /\ PrefixRange(p) \in PrefixRanges
         /\ PrefixRange(p) \in Ranges
<1>1. p.addr \in 0..(2 ^ AddressBits - 1) /\ p.len \in 0..AddressBits
  BY DEF Prefixes
<1>2. PrefixRange(p) = PrefixToRange(p.addr, p.len)
  BY <1>1 DEF PrefixRange, PrefixRangeAt
<1>3. PrefixRange(p) \in PrefixRanges
  BY <1>1, <1>2 DEF PrefixRanges
<1> DEFINE size == 2 ^ (AddressBits - p.len)
<1>4. AddressBits - p.len \in 0..AddressBits
  BY <1>1, AddressBitsAssumption
<1>5. size \in Nat /\ p.addr \in Nat
  BY <1>1, <1>4, AddressBitsAssumption
<1>6. CASE size > 2
  <2>1. PrefixToRange(p.addr, p.len) = RangeOf(p.addr - (p.addr % size), size)
    BY <1>6 DEF PrefixToRange
  <2>2. p.addr - (p.addr % size) \in Int
    <3> HIDE DEF size
    <3> QED BY <1>5, <1>6
  <2> HIDE DEF size
  <2> QED BY <1>2, <1>3, <1>5, <2>1, <2>2 DEF RangeOf, Ranges
<1>7. CASE ~ (size > 2)
  <2>1. PrefixToRange(p.addr, p.len) = RangeOf(-1, 2)
    BY <1>7 DEF PrefixToRange
  <2> QED BY <1>2, <1>3, <2>1 DEF RangeOf, Ranges
<1> QED BY <1>2, <1>3, <1>6, <1>7

\* The range of a prefix with hosts is the block of its length it lies in.
LEMMA HostRange ==
  ASSUME NEW p \in HostPrefixes
  PROVE  /\ p \in Prefixes
         /\ PrefixRange(p).length = 2 ^ (AddressBits - p.len)
         /\ PrefixRange(p).length > 2
         /\ \E n \in Int : PrefixRange(p).start = n * PrefixRange(p).length
<1> DEFINE size == 2 ^ (AddressBits - p.len)
<1>1. p \in Prefixes /\ size > 2
  BY DEF HostPrefixes
<1>2. PrefixRange(p).length = size
  BY <1>1, PrefixRangeType DEF PrefixToRange, RangeOf
<1> HIDE DEF size
<1>3. \E n \in Int : PrefixRange(p).start = n * PrefixRange(p).length
  BY <1>1, <1>2, PrefixRangeType, PrefixRangeIs
<1> QED BY <1>1, <1>2, <1>3 DEF size

LEMMA DefaultIsHost ==
  /\ DefaultPrefix \in HostPrefixes
  /\ PrefixRange(DefaultPrefix) = DefaultRange
<1> DEFINE size == 2 ^ AddressBits
<1>1. size \in Nat /\ size > 2 /\ 0 \in 0..(size - 1) /\ 0 \in 0..AddressBits
  BY AddressBitsAssumption
<1>2. AddressBits - 0 = AddressBits
  BY AddressBitsAssumption
<1>3. DefaultPrefix \in Prefixes
  BY <1>1 DEF Prefixes, DefaultPrefix
<1>4. DefaultPrefix \in HostPrefixes
  BY <1>1, <1>2, <1>3 DEF HostPrefixes, DefaultPrefix
<1>5. PrefixToRange(0, 0) = RangeOf(0 - (0 % size), size)
  BY <1>1, <1>2 DEF PrefixToRange
<1>6. 0 - (0 % size) = 0
  <2> HIDE DEF size
  <2> QED BY <1>1
<1>7. PrefixRange(DefaultPrefix) = PrefixToRange(0, 0)
  BY <1>3, PrefixRangeType DEF DefaultPrefix
<1> QED BY <1>4, <1>5, <1>6, <1>7 DEF DefaultRange

LEMMA KeyTypes ==
  /\ \A r \in RouteAdvertises : RouteKey(r) \in Rectangles
  /\ \A p \in PolicyAdvertises \cup {DefaultPolicy} : PolicyKey(p) \in Rectangles
<1>1. \A d, c \in Prefixes : PrefixPairToRectangle(d, c) \in Rectangles
  BY PrefixRangeType DEF PrefixPairToRectangle, RectangleOf, Rectangles
<1>2. DefaultPrefix \in Prefixes
  BY DefaultIsHost, HostRange
<1>3. ASSUME NEW r \in RouteAdvertises PROVE RouteKey(r) \in Rectangles
  BY <1>1, <1>2 DEF RouteAdvertises, RouteKey
<1>4. ASSUME NEW p \in PolicyAdvertises PROVE PolicyKey(p) \in Rectangles
  BY <1>1 DEF PolicyAdvertises, PolicyKey
<1>5. PolicyKey(DefaultPolicy) \in Rectangles
  BY <1>1, <1>2 DEF DefaultPolicy, PolicyKey
<1> QED BY <1>3, <1>4, <1>5

------------------------------------------------------------------------------
(***************************************************************************)
(* Keys of the forwarding table.  Of two prefixes that meet the longer one *)
(* lies in the other, so that what is written as the key stands for the    *)
(* intersection, for prefixes with hosts.                                  *)
(***************************************************************************)
LEMMA NextMultiple ==
  ASSUME NEW m \in Int, NEW n \in Int, NEW size \in Nat, size > 0, m * size < n * size
  PROVE  m * size + size <= n * size
<1>1. n > m
  <2> SUFFICES ASSUME m >= n PROVE FALSE
    OBVIOUS
  <2>1. m - n \in Nat
    OBVIOUS
  <2>2. (m - n) * size >= 0
    BY <2>1
  <2>3. (m - n) * size = m * size - n * size
    OBVIOUS
  <2>4. m * size \in Int /\ n * size \in Int
    OBVIOUS
  <2> QED BY <2>2, <2>3, <2>4
<1>2. n - m - 1 \in Nat
  BY <1>1
<1>3. (n - m - 1) * size >= 0
  BY <1>2
<1>4. (n - m - 1) * size = n * size - m * size - size
  OBVIOUS
<1>5. m * size \in Int /\ n * size \in Int
  OBVIOUS
<1> QED BY <1>3, <1>4, <1>5

LEMMA PrefixesNest ==
  ASSUME NEW a \in HostPrefixes, NEW b \in HostPrefixes, a.len <= b.len,
         RangesMeet(PrefixRange(a), PrefixRange(b))
  PROVE  Covers(PrefixRange(a), PrefixRange(b))
<1> DEFINE sa == PrefixRange(a).length
           sb == PrefixRange(b).length
           k  == 2 ^ (b.len - a.len)
<1>1. /\ AddressBits - a.len \in 0..AddressBits
      /\ AddressBits - b.len \in 0..AddressBits
      /\ AddressBits - b.len <= AddressBits - a.len
      /\ b.len - a.len \in 0..AddressBits
      /\ (AddressBits - a.len) - (AddressBits - b.len) = b.len - a.len
  BY AddressBitsAssumption DEF HostPrefixes, Prefixes
<1>2. 2 ^ (AddressBits - a.len) = k * 2 ^ (AddressBits - b.len) /\ k \in Nat
  BY <1>1, AddressBitsAssumption
<1>3. sa = k * sb /\ k \in Int
  BY <1>2, HostRange
<1>4. /\ sb \in Nat /\ sb > 0 /\ sa \in Nat
      /\ PrefixRange(a).start \in Int /\ PrefixRange(b).start \in Int
  BY HostRange, PrefixRangeType DEF Ranges
<1>5. PICK i \in Int : PrefixRange(a).start = i * sa
  BY HostRange
<1>6. PICK j \in Int : PrefixRange(b).start = j * sb
  BY HostRange
<1> HIDE DEF k
<1>7. PrefixRange(a).start < PrefixRange(b).start + sb
      /\ PrefixRange(b).start < PrefixRange(a).start + sa
  BY DEF RangesMeet
<1> HIDE DEF sa, sb
<1>8. PrefixRange(a).start = (i * k) * sb /\ i * k \in Int
  BY <1>3, <1>4, <1>5
<1>9. PrefixRange(a).start + sa = (i * k + k) * sb
  BY <1>3, <1>4, <1>8
<1>10. PrefixRange(b).start + sb = (j + 1) * sb
  BY <1>4, <1>6
<1>11. PrefixRange(a).start + sb <= PrefixRange(b).start + sb
  <2>1. (i * k) * sb < (j + 1) * sb
    BY <1>7, <1>8, <1>10
  <2> QED BY <1>4, <1>8, <1>10, <2>1, NextMultiple
<1>12. PrefixRange(b).start + sb <= PrefixRange(a).start + sa
  <2>1. j * sb < (i * k + k) * sb
    BY <1>6, <1>7, <1>9
  <2>2. i * k + k \in Int
    BY <1>3, <1>8
  <2> QED BY <1>4, <1>6, <1>9, <2>1, <2>2, NextMultiple
<1> QED BY <1>4, <1>11, <1>12 DEF Covers, sa, sb

\* The intersection with a range that lies in this one.
LEMMA MeetOfCovering ==
  ASSUME NEW r \in Ranges, NEW q \in Ranges, Covers(r, q)
  PROVE  MeetOfRanges(r, q) = q
<1>1. MeetOfRanges(r, q) = MeetOfRanges(q, r)
  BY DEF MeetOfRanges, Larger, Smaller, Ranges
<1> QED BY <1>1, MeetOfCovered

LEMMA OverlapIsMeet ==
  ASSUME NEW a \in HostPrefixes, NEW b \in HostPrefixes,
         RangesMeet(PrefixRange(a), PrefixRange(b))
  PROVE  /\ OverlapPrefix(a, b) \in {a, b}
         /\ PrefixRange(OverlapPrefix(a, b)) = MeetOfRanges(PrefixRange(a), PrefixRange(b))
<1>1. /\ a # NoPrefix /\ b # NoPrefix
      /\ a.len \in Int /\ b.len \in Int
      /\ PrefixRange(a) \in Ranges /\ PrefixRange(b) \in Ranges
  BY NullAssumption, AddressBitsAssumption, HostRange, PrefixRangeType DEF Prefixes
<1>2. OverlapPrefix(a, b) = IF a.len < b.len THEN b ELSE a
  BY <1>1 DEF OverlapPrefix
<1>3. RangesMeet(PrefixRange(b), PrefixRange(a))
  BY DEF RangesMeet
<1>4. CASE a.len < b.len
  <2>1. Covers(PrefixRange(a), PrefixRange(b))
    BY <1>1, <1>4, PrefixesNest
  <2> QED BY <1>1, <1>2, <1>4, <2>1, MeetOfCovering
<1>5. CASE ~ (a.len < b.len)
  <2>1. Covers(PrefixRange(b), PrefixRange(a))
    BY <1>1, <1>3, <1>5, PrefixesNest
  <2> QED BY <1>1, <1>2, <1>5, <2>1, MeetOfCovered
<1> QED BY <1>4, <1>5

\* Advertisements whose prefixes have hosts.
HostPolicy(p) == p.dest \in HostPrefixes /\ p.src \in HostPrefixes
HostRoute(r) == r.dest \in HostPrefixes /\ r.src \in HostPrefixes \cup {NoPrefix}

\* The source prefix that a route without one stands for.
SourceOf(r) == IF r.src = NoPrefix THEN DefaultPrefix ELSE r.src

\* The default prefix covers every prefix.
LEMMA DefaultCovers ==
  ASSUME NEW p \in HostPrefixes
  PROVE  /\ Covers(DefaultRange, PrefixRange(p))
         /\ RangesMeet(DefaultRange, PrefixRange(p))
<1> DEFINE size == 2 ^ (AddressBits - p.len)
           all  == 2 ^ AddressBits
<1>1. p \in Prefixes /\ p.addr \in 0..(all - 1) /\ p.len \in 0..AddressBits
  BY HostRange DEF Prefixes
<1>2. /\ AddressBits - p.len \in 0..AddressBits /\ AddressBits \in 0..AddressBits
      /\ AddressBits - p.len <= AddressBits
      /\ AddressBits - (AddressBits - p.len) = p.len
  BY <1>1, AddressBitsAssumption
<1>3. all = 2 ^ p.len * size /\ all \in Nat /\ all > 2
      /\ size \in Nat /\ 2 ^ p.len \in Nat
  BY <1>1, <1>2, AddressBitsAssumption
<1>4. size > 2 /\ PrefixRange(p) = RangeOf(p.addr - (p.addr % size), size)
  BY <1>1, PrefixRangeType DEF HostPrefixes, PrefixToRange
<1> DEFINE k == 2 ^ p.len
<1>5. DefaultRange = RangeOf(0, all)
  BY DEF DefaultRange
<1> HIDE DEF size, all, k
<1>6. PICK n \in Int : p.addr - (p.addr % size) = n * size
  <2>1. p.addr \in Nat /\ size > 0
    BY <1>1, <1>3, <1>4
  <2> QED BY <1>3, <2>1, BlockStart
<1>7. p.addr \in Nat /\ p.addr % size \in Nat /\ p.addr % size <= p.addr
      /\ p.addr - (p.addr % size) <= p.addr
  <2>1. p.addr \in Nat
    BY <1>1, <1>3
  <2>2. p.addr % size \in Nat /\ p.addr % size <= p.addr
    BY <2>1, <1>3, <1>4
  <2> QED BY <2>1, <2>2
<1>8. n * size < k * size /\ k \in Int
  BY <1>1, <1>3, <1>6, <1>7 DEF k
<1>9. n * size + size <= k * size
  BY <1>3, <1>4, <1>8, NextMultiple
<1>10. 0 <= n * size /\ n * size + size <= all
  BY <1>3, <1>6, <1>7, <1>9 DEF k
<1>11. PrefixRange(p).start = n * size /\ PrefixRange(p).length = size
  BY <1>4, <1>6 DEF RangeOf
<1>12. DefaultRange.start = 0 /\ DefaultRange.length = all
  BY <1>5 DEF RangeOf
<1>13. n * size \in Int
  BY <1>3
<1> DEFINE low == n * size
<1> HIDE DEF low
<1>14. low \in Int /\ 0 <= low /\ low + size <= all
       /\ PrefixRange(p).start = low
  BY <1>10, <1>11, <1>13 DEF low
<1> QED BY <1>3, <1>4, <1>11, <1>12, <1>14 DEF Covers, RangesMeet

\* The key that a route and a policy get stands for their intersection.
LEMMA FibKeyPair ==
  ASSUME NEW r, HostRoute(r), NEW p, HostPolicy(p), Meets(RouteKey(r), PolicyKey(p))
  PROVE  /\ PairOf(FibKey(r, p)) = Intersect(RouteKey(r), PolicyKey(p))
         /\ PairOf(FibKey(p, r)) = Intersect(PolicyKey(p), RouteKey(r))
         /\ FibKey(r, p)[2] \in {r.dest, p.dest}
         /\ FibKey(p, r)[2] \in {r.dest, p.dest}
         /\ FibKey(r, p)[1] \in {SourceOf(r), p.src}
         /\ FibKey(p, r)[1] \in {SourceOf(r), p.src}
<1> DEFINE c == SourceOf(r)
<1>1. /\ r.dest \in HostPrefixes /\ p.dest \in HostPrefixes
      /\ c \in HostPrefixes /\ p.src \in HostPrefixes
  BY DefaultIsHost DEF HostRoute, HostPolicy, SourceOf
<1>2. /\ RouteKey(r) = RectangleOf(PrefixRange(r.dest), PrefixRange(c))
      /\ PolicyKey(p) = RectangleOf(PrefixRange(p.dest), PrefixRange(p.src))
  BY DEF RouteKey, PolicyKey, PrefixPairToRectangle, SourceOf
<1>3. /\ RangesMeet(PrefixRange(r.dest), PrefixRange(p.dest))
      /\ RangesMeet(PrefixRange(p.dest), PrefixRange(r.dest))
      /\ RangesMeet(PrefixRange(c), PrefixRange(p.src))
      /\ RangesMeet(PrefixRange(p.src), PrefixRange(c))
  BY <1>2 DEF Meets, RangesMeet, RectangleOf
<1>4. /\ OverlapPrefix(r.dest, p.dest) \in {r.dest, p.dest}
      /\ PrefixRange(OverlapPrefix(r.dest, p.dest)) =
           MeetOfRanges(PrefixRange(r.dest), PrefixRange(p.dest))
      /\ OverlapPrefix(p.dest, r.dest) \in {r.dest, p.dest}
      /\ PrefixRange(OverlapPrefix(p.dest, r.dest)) =
           MeetOfRanges(PrefixRange(p.dest), PrefixRange(r.dest))
  BY <1>1, <1>3, OverlapIsMeet
<1>5. /\ OverlapPrefix(r.src, p.src) \in {c, p.src}
      /\ PrefixRange(OverlapPrefix(r.src, p.src)) =
           MeetOfRanges(PrefixRange(c), PrefixRange(p.src))
      /\ OverlapPrefix(p.src, r.src) \in {c, p.src}
      /\ PrefixRange(OverlapPrefix(p.src, r.src)) =
           MeetOfRanges(PrefixRange(p.src), PrefixRange(c))
  <2>1. CASE r.src = NoPrefix
    <3>1. p.src # NoPrefix
      BY <1>1, HostRange, NullAssumption
    <3>2. OverlapPrefix(r.src, p.src) = p.src /\ OverlapPrefix(p.src, r.src) = p.src
      BY <2>1, <3>1 DEF OverlapPrefix
    <3>3. c = DefaultPrefix /\ PrefixRange(c) = DefaultRange
      BY <2>1, DefaultIsHost DEF SourceOf
    <3>4. Covers(PrefixRange(c), PrefixRange(p.src))
      BY <1>1, <3>3, DefaultCovers
    <3>5. PrefixRange(c) \in Ranges /\ PrefixRange(p.src) \in Ranges
      BY <1>1, HostRange, PrefixRangeType
    <3> QED BY <3>2, <3>4, <3>5, MeetOfCovering, MeetOfCovered
  <2>2. CASE r.src # NoPrefix
    <3>1. r.src = c
      BY <2>2 DEF SourceOf
    <3> QED BY <1>1, <1>3, <3>1, OverlapIsMeet
  <2> QED BY <2>1, <2>2
<1>6. /\ FibKey(r, p)[1] = OverlapPrefix(r.src, p.src)
      /\ FibKey(r, p)[2] = OverlapPrefix(r.dest, p.dest)
      /\ FibKey(p, r)[1] = OverlapPrefix(p.src, r.src)
      /\ FibKey(p, r)[2] = OverlapPrefix(p.dest, r.dest)
  BY DEF FibKey
<1>7. PairOf(FibKey(r, p)) = Intersect(RouteKey(r), PolicyKey(p))
  BY <1>2, <1>4, <1>5, <1>6
  DEF PairOf, PrefixPairToRectangle, Intersect, RectangleOf
<1>8. PairOf(FibKey(p, r)) = Intersect(PolicyKey(p), RouteKey(r))
  BY <1>2, <1>4, <1>5, <1>6
  DEF PairOf, PrefixPairToRectangle, Intersect, RectangleOf
<1> QED BY <1>4, <1>5, <1>6, <1>7, <1>8

\* Prefixes written normally are the same if their ranges are.
LEMMA NormalDiffer ==
  ASSUME NEW a \in HostPrefixes, NEW b \in HostPrefixes, Normal(a), Normal(b),
         PrefixRange(a) = PrefixRange(b)
  PROVE  a = b
<1>1. /\ a.addr = b.addr
      /\ 2 ^ (AddressBits - a.len) = 2 ^ (AddressBits - b.len)
  BY HostRange DEF Normal
<1>2. /\ a \in Prefixes /\ b \in Prefixes
      /\ AddressBits - a.len \in 0..AddressBits
      /\ AddressBits - b.len \in 0..AddressBits
  BY HostRange, AddressBitsAssumption DEF Prefixes
<1>3. /\ \A i \in 0..AddressBits : 2 ^ i \in Nat
      /\ \A i, j \in 0..AddressBits : i < j => 2 ^ i < 2 ^ j
  BY AddressBitsAssumption
<1>4. ~ (AddressBits - a.len < AddressBits - b.len)
  BY <1>1, <1>2, <1>3
<1>5. ~ (AddressBits - b.len < AddressBits - a.len)
  BY <1>1, <1>2, <1>3
<1>6. a.len = b.len
  BY <1>2, <1>4, <1>5, AddressBitsAssumption DEF Prefixes
<1> QED BY <1>1, <1>2, <1>6 DEF Prefixes

\* A nonempty set of naturals has a least member.
LEMMA LeastNatural ==
  ASSUME NEW T \in SUBSET Nat, T # {}
  PROVE  \E x \in T : \A y \in T : x <= y
<1>1. PICK x \in T : \A y \in T : ~ (<<y, x>> \in OpToRel(<, Nat))
  BY NatLessThanWellFounded, WFMin
<1>2. OpToRel(<, Nat) = {ss \in Nat \X Nat : ss[1] < ss[2]}
  BY Zenon DEF OpToRel
<1>3. ASSUME NEW y \in T PROVE x <= y
  <2>1. <<y, x>> \notin {ss \in Nat \X Nat : ss[1] < ss[2]}
    BY <1>1, <1>2
  <2>2. <<y, x>> \in Nat \X Nat
    OBVIOUS
  <2>3. ~ (y < x)
    BY <2>1, <2>2
  <2> QED BY <2>3
<1> QED BY <1>3

\* Of any prefix pairs, one has the highest outbound priority ...
LEMMA OutboundHighest ==
  ASSUME NEW S \in SUBSET Rectangles, S # {}
  PROVE  \E a \in S : \A b \in S : OutboundAtLeast(a, b)
<1> DEFINE Ys == {a.y.length : a \in S}
<1>1. Ys \in SUBSET Nat /\ Ys # {}
  BY DEF Rectangles, Ranges
<1>2. PICK y \in Ys : \A z \in Ys : y <= z
  BY <1>1, LeastNatural
<1> DEFINE Xs == {a.x.length : a \in {b \in S : b.y.length = y}}
<1>3. Xs \in SUBSET Nat /\ Xs # {}
  BY <1>2 DEF Rectangles, Ranges
<1>4. PICK x \in Xs : \A z \in Xs : x <= z
  BY <1>3, LeastNatural
<1>5. PICK a \in S : a.y.length = y /\ a.x.length = x
  BY <1>4
<1>6. ASSUME NEW b \in S PROVE OutboundAtLeast(a, b)
  <2>1. y \in Nat /\ x \in Nat /\ b.y.length \in Nat /\ b.x.length \in Nat
    BY <1>1, <1>2, <1>3, <1>4 DEF Rectangles, Ranges
  <2>2. y <= b.y.length
    BY <1>2
  <2>3. b.y.length = y => x <= b.x.length
    BY <1>4
  <2> QED BY <1>5, <2>1, <2>2, <2>3 DEF OutboundAtLeast, OutboundAbove
<1> QED BY <1>6

\* ... and one the highest inbound priority.
LEMMA InboundHighest ==
  ASSUME NEW S \in SUBSET Rectangles, S # {}
  PROVE  \E a \in S : \A b \in S : InboundAtLeast(a, b)
<1> DEFINE Xs == {a.x.length : a \in S}
<1>1. Xs \in SUBSET Nat /\ Xs # {}
  BY DEF Rectangles, Ranges
<1>2. PICK x \in Xs : \A z \in Xs : x <= z
  BY <1>1, LeastNatural
<1> DEFINE Ys == {a.y.length : a \in {b \in S : b.x.length = x}}
<1>3. Ys \in SUBSET Nat /\ Ys # {}
  BY <1>2 DEF Rectangles, Ranges
<1>4. PICK y \in Ys : \A z \in Ys : y <= z
  BY <1>3, LeastNatural
<1>5. PICK a \in S : a.x.length = x /\ a.y.length = y
  BY <1>4
<1>6. ASSUME NEW b \in S PROVE InboundAtLeast(a, b)
  <2>1. y \in Nat /\ x \in Nat /\ b.y.length \in Nat /\ b.x.length \in Nat
    BY <1>1, <1>2, <1>3, <1>4 DEF Rectangles, Ranges
  <2>2. x <= b.x.length
    BY <1>2
  <2>3. b.x.length = x => y <= b.y.length
    BY <1>4
  <2> QED BY <1>5, <2>1, <2>2, <2>3 DEF InboundAtLeast, InboundAbove
<1> QED BY <1>6

------------------------------------------------------------------------------
(***************************************************************************)
(* Tables and calls.                                                       *)
(***************************************************************************)
LEMMA PutAllFacts ==
  ASSUME NEW f, NEW g
  PROVE  /\ DOMAIN PutAll(f, g) = DOMAIN f \cup DOMAIN g
         /\ \A k \in DOMAIN g : PutAll(f, g)[k] = g[k]
         /\ \A k \in DOMAIN f \ DOMAIN g : PutAll(f, g)[k] = f[k]
BY DEF PutAll

LEMMA UpdatedFields ==
  ASSUME NEW s, NEW routes, NEW policies, NEW matchedNow, NEW chosenNow, NEW fibNow,
         NEW checkedNow
  PROVE  LET t == Updated(s, routes, policies, matchedNow, chosenNow, fibNow, checkedNow)
         IN  /\ t.routes = routes
             /\ t.policies = policies
             /\ t.matches = PutAll(s.matches, matchedNow)
             /\ t.chosen = PutAll(s.chosen, chosenNow)
             /\ t.fib = PutAll(s.fib, fibNow)
             /\ t.advertised = s.advertised \cup {chosenNow[n] : n \in DOMAIN chosenNow}
             /\ t.checked = PutAll(s.checked, checkedNow)
BY DEF Updated

\* The policy key visited first for an intersection is a stored key that has
\* that intersection with the route's key, of the highest priority among those.
LEMMA PolicyForSpec ==
  ASSUME NEW s, DOMAIN s.policies \subseteq Rectangles,
         NEW r \in RouteAdvertises, NEW n \in AdvertiseMeetings(s, r)
  PROVE  LET pk == PolicyFor(s, r, n)
         IN  /\ pk \in PoliciesMeeting(s, r)
             /\ Intersect(RouteKey(r), pk) = n
             /\ \A other \in PoliciesMeeting(s, r) :
                  Intersect(RouteKey(r), other) = n => OutboundAtLeast(pk, other)
             /\ n \in Rectangles
<1> DEFINE S == {pk \in PoliciesMeeting(s, r) : Intersect(RouteKey(r), pk) = n}
<1>1. S \in SUBSET Rectangles
  BY DEF PoliciesMeeting
<1>2. PICK first \in PoliciesMeeting(s, r) : Intersect(RouteKey(r), first) = n
  BY DEF AdvertiseMeetings
<1>3. \E a \in S : \A b \in S : OutboundAtLeast(a, b)
  BY <1>1, <1>2, OutboundHighest
<1>4. \E pk \in PoliciesMeeting(s, r) :
        /\ Intersect(RouteKey(r), pk) = n
        /\ \A other \in PoliciesMeeting(s, r) :
             Intersect(RouteKey(r), other) = n => OutboundAtLeast(pk, other)
  BY <1>3
<1>5. n \in Rectangles
  BY <1>2, KeyTypes, IntersectType DEF PoliciesMeeting
<1> QED BY <1>4, <1>5 DEF PolicyFor

\* And likewise for the route key visited first.
LEMMA RouteKeyForSpec ==
  ASSUME NEW s, s.routes \subseteq RouteAdvertises,
         NEW p \in PolicyAdvertises, NEW n \in PolicyMeetings(s, p)
  PROVE  LET rk == RouteKeyFor(s, p, n)
         IN  /\ rk \in RouteKeysMeeting(s, p)
             /\ Intersect(PolicyKey(p), rk) = n
             /\ \A other \in RouteKeysMeeting(s, p) :
                  Intersect(PolicyKey(p), other) = n => InboundAtLeast(rk, other)
             /\ n \in Rectangles
<1> DEFINE S == {rk \in RouteKeysMeeting(s, p) : Intersect(PolicyKey(p), rk) = n}
<1>1. RouteKeysMeeting(s, p) \in SUBSET Rectangles
  BY KeyTypes DEF RouteKeysMeeting, RouteKeys
<1>2. PICK first \in RouteKeysMeeting(s, p) : Intersect(PolicyKey(p), first) = n
  BY DEF PolicyMeetings
<1>3. \E a \in S : \A b \in S : InboundAtLeast(a, b)
  BY <1>1, <1>2, InboundHighest
<1>4. \E rk \in RouteKeysMeeting(s, p) :
        /\ Intersect(PolicyKey(p), rk) = n
        /\ \A other \in RouteKeysMeeting(s, p) :
             Intersect(PolicyKey(p), other) = n => InboundAtLeast(rk, other)
  BY <1>3
<1>5. n \in Rectangles
  BY <1>1, <1>2, KeyTypes, IntersectType DEF RouteKeysMeeting
<1> QED BY <1>4, <1>5 DEF RouteKeyFor

\* The route a policy's loop stops at is a scanned route of the accepted key,
\* which the call has found compliant.
LEMMA PolicyChosenSpec ==
  ASSUME NEW s, NEW p, NEW verdict, NEW scan,
         NEW n \in DOMAIN PolicyChosen(s, p, verdict, scan)
  PROVE  /\ n \in PolicyAccepted(s, p)
         /\ PolicyChosen(s, p, verdict, scan)[n] \in scan
         /\ RouteKey(PolicyChosen(s, p, verdict, scan)[n]) = RouteKeyFor(s, p, n)
         /\ IsCompliant(s, verdict, p, PolicyChosen(s, p, verdict, scan)[n])
<1>1. n \in PolicyAccepted(s, p) /\ Passed(s, p, verdict, scan, n) # {}
  BY DEF PolicyChosen
<1>2. PolicyChosen(s, p, verdict, scan)[n] \in Passed(s, p, verdict, scan, n)
  BY <1>1 DEF PolicyChosen
<1> QED BY <1>1, <1>2 DEF Passed
------------------------------------------------------------------------------
(***************************************************************************)
(* What the two calls of the engine do to its tables, and which routes     *)
(* they return for propagation.                                            *)
(***************************************************************************)
LEMMA ReceiveAdvertiseTables ==
  ASSUME NEW s, NEW r, NEW verdict
  PROVE  LET t   == ReceiveAdvertise(s, r, verdict)
             acc == AdvertiseAccepted(s, r)
             now == AdvertiseTaken(s, r, verdict)
             keys == {AdvertiseFibKey(s, r, n) : n \in now}
         IN  /\ t.routes = s.routes \cup {r}
             /\ t.policies = s.policies
             /\ DOMAIN t.matches = DOMAIN s.matches \cup acc
             /\ \A n \in acc : t.matches[n] = <<PolicyFor(s, r, n), RouteKey(r)>>
             /\ \A n \in DOMAIN s.matches \ acc : t.matches[n] = s.matches[n]
             /\ DOMAIN t.chosen = DOMAIN s.chosen \cup now
             /\ \A n \in now : t.chosen[n] = r
             /\ \A n \in DOMAIN s.chosen \ now : t.chosen[n] = s.chosen[n]
             /\ DOMAIN t.fib = DOMAIN s.fib \cup keys
             /\ \A k \in keys : t.fib[k] = r.advertiser
             /\ \A k \in DOMAIN s.fib \ keys : t.fib[k] = s.fib[k]
<1> DEFINE acc  == AdvertiseAccepted(s, r)
           now  == AdvertiseTaken(s, r, verdict)
           mNow == [n \in acc |-> <<PolicyFor(s, r, n), RouteKey(r)>>]
           cNow == [n \in now |-> r]
           keys == {AdvertiseFibKey(s, r, n) : n \in now}
           fNow == [key \in keys |-> r.advertiser]
           kNow == [pair \in AdvertiseAsks(s, r) |->
                      IsCompliant(s, verdict, pair[1], pair[2])]
           t    == ReceiveAdvertise(s, r, verdict)
<1>1. /\ t.routes = s.routes \cup {r}
      /\ t.policies = s.policies
      /\ t.matches = PutAll(s.matches, mNow)
      /\ t.chosen = PutAll(s.chosen, cNow)
      /\ t.fib = PutAll(s.fib, fNow)
  <2>1. t = Updated(s, s.routes \cup {r}, s.policies, mNow, cNow, fNow, kNow)
    BY DEF ReceiveAdvertise
  <2> HIDE DEF mNow, cNow, fNow, kNow, t
  <2> QED BY <2>1, UpdatedFields
<1>2. /\ DOMAIN mNow = acc /\ \A n \in acc : mNow[n] = <<PolicyFor(s, r, n), RouteKey(r)>>
      /\ DOMAIN cNow = now /\ \A n \in now : cNow[n] = r
      /\ DOMAIN fNow = keys /\ \A key \in keys : fNow[key] = r.advertiser
  OBVIOUS
<1> HIDE DEF mNow, cNow, fNow, kNow, t, acc, now, keys
<1>3. /\ DOMAIN t.matches = DOMAIN s.matches \cup acc
      /\ \A n \in acc : t.matches[n] = <<PolicyFor(s, r, n), RouteKey(r)>>
      /\ \A n \in DOMAIN s.matches \ acc : t.matches[n] = s.matches[n]
  BY <1>1, <1>2 DEF PutAll
<1>4. /\ DOMAIN t.chosen = DOMAIN s.chosen \cup now
      /\ \A n \in now : t.chosen[n] = r
      /\ \A n \in DOMAIN s.chosen \ now : t.chosen[n] = s.chosen[n]
  BY <1>1, <1>2 DEF PutAll
<1>5. /\ DOMAIN t.fib = DOMAIN s.fib \cup keys
      /\ \A key \in keys : t.fib[key] = r.advertiser
      /\ \A key \in DOMAIN s.fib \ keys : t.fib[key] = s.fib[key]
  BY <1>1, <1>2 DEF PutAll
<1> QED BY <1>1, <1>3, <1>4, <1>5 DEF t, acc, now, keys

LEMMA ReceiveOutboundPolicyTables ==
  ASSUME NEW s, NEW p, NEW verdict, NEW scan
  PROVE  LET t   == ReceiveOutboundPolicy(s, p, verdict, scan)
             acc == PolicyAccepted(s, p)
             now == PolicyChosen(s, p, verdict, scan)
             entries == PolicyEntries(p, now)
         IN  /\ t.routes = s.routes
             /\ DOMAIN t.policies = DOMAIN s.policies \cup {PolicyKey(p)}
             /\ t.policies[PolicyKey(p)] = p
             /\ \A k \in DOMAIN s.policies \ {PolicyKey(p)} :
                  t.policies[k] = s.policies[k]
             /\ DOMAIN t.matches = DOMAIN s.matches \cup acc
             /\ \A n \in acc : t.matches[n] = <<PolicyKey(p), RouteKeyFor(s, p, n)>>
             /\ \A n \in DOMAIN s.matches \ acc : t.matches[n] = s.matches[n]
             /\ DOMAIN t.chosen = DOMAIN s.chosen \cup DOMAIN now
             /\ \A n \in DOMAIN now : t.chosen[n] = now[n]
             /\ \A n \in DOMAIN s.chosen \ DOMAIN now : t.chosen[n] = s.chosen[n]
             /\ DOMAIN t.fib = DOMAIN s.fib \cup DOMAIN entries
             /\ \A k \in DOMAIN entries : t.fib[k] = entries[k]
             /\ \A k \in DOMAIN s.fib \ DOMAIN entries : t.fib[k] = s.fib[k]
<1> DEFINE acc  == PolicyAccepted(s, p)
           pk   == PolicyKey(p)
           pNow == [k \in {pk} |-> p]
           mNow == [n \in acc |-> <<pk, RouteKeyFor(s, p, n)>>]
           now  == PolicyChosen(s, p, verdict, scan)
           fNow == PolicyEntries(p, now)
           kNow == [pair \in {p} \X scan |-> IsCompliant(s, verdict, pair[1], pair[2])]
           t    == ReceiveOutboundPolicy(s, p, verdict, scan)
<1>1. /\ t.routes = s.routes
      /\ t.policies = PutAll(s.policies, pNow)
      /\ t.matches = PutAll(s.matches, mNow)
      /\ t.chosen = PutAll(s.chosen, now)
      /\ t.fib = PutAll(s.fib, fNow)
  <2>1. t = Updated(s, s.routes, PutAll(s.policies, pNow), mNow, now, fNow, kNow)
    BY DEF ReceiveOutboundPolicy
  <2> HIDE DEF pNow, mNow, now, fNow, kNow, t
  <2> QED BY <2>1, UpdatedFields
<1>2. /\ DOMAIN pNow = {pk} /\ pNow[pk] = p
      /\ DOMAIN mNow = acc /\ \A n \in acc : mNow[n] = <<pk, RouteKeyFor(s, p, n)>>
  OBVIOUS
<1> HIDE DEF pNow, mNow, now, fNow, kNow, t, acc, pk
<1>3. /\ DOMAIN t.policies = DOMAIN s.policies \cup {pk}
      /\ t.policies[pk] = p
      /\ \A k \in DOMAIN s.policies \ {pk} : t.policies[k] = s.policies[k]
  BY <1>1, <1>2 DEF PutAll
<1>4. /\ DOMAIN t.matches = DOMAIN s.matches \cup acc
      /\ \A n \in acc : t.matches[n] = <<pk, RouteKeyFor(s, p, n)>>
      /\ \A n \in DOMAIN s.matches \ acc : t.matches[n] = s.matches[n]
  BY <1>1, <1>2 DEF PutAll
<1>5. /\ DOMAIN t.chosen = DOMAIN s.chosen \cup DOMAIN now
      /\ \A n \in DOMAIN now : t.chosen[n] = now[n]
      /\ \A n \in DOMAIN s.chosen \ DOMAIN now : t.chosen[n] = s.chosen[n]
  BY <1>1 DEF PutAll
<1>6. /\ DOMAIN t.fib = DOMAIN s.fib \cup DOMAIN fNow
      /\ \A k \in DOMAIN fNow : t.fib[k] = fNow[k]
      /\ \A k \in DOMAIN s.fib \ DOMAIN fNow : t.fib[k] = s.fib[k]
  BY <1>1 DEF PutAll
<1> QED BY <1>1, <1>3, <1>4, <1>5, <1>6 DEF t, acc, now, pk, fNow

\* Every entry of a policy's call is for one of its choices, and every choice
\* has a key among them.
LEMMA PolicyEntriesAre ==
  ASSUME NEW p, NEW now
  PROVE  /\ \A key \in DOMAIN PolicyEntries(p, now) :
              \E n \in DOMAIN now :
                FibKey(p, now[n]) = key /\ PolicyEntries(p, now)[key] = now[n].advertiser
         /\ \A n \in DOMAIN now : FibKey(p, now[n]) \in DOMAIN PolicyEntries(p, now)
<1> DEFINE keys    == {FibKey(p, now[n]) : n \in DOMAIN now}
           entries == PolicyEntries(p, now)
           Of(key) == CHOOSE n \in DOMAIN now : FibKey(p, now[n]) = key
<1>1. /\ DOMAIN entries = keys
      /\ \A key \in keys : entries[key] = now[Of(key)].advertiser
  BY DEF PolicyEntries
<1>2. \A key \in keys : Of(key) \in DOMAIN now /\ FibKey(p, now[Of(key)]) = key
  OBVIOUS
<1>3. \A n \in DOMAIN now : FibKey(p, now[n]) \in keys
  OBVIOUS
<1> HIDE DEF keys, entries, Of
<1> QED BY <1>1, <1>2, <1>3 DEF entries

\* The routes a call returns for propagation are in the engine's table.
LEMMA PropagatedRoutes ==
  ASSUME NEW s, NEW verdict
  PROVE  /\ \A r : AdvertisePropagates(s, r, verdict) \subseteq {r}
         /\ \A p : \A scan \in PolicyScans(s, p, verdict) :
              PolicyPropagates(s, p, verdict, scan) \subseteq s.routes
<1>1. ASSUME NEW r PROVE AdvertisePropagates(s, r, verdict) \subseteq {r}
  BY DEF AdvertisePropagates
<1>2. ASSUME NEW p, NEW scan \in PolicyScans(s, p, verdict)
      PROVE  PolicyPropagates(s, p, verdict, scan) \subseteq s.routes
  <2>1. scan \subseteq s.routes
    BY DEF PolicyScans, PolicyRoutes
  <2> QED BY <2>1, PolicyChosenSpec DEF PolicyPropagates
<1> QED BY <1>1, <1>2
\* If everything on record was found compliant before a call, and the call finds
\* everything compliant it asks about, then so it is afterwards.
LEMMA VerdictsStayGood ==
  ASSUME NEW s, NEW t, NEW asks, NEW kNow, DOMAIN kNow = asks,
         t.checked = PutAll(s.checked, kNow),
         \A pair \in DOMAIN s.checked : s.checked[pair],
         \A pair \in asks : kNow[pair]
  PROVE  \A pair \in DOMAIN t.checked : t.checked[pair]
<1>1. /\ DOMAIN t.checked = DOMAIN s.checked \cup asks
      /\ \A pair \in asks : t.checked[pair] = kNow[pair]
      /\ \A pair \in DOMAIN s.checked \ asks : t.checked[pair] = s.checked[pair]
  BY Zenon DEF PutAll
<1> QED BY <1>1, Zenon

LEMMA UpdatedChecked ==
  ASSUME NEW s, NEW routes, NEW policies, NEW matchedNow, NEW chosenNow, NEW fibNow,
         NEW checkedNow
  PROVE  Updated(s, routes, policies, matchedNow, chosenNow, fibNow, checkedNow).checked =
           PutAll(s.checked, checkedNow)
BY DEF Updated

LEMMA AdvertiseVerdicts ==
  ASSUME NEW s, NEW r, NEW verdict,
         \A pair \in DOMAIN s.checked : s.checked[pair],
         \A n \in AdvertiseAccepted(s, r) :
           IsCompliant(s, verdict, s.policies[PolicyFor(s, r, n)], r)
  PROVE  LET t == ReceiveAdvertise(s, r, verdict)
         IN  \A pair \in DOMAIN t.checked : t.checked[pair]
<1> DEFINE asks == AdvertiseAsks(s, r)
           mNow == [n \in AdvertiseAccepted(s, r) |-> <<PolicyFor(s, r, n), RouteKey(r)>>]
           cNow == [n \in AdvertiseTaken(s, r, verdict) |-> r]
           fNow == [key \in {AdvertiseFibKey(s, r, n) : n \in AdvertiseTaken(s, r, verdict)} |->
                      r.advertiser]
           kNow == [pair \in asks |-> IsCompliant(s, verdict, pair[1], pair[2])]
           t    == ReceiveAdvertise(s, r, verdict)
<1>1. t = Updated(s, s.routes \cup {r}, s.policies, mNow, cNow, fNow, kNow)
  BY DEF ReceiveAdvertise
<1>2. ASSUME NEW pair \in asks PROVE kNow[pair]
  <2>1. PICK n \in AdvertiseAccepted(s, r) : pair = <<s.policies[PolicyFor(s, r, n)], r>>
    BY DEF AdvertiseAsks
  <2>2. pair[1] = s.policies[PolicyFor(s, r, n)] /\ pair[2] = r
    BY <2>1
  <2>3. IsCompliant(s, verdict, pair[1], pair[2])
    BY <2>1, <2>2, Zenon
  <2> QED BY <2>3, Zenon
<1>3. DOMAIN kNow = asks
  BY Zenon
<1> HIDE DEF asks, mNow, cNow, fNow, kNow, t
<1>4. t.checked = PutAll(s.checked, kNow)
  BY <1>1, UpdatedChecked
<1>5. \A pair \in DOMAIN t.checked : t.checked[pair]
  BY <1>2, <1>3, <1>4, VerdictsStayGood, Zenon
<1> QED BY <1>5, Zenon DEF t

\* Conversely, what a call has found on the pairs it asks about is on record
\* after it.
LEMMA VerdictsRecorded ==
  ASSUME NEW s, NEW t, NEW asks, NEW kNow, DOMAIN kNow = asks,
         t.checked = PutAll(s.checked, kNow),
         \A pair \in DOMAIN t.checked : t.checked[pair]
  PROVE  \A pair \in asks : kNow[pair]
<1>1. /\ DOMAIN t.checked = DOMAIN s.checked \cup asks
      /\ \A pair \in asks : t.checked[pair] = kNow[pair]
  BY Zenon DEF PutAll
<1> QED BY <1>1, Zenon

LEMMA AdvertiseVerdictsAre ==
  ASSUME NEW s, NEW r, NEW verdict,
         LET t == ReceiveAdvertise(s, r, verdict)
         IN  \A pair \in DOMAIN t.checked : t.checked[pair]
  PROVE  \A n \in AdvertiseAccepted(s, r) :
           IsCompliant(s, verdict, s.policies[PolicyFor(s, r, n)], r)
<1> DEFINE asks == AdvertiseAsks(s, r)
           mNow == [n \in AdvertiseAccepted(s, r) |-> <<PolicyFor(s, r, n), RouteKey(r)>>]
           cNow == [n \in AdvertiseTaken(s, r, verdict) |-> r]
           fNow == [key \in {AdvertiseFibKey(s, r, n) : n \in AdvertiseTaken(s, r, verdict)} |->
                      r.advertiser]
           kNow == [pair \in asks |-> IsCompliant(s, verdict, pair[1], pair[2])]
           t    == ReceiveAdvertise(s, r, verdict)
<1>1. t = Updated(s, s.routes \cup {r}, s.policies, mNow, cNow, fNow, kNow)
  BY DEF ReceiveAdvertise
<1>2. DOMAIN kNow = asks
  BY Zenon
<1>3. \A pair \in DOMAIN t.checked : t.checked[pair]
  BY Zenon
<1>4. \A pair \in asks : kNow[pair]
  <2> HIDE DEF asks, mNow, cNow, fNow, kNow, t
  <2>1. t.checked = PutAll(s.checked, kNow)
    BY <1>1, UpdatedChecked
  <2> QED BY <1>2, <1>3, <2>1, VerdictsRecorded, Zenon
<1>5. ASSUME NEW n \in AdvertiseAccepted(s, r)
      PROVE  IsCompliant(s, verdict, s.policies[PolicyFor(s, r, n)], r)
  <2> DEFINE pair == <<s.policies[PolicyFor(s, r, n)], r>>
  <2>1. pair \in asks
    BY DEF AdvertiseAsks
  <2>2. pair[1] = s.policies[PolicyFor(s, r, n)] /\ pair[2] = r
    OBVIOUS
  <2>3. IsCompliant(s, verdict, pair[1], pair[2])
    <3> HIDE DEF pair
    <3> QED BY <1>4, <2>1, Zenon
  <2> QED BY <2>2, <2>3, Zenon
<1> QED BY <1>5

LEMMA PolicyVerdictsAre ==
  ASSUME NEW s, NEW p, NEW verdict, NEW scan,
         LET t == ReceiveOutboundPolicy(s, p, verdict, scan)
         IN  \A pair \in DOMAIN t.checked : t.checked[pair]
  PROVE  \A r \in scan : IsCompliant(s, verdict, p, r)
<1> DEFINE asks == {p} \X scan
           pNow == [k \in {PolicyKey(p)} |-> p]
           mNow == [n \in PolicyAccepted(s, p) |-> <<PolicyKey(p), RouteKeyFor(s, p, n)>>]
           cNow == PolicyChosen(s, p, verdict, scan)
           fNow == PolicyEntries(p, cNow)
           kNow == [pair \in asks |-> IsCompliant(s, verdict, pair[1], pair[2])]
           t    == ReceiveOutboundPolicy(s, p, verdict, scan)
<1>1. t = Updated(s, s.routes, PutAll(s.policies, pNow), mNow, cNow, fNow, kNow)
  BY DEF ReceiveOutboundPolicy
<1>2. DOMAIN kNow = asks
  BY Zenon
<1>3. \A pair \in DOMAIN t.checked : t.checked[pair]
  BY Zenon
<1>4. \A pair \in asks : kNow[pair]
  <2> HIDE DEF asks, pNow, mNow, cNow, fNow, kNow, t
  <2>1. t.checked = PutAll(s.checked, kNow)
    BY <1>1, UpdatedChecked
  <2> QED BY <1>2, <1>3, <2>1, VerdictsRecorded, Zenon
<1>5. ASSUME NEW r \in scan PROVE IsCompliant(s, verdict, p, r)
  <2> DEFINE pair == <<p, r>>
  <2>1. pair \in asks
    OBVIOUS
  <2>2. pair[1] = p /\ pair[2] = r
    OBVIOUS
  <2>3. IsCompliant(s, verdict, pair[1], pair[2])
    <3> HIDE DEF pair
    <3> QED BY <1>4, <2>1, Zenon
  <2> QED BY <2>2, <2>3, Zenon
<1> QED BY <1>5

LEMMA PolicyVerdicts ==
  ASSUME NEW s, NEW p, NEW verdict, NEW scan,
         \A pair \in DOMAIN s.checked : s.checked[pair],
         \A r \in scan : IsCompliant(s, verdict, p, r)
  PROVE  LET t == ReceiveOutboundPolicy(s, p, verdict, scan)
         IN  \A pair \in DOMAIN t.checked : t.checked[pair]
<1> DEFINE asks == {p} \X scan
           pNow == [k \in {PolicyKey(p)} |-> p]
           mNow == [n \in PolicyAccepted(s, p) |-> <<PolicyKey(p), RouteKeyFor(s, p, n)>>]
           cNow == PolicyChosen(s, p, verdict, scan)
           fNow == PolicyEntries(p, cNow)
           kNow == [pair \in asks |-> IsCompliant(s, verdict, pair[1], pair[2])]
           t    == ReceiveOutboundPolicy(s, p, verdict, scan)
<1>1. t = Updated(s, s.routes, PutAll(s.policies, pNow), mNow, cNow, fNow, kNow)
  BY DEF ReceiveOutboundPolicy
<1>2. ASSUME NEW pair \in asks PROVE kNow[pair]
  <2>1. pair[1] = p /\ pair[2] \in scan
    BY <1>2
  <2>2. IsCompliant(s, verdict, pair[1], pair[2])
    BY <2>1, Zenon
  <2> QED BY <2>2, Zenon
<1>3. DOMAIN kNow = asks
  BY Zenon
<1> HIDE DEF asks, pNow, mNow, cNow, fNow, kNow, t
<1>4. t.checked = PutAll(s.checked, kNow)
  BY <1>1, UpdatedChecked
<1>5. \A pair \in DOMAIN t.checked : t.checked[pair]
  BY <1>2, <1>3, <1>4, VerdictsStayGood, Zenon
<1> QED BY <1>5, Zenon DEF t
==============================================================================
