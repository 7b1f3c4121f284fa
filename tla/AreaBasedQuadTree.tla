-------------------------- MODULE AreaBasedQuadTree --------------------------
(***************************************************************************)
(* The spatial index of prefix pairs, AreaBasedQuadTree, and the binary    *)
(* trees of ranges inside it, PrefixTree.                                  *)
(*                                                                         *)
(* A node of the quadtree stands for a square area.  Rectangles that cross *)
(* the whole area in x or y are kept by their other side in the node's     *)
(* cfsY or cfsX; the others in a small set, objects, until there are more  *)
(* than MaxCached of them: then the node is split and hands them to its    *)
(* four children.  The state is one tree and, beside it, the rectangles a  *)
(* user of the tree has inserted and not removed.                          *)
(***************************************************************************)
EXTENDS PrefixPairs, Sequences, FiniteSets

CONSTANTS
  MaxCached,   \* MAX_CACHED, 8 in the code
  Keys         \* the rectangles inserted and removed

VARIABLES tree, stored

vars == <<tree, stored>>

------------------------------------------------------------------------------
(***************************************************************************)
(* PrefixTree.  MAX_NUM is 0: a range that is added never stays in         *)
(* cachedObjects, so the nodes have no such field here.  kids is empty or  *)
(* <<left, right>>.                                                        *)
(***************************************************************************)
NewPrefixTree(range) == [range |-> range, valid |-> FALSE, empty |-> TRUE, kids |-> <<>>]

Halves(range) ==
  LET w == range.length \div 2
  IN  <<NewPrefixTree(RangeOf(range.start, w)),
        NewPrefixTree(RangeOf(range.start + w, w))>>

\* The child that a range goes to: the left one if that covers it.
Side(kids, range) == IF Covers(kids[1].range, range) THEN 1 ELSE 2

RECURSIVE RangeAdd(_, _), RangeRemove(_, _), RangeQuery(_, _)

RangeAdd(t, range) ==
  IF t.range = range THEN [t EXCEPT !.valid = TRUE, !.empty = FALSE]
  ELSE IF ~ Covers(t.range, range) THEN t
  ELSE LET kids == IF t.kids = <<>> THEN Halves(t.range) ELSE t.kids
       IN  [t EXCEPT !.empty = FALSE,
                     !.kids = [kids EXCEPT ![Side(kids, range)] = RangeAdd(@, range)]]

Emptied(t) ==
  [t EXCEPT !.empty = t.empty \/ (~ t.valid /\ \A i \in DOMAIN t.kids : t.kids[i].empty)]

RangeRemove(t, range) ==
  Emptied(
    IF t.range = range THEN [t EXCEPT !.valid = FALSE]
    ELSE IF t.kids = <<>> THEN t
    ELSE [t EXCEPT !.kids[Side(t.kids, range)] = RangeRemove(@, range)])

\* A range is below a node in both halves or, if the query is narrower than
\* the node, in one of them.
RangeQuery(t, q) ==
  LET visited == CASE t.kids = <<>> -> {}
                   [] t.kids # <<>> /\ Covers(q, t.range) -> {1, 2}
                   [] OTHER               -> {Side(t.kids, q)}
  IN  {r \in {t.range} : t.valid} \cup UNION {RangeQuery(t.kids[i], q) : i \in visited}

------------------------------------------------------------------------------
(***************************************************************************)
(* The quadtree.                                                           *)
(***************************************************************************)
NewTree(area) ==
  [area |-> area, cfsX |-> NewPrefixTree(area.x), cfsY |-> NewPrefixTree(area.y),
   objects |-> {}, empty |-> TRUE, kids |-> <<>>]

Quarters(area) ==
  LET x == Halves(area.x)
      y == Halves(area.y)
  IN  [i \in 1..4 |-> NewTree(RectangleOf(x[((i - 1) % 2) + 1].range,
                                          y[((i - 1) \div 2) + 1].range))]

RECURSIVE Insert(_, _), InsertAllBelow(_, _), Remove(_, _), Query(_, _)

\* Every child is offered the rectangle, the one that contains it takes it.
InsertBelow(kids, rect) == [i \in DOMAIN kids |-> Insert(kids[i], rect)]

InsertAllBelow(kids, rects) ==
  IF rects = {} THEN kids
  ELSE LET rect == CHOOSE r \in rects : TRUE
       IN  InsertAllBelow(InsertBelow(kids, rect), rects \ {rect})

\* splitNode, and the cached rectangles go to the children.
Split(t, rect) ==
  [t EXCEPT !.objects = {},
            !.kids = InsertAllBelow(Quarters(t.area), t.objects \cup {rect})]

Placed(t, rect) ==
  CASE rect.x = t.area.x -> [t EXCEPT !.cfsY = RangeAdd(@, rect.y)]
    [] rect.x # t.area.x /\ rect.y = t.area.y -> [t EXCEPT !.cfsX = RangeAdd(@, rect.x)]
    [] OTHER ->
         IF t.kids # <<>> THEN [t EXCEPT !.kids = InsertBelow(@, rect)]
         ELSE IF Cardinality(t.objects \cup {rect}) <= MaxCached
              THEN [t EXCEPT !.objects = @ \cup {rect}]
              ELSE Split(t, rect)

Insert(t, rect) ==
  IF Contains(t.area, rect) THEN [Placed(t, rect) EXCEPT !.empty = FALSE] ELSE t

\* A mutation: the children are dropped as soon as one of them is empty.
RemovedBelowAny(t, rect) ==
  LET kids == [i \in 1..4 |-> IF Contains(t.kids[i].area, rect)
                              THEN Remove(t.kids[i], rect) ELSE t.kids[i]]
  IN  [t EXCEPT !.kids = IF \E i \in 1..4 : kids[i].empty THEN <<>> ELSE kids]

\* The children are dropped when all of them are empty.
RemovedBelow(t, rect) ==
  LET kids == [i \in 1..4 |-> IF Contains(t.kids[i].area, rect)
                              THEN Remove(t.kids[i], rect) ELSE t.kids[i]]
  IN  [t EXCEPT !.kids = IF \A i \in 1..4 : kids[i].empty THEN <<>> ELSE kids]

\* The code returns before it sets empty when the rectangle was in cfsX, and
\* when it was not found at a node without children.
Settled(t) ==
  [t EXCEPT !.empty = t.empty \/ (/\ t.cfsX.empty /\ t.cfsY.empty
                                  /\ t.objects = {} /\ t.kids = <<>>)]

Remove(t, rect) ==
  CASE rect.x = t.area.x -> Settled([t EXCEPT !.cfsY = RangeRemove(@, rect.y)])
    [] rect.x # t.area.x /\ rect.y = t.area.y -> [t EXCEPT !.cfsX = RangeRemove(@, rect.x)]
    [] OTHER ->
         IF rect \in t.objects THEN Settled([t EXCEPT !.objects = @ \ {rect}])
         ELSE IF t.kids = <<>> THEN t
              ELSE Settled(RemovedBelow(t, rect))

\* What crosses the area meets every query in the other side, and a child is
\* asked for its part of the query.
Query(t, q) ==
  {RectangleOf(t.area.x, y) : y \in RangeQuery(t.cfsY, q.y)}
  \cup {RectangleOf(x, t.area.y) : x \in RangeQuery(t.cfsX, q.x)}
  \cup {r \in t.objects : Meets(r, q)}
  \cup UNION {Query(t.kids[i], Intersect(t.kids[i].area, q)) :
                i \in {j \in DOMAIN t.kids : Meets(t.kids[j].area, q)}}

------------------------------------------------------------------------------
Init ==
  /\ tree = NewTree(RectangleOf(DefaultRange, DefaultRange))
  /\ stored = {}

Inserted(rect) ==
  /\ tree' = Insert(tree, rect)
  /\ stored' = stored \cup {rect}

Removed(rect) ==
  /\ tree' = Remove(tree, rect)
  /\ stored' = stored \ {rect}

Next == \E rect \in Keys : Inserted(rect) \/ Removed(rect)

Spec == Init /\ [][Next]_vars

------------------------------------------------------------------------------
\* The queries: every prefix pair of the address space.
Blocks ==
  UNION {{RangeOf(i * 2 ^ k, 2 ^ k) : i \in 0..(2 ^ (AddressBits - k) - 1)} : k \in 0..AddressBits}

Queries == {RectangleOf(x, y) : x, y \in Blocks}

(***************************************************************************)
(* Whatever has been inserted and removed in whatever order, a query       *)
(* returns the stored rectangles that meet it and no others: nothing is    *)
(* lost in a split, nothing comes back, nothing goes with children that    *)
(* are dropped.  This is what AdvertiseEngine relies on.                   *)
(***************************************************************************)
QueryExact == \A q \in Queries : Query(tree, q) = {r \in stored : Meets(r, q)}

(***************************************************************************)
(* Every stored rectangle that meets the query is returned, the comment at *)
(* query says.                                                             *)
(***************************************************************************)
QueryComplete == \A q \in Queries : {r \in stored : Meets(r, q)} \subseteq Query(tree, q)
==============================================================================
