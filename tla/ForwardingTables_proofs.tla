----------------------- MODULE ForwardingTables_proofs -----------------------
(***************************************************************************)
(* Proofs about the routers with several tables of flows: the ingress      *)
(* router, which filters and mirrors before it routes, and the two         *)
(* mirroring routers.  Masks and priorities are those of the proofs about  *)
(* the router with one table.                                              *)
(***************************************************************************)
EXTENDS Applications_proofs

-----------------------------------------------------------------------------
(* The ingress router: filters, then mirrors and routes.                     *)
FilterRow == [match : Filters, id : 1 .. MaxIds, accept : BOOLEAN]
RouteRow ==
    [match : IngressRoutes, id : 1 .. MaxIds, gateway : IngressGateways,
     mac : IngressGateways \cup {Ingress!NoMac}]
MirrorRow ==
    [match : IngressMirrors, id : FirstMirror .. FirstMirror + MaxIds - 1,
     gateway : IngressStations]

\* A match has one row, and an identifier one route, of those given so far.
RowsUnique(rows) == \A x, y \in rows : x.match = y.match => x = y

RowsFit ==
    /\ filters \subseteq FilterRow /\ RowsUnique(filters)
    /\ routes \subseteq RouteRow /\ RowsUnique(routes)
    /\ mirrors \subseteq MirrorRow
    /\ \A x, y \in routes : x.id = y.id => x = y
    /\ \A x \in routes : x.id < ingressNext["route"]
    /\ ingressNext \in [Ingress!Kinds -> Nat \ {0}] /\ ingressNext["mirror"] >= FirstMirror

OfRoute(x) == {Ingress!PacketInFlow(x), Ingress!RoutingFlow(x)}

NoDefault(rs) == \A x \in rs : x.match # Ingress!EveryPacket

\* The flows of a switch with given filters and routes, and mirrors of any time.
IngressFit(fs, rs, fl) ==
    /\ \A f \in fl :
          \/ f \in {Ingress!DefaultFilterFlow, Ingress!DefaultMirrorFlow, Ingress!DropFlow}
          \/ \E x \in fs : f = Ingress!FilterFlow(x)
          \/ \E x \in rs : f \in OfRoute(x)
          \/ \E x \in MirrorRow : f = Ingress!MirrorFlow(x)
    /\ Ingress!DefaultFilterFlow \in fl /\ Ingress!DefaultMirrorFlow \in fl
    /\ \A x \in fs : Ingress!FilterFlow(x) \in fl
    /\ \A x \in rs : \E f \in OfRoute(x) : f \in fl
    /\ Ingress!DropFlow \in fl => NoDefault(rs)

\* The flows that a deletion is to delete are of one row.
AskedOf(q) ==
    \/ q = Ingress!Idle
    \/ /\ q.kind = "route" /\ q.flows # {}
       /\ \E x \in routes : q.flows \subseteq OfRoute(x)
    \/ /\ q.kind = "mirror"
       /\ \A f \in q.flows :
             \/ \E x \in MirrorRow : f = Ingress!MirrorFlow(x)
             \/ f = Ingress!DropFlow /\ NoDefault(routes)

IngressInv == RowsFit /\ IngressFit(filters, routes, ingressFlow) /\ AskedOf(ingressRequest)

\* The cookies tell the kinds of rows apart, and a mirror does not copy everything.
FewMirrors ==
    /\ FirstMirror \in Nat \ {0} /\ MaxIds \in Nat /\ FirstMirror + MaxIds <= 15
    /\ \A x \in IngressMirrors : x.src.len + x.dst.len # 0

Place(f) == <<f.table, f.prio, f.match>>

(* The tables, places and cookies of the flows.                               *)
LEMMA IngressFields ==
    ASSUME FewMirrors
    PROVE  /\ \A x \in FilterRow :
                  LET f == Ingress!FilterFlow(x) IN
                  /\ f.table = "filter" /\ f.match = x.match
                  /\ f.prio = 2 + x.match.src.len + x.match.dst.len
                  /\ f.cookie = x.id * 65536 + 1000000
                  /\ f.action = IF x.accept THEN <<"goto">> ELSE <<"drop">>
           /\ \A x \in RouteRow : \A f \in OfRoute(x) :
                  /\ f.table = "route" /\ f.match = x.match
                  /\ f.prio = IF x.match.src.len + x.match.dst.len = 0 THEN 1
                              ELSE 2 + x.match.src.len + x.match.dst.len
                  /\ f.cookie = x.id * 65536 + 3000000
                  /\ f.action \in {<<"controller">>, <<"out", x.gateway>>}
           /\ \A x \in MirrorRow :
                  LET f == Ingress!MirrorFlow(x) IN
                  /\ f.table = "mirror" /\ f.match = x.match
                  /\ f.prio = 2 + x.match.src.len + x.match.dst.len
                  /\ f.cookie = x.id * 65536 + 2000000
                  /\ f.action = <<"copy", x.gateway>>
<1>1. \A x \in FilterRow :
          LET f == Ingress!FilterFlow(x) IN
          /\ f.table = "filter" /\ f.match = x.match
          /\ f.prio = 2 + x.match.src.len + x.match.dst.len
          /\ f.cookie = x.id * 65536 + 1000000
          /\ f.action = IF x.accept THEN <<"goto">> ELSE <<"drop">>
  BY DEF Ingress!FilterFlow, Ingress!Flow, Ingress!FilterPriority, Ingress!STATIC_ROUTING,
         Ingress!IdToCookie, Ingress!Offset, Ingress!Shift
<1>2. \A x \in RouteRow : \A f \in OfRoute(x) :
          /\ f.table = "route" /\ f.match = x.match
          /\ f.prio = IF x.match.src.len + x.match.dst.len = 0 THEN 1
                      ELSE 2 + x.match.src.len + x.match.dst.len
          /\ f.cookie = x.id * 65536 + 3000000
          /\ f.action \in {<<"controller">>, <<"out", x.gateway>>}
  BY DEF OfRoute, Ingress!PacketInFlow, Ingress!RoutingFlow, Ingress!Flow,
         Ingress!RoutePriority, Ingress!FilterPriority, Ingress!STATIC_ROUTING,
         Ingress!DEFAULT_ROUTING, Ingress!IdToCookie, Ingress!Offset, Ingress!Shift
<1>3. \A x \in MirrorRow :
          LET f == Ingress!MirrorFlow(x) IN
          /\ f.table = "mirror" /\ f.match = x.match
          /\ f.prio = 2 + x.match.src.len + x.match.dst.len
          /\ f.cookie = x.id * 65536 + 2000000
          /\ f.action = <<"copy", x.gateway>>
  <2>1. \A x \in MirrorRow : x.match.src.len + x.match.dst.len # 0
    BY DEF MirrorRow, FewMirrors
  <2>2. QED
    BY <2>1 DEF Ingress!MirrorFlow, Ingress!Flow, Ingress!RoutePriority,
         Ingress!FilterPriority, Ingress!STATIC_ROUTING, Ingress!IdToCookie, Ingress!Offset,
         Ingress!Shift
<1>4. QED
  BY <1>1, <1>2, <1>3

(* The flows of each table that match everything.                             *)
LEMMA DefaultFields ==
    /\ Ingress!DefaultFilterFlow.table = "filter" /\ Ingress!DefaultFilterFlow.prio = 0
    /\ Ingress!DefaultFilterFlow.match = Ingress!EveryPacket
    /\ Ingress!DefaultFilterFlow.cookie = 1000000
    /\ Ingress!DefaultFilterFlow.action = <<"goto">>
    /\ Ingress!DefaultMirrorFlow.table = "mirror" /\ Ingress!DefaultMirrorFlow.prio = 0
    /\ Ingress!DefaultMirrorFlow.match = Ingress!EveryPacket
    /\ Ingress!DefaultMirrorFlow.cookie = 2000000
    /\ Ingress!DefaultMirrorFlow.action = <<"goto">>
    /\ Ingress!DropFlow.table = "route" /\ Ingress!DropFlow.prio = 1
    /\ Ingress!DropFlow.match = Ingress!EveryPacket
    /\ Ingress!DropFlow.cookie = 3000000
    /\ Ingress!DropFlow.action = <<"drop">>
BY DEF Ingress!DefaultFilterFlow, Ingress!DefaultMirrorFlow, Ingress!DropFlow, Ingress!Flow,
       Ingress!DEFAULT_FLOW, Ingress!DEFAULT_ROUTING, Ingress!IdToCookie, Ingress!Offset,
       Ingress!Shift

(* A match of no bits is of every packet.                                     *)
LEMMA MatchesTyped ==
    /\ \A m \in Filters \cup IngressMirrors \cup IngressRoutes :
          m.src.len \in 0 .. IngressBits /\ m.dst.len \in 0 .. IngressBits
    /\ \A m \in IngressRoutes :
          m.src.len + m.dst.len = 0 <=> m = Ingress!EveryPacket
<1>1. \A n \in IngressNets : n.len \in 0 .. IngressBits
  BY DEF IngressNets
<1>2. \A m \in Filters \cup IngressMirrors \cup IngressRoutes :
          m.src \in IngressNets /\ m.dst \in IngressNets
  BY IngressAssumption
<1>3. ASSUME NEW n \in IngressNets, n.len = 0 PROVE n = [start |-> 0, len |-> 0]
  <2>1. n.start \in 0 .. 2 ^ IngressBits - 1 /\ Ingress!In(n.start, n)
    BY <1>3 DEF IngressNets, IngressIps
  <2>2. n.start - (n.start % 2 ^ IngressBits) = n.start
    BY <1>3, <2>1, IngressAssumption DEF Ingress!In
  <2>3. n.start % 2 ^ IngressBits = n.start
    <3>1. PICK p \in Nat \ {0} : p = 2 ^ IngressBits
      BY IngressAssumption
    <3>2. n.start \in 0 .. p - 1
      BY <2>1, <3>1
    <3>3. n.start % p = n.start
      BY <3>2
    <3>4. QED
      BY <3>1, <3>3
  <2>4. n.start = 0
    BY <2>1, <2>2, <2>3, IngressAssumption
  <2>5. n \in [start : IngressIps, len : 0 .. IngressBits]
    BY <1>3 DEF IngressNets
  <2>6. QED
    BY <1>3, <2>4, <2>5
<1>4. \A m \in IngressRoutes : m.src.len + m.dst.len = 0 => m = Ingress!EveryPacket
  <2>1. SUFFICES ASSUME NEW m \in IngressRoutes, m.src.len + m.dst.len = 0
                 PROVE  m = Ingress!EveryPacket
    OBVIOUS
  <2>2. m.src.len = 0 /\ m.dst.len = 0
    BY <1>1, <1>2, <2>1, IngressAssumption
  <2>3. m.src = [start |-> 0, len |-> 0] /\ m.dst = [start |-> 0, len |-> 0]
    BY <1>2, <1>3, <2>2
  <2>4. m \in [port : {AnyPort}, src : IngressNets, dst : IngressNets]
    BY IngressAssumption
  <2>5. QED
    BY <2>3, <2>4 DEF Ingress!EveryPacket
<1>5. \A m \in IngressRoutes : m = Ingress!EveryPacket => m.src.len + m.dst.len = 0
  BY DEF Ingress!EveryPacket
<1>6. QED
  BY <1>1, <1>2, <1>4, <1>5

(* What is installed, and what it replaces.                                   *)
LEMMA Installed ==
    \A fl, new, f :
        f \in Ingress!With(fl, new) <=>
            f \in new \/ (f \in fl /\ \A e \in new : Place(f) # Place(e))
BY DEF Ingress!With, Place

(* The invariant holds at first, and every step keeps it.                     *)
LEMMA IngressStarts == Ingress!Init /\ FewMirrors => IngressInv
<1>1. SUFFICES ASSUME Ingress!Init, FewMirrors PROVE IngressInv
  OBVIOUS
<1>2. RowsFit
  BY <1>1 DEF Ingress!Init, RowsFit, RowsUnique, Ingress!Kinds, FewMirrors
<1>3. IngressFit(filters, routes, ingressFlow)
  BY <1>1 DEF Ingress!Init, IngressFit, NoDefault
<1>4. AskedOf(ingressRequest)
  BY <1>1 DEF Ingress!Init, AskedOf
<1>5. QED
  BY <1>2, <1>3, <1>4 DEF IngressInv

(* A filter takes the place of the one of its match.                          *)
LEMMA SetFilterKeeps ==
    ASSUME FewMirrors, IngressInv,
           NEW match \in Filters, NEW verdict \in BOOLEAN, Ingress!SetFilter(match, verdict)
    PROVE  IngressInv'
<1> DEFINE old == {f \in filters : f.match = match}
           new == [match |-> match, accept |-> verdict,
                   id |-> IF old = {} THEN ingressNext["filter"] ELSE (CHOOSE f \in old : TRUE).id]
<1>1. /\ RowsFit /\ IngressFit(filters, routes, ingressFlow)
      /\ filters \subseteq FilterRow /\ routes \subseteq RouteRow
  BY DEF IngressInv, RowsFit
<1>2. /\ new.id <= MaxIds
      /\ filters' = Ingress!Without(filters, match) \cup {new}
      /\ ingressFlow' = Ingress!With(ingressFlow, {Ingress!FilterFlow(new)})
      /\ \/ ingressNext' = ingressNext
         \/ ingressNext' = [ingressNext EXCEPT !["filter"] = @ + 1]
      /\ UNCHANGED <<routes, mirrors, heard, ingressRequest>>
  BY DEF Ingress!SetFilter, Ingress!Counted
<1>3. new \in FilterRow
  <2>1. new.id \in 1 .. MaxIds
    <3>1. CASE old = {}
      <4>1. ingressNext["filter"] \in Nat \ {0}
        BY <1>1 DEF RowsFit, Ingress!Kinds
      <4>2. QED
        BY <1>2, <3>1, <4>1 DEF FewMirrors
    <3>2. CASE old # {}
      <4>1. PICK x : x = CHOOSE f \in old : TRUE
        OBVIOUS
      <4>2. x \in FilterRow
        BY <1>1, <3>2, <4>1
      <4>3. QED
        BY <3>2, <4>1, <4>2 DEF FilterRow
    <3>3. QED
      BY <3>1, <3>2
  <2>2. QED
    BY <2>1 DEF FilterRow
<1>4. new.match = match
  OBVIOUS
<1> HIDE DEF new
<1>5. RowsFit'
  <2>1. filters' \subseteq FilterRow /\ RowsUnique(filters)'
    BY <1>1, <1>2, <1>3, <1>4 DEF RowsFit, RowsUnique, Ingress!Without
  <2>2. ingressNext'["route"] = ingressNext["route"] /\ ingressNext'["mirror"] = ingressNext["mirror"]
    BY <1>1, <1>2 DEF RowsFit, Ingress!Kinds
  <2>3. ingressNext' \in [Ingress!Kinds -> Nat \ {0}]
    BY <1>1, <1>2 DEF RowsFit, Ingress!Kinds
  <2>4. QED
    BY <1>1, <1>2, <2>1, <2>2, <2>3 DEF RowsFit, RowsUnique
<1>6. IngressFit(filters', routes', ingressFlow')
  <2> DEFINE nf == Ingress!FilterFlow(new)
  <2>1. /\ Place(nf) = <<"filter", 2 + match.src.len + match.dst.len, match>>
        /\ 2 + match.src.len + match.dst.len >= 2
    BY <1>3, <1>4, IngressFields, MatchesTyped DEF Place
  <2>2. \A f : f \in ingressFlow' <=> f = nf \/ (f \in ingressFlow /\ Place(f) # Place(nf))
    BY <1>2, Installed
  <2> HIDE DEF nf
  <2>3. ASSUME NEW f \in ingressFlow'
        PROVE  \/ f \in {Ingress!DefaultFilterFlow, Ingress!DefaultMirrorFlow, Ingress!DropFlow}
               \/ \E x \in filters' : f = Ingress!FilterFlow(x)
               \/ \E x \in routes' : f \in OfRoute(x)
               \/ \E x \in MirrorRow : f = Ingress!MirrorFlow(x)
    <3>1. CASE f = nf
      BY <1>2, <3>1 DEF nf
    <3>2. CASE f \in ingressFlow /\ Place(f) # Place(nf)
      <4>1. ASSUME NEW x \in filters, f = Ingress!FilterFlow(x) PROVE x \in filters'
        <5>1. Place(f) = <<"filter", 2 + x.match.src.len + x.match.dst.len, x.match>>
          BY <1>1, <4>1, IngressFields DEF Place
        <5>2. x.match # match
          BY <2>1, <3>2, <5>1
        <5>3. QED
          BY <1>2, <5>2 DEF Ingress!Without
      <4>2. QED
        BY <1>1, <1>2, <3>2, <4>1 DEF IngressFit
    <3>3. QED
      BY <2>2, <3>1, <3>2
  <2>4. Ingress!DefaultFilterFlow \in ingressFlow' /\ Ingress!DefaultMirrorFlow \in ingressFlow'
    BY <1>1, <2>1, <2>2, DefaultFields DEF IngressFit, Place
  <2>5. ASSUME NEW x \in filters' PROVE Ingress!FilterFlow(x) \in ingressFlow'
    <3>1. CASE x = new
      BY <2>2, <3>1 DEF nf
    <3>2. CASE x \in filters /\ x.match # match
      <4>1. Ingress!FilterFlow(x) \in ingressFlow
        BY <1>1, <3>2 DEF IngressFit
      <4>2. Place(Ingress!FilterFlow(x)) = <<"filter", 2 + x.match.src.len + x.match.dst.len, x.match>>
        BY <1>1, <3>2, IngressFields DEF Place
      <4>3. QED
        BY <2>1, <2>2, <3>2, <4>1, <4>2
    <3>3. QED
      BY <1>2, <3>1, <3>2 DEF Ingress!Without
  <2>6. ASSUME NEW x \in routes' PROVE \E f \in OfRoute(x) : f \in ingressFlow'
    <3>1. PICK f \in OfRoute(x) : f \in ingressFlow
      BY <1>1, <1>2 DEF IngressFit
    <3>2. f.table = "route"
      BY <1>1, <1>2, IngressFields
    <3>3. QED
      BY <2>1, <2>2, <3>1, <3>2 DEF Place
  <2>7. Ingress!DropFlow \in ingressFlow' => NoDefault(routes')
    <3>1. Ingress!DropFlow # nf
      BY <2>1, DefaultFields DEF Place
    <3>2. QED
      BY <1>1, <1>2, <2>2, <3>1 DEF IngressFit, NoDefault
  <2>8. QED
    BY <2>3, <2>4, <2>5, <2>6, <2>7 DEF IngressFit
<1>7. AskedOf(ingressRequest)'
  BY <1>2 DEF IngressInv, AskedOf, NoDefault
<1>8. QED
  BY <1>5, <1>6, <1>7 DEF IngressInv

(* Routes come and are completed: every one has its flow, and the place of    *)
(* the flow that drops is that of the default route.                          *)
LEMMA RoutesInstalled ==
    ASSUME FewMirrors, NEW fs \in SUBSET FilterRow, NEW before \in SUBSET RouteRow,
           NEW now \in SUBSET RouteRow, NEW fl, NEW fresh, NEW copied,
           IngressFit(fs, before, fl), RowsUnique(now),
           \A f \in fresh : \E x \in now : f \in OfRoute(x),
           \A f \in copied : \E x \in MirrorRow : f = Ingress!MirrorFlow(x),
           \A x \in before :
              (\E y \in now : OfRoute(y) = OfRoute(x))
              \/ \E f \in fresh : f.match = x.match,
           \A x \in now :
              (\E y \in before : OfRoute(y) = OfRoute(x))
              \/ \E f \in fresh : f \in OfRoute(x)
    PROVE  IngressFit(fs, now, Ingress!With(fl, fresh \cup copied))
<1> DEFINE nfl == Ingress!With(fl, fresh \cup copied)
<1>1. \A f : f \in nfl <=> f \in fresh \cup copied
                          \/ (f \in fl /\ \A e \in fresh \cup copied : Place(f) # Place(e))
  BY Installed
<1> HIDE DEF nfl
<1>2. \A f \in fresh : f.table = "route"
  BY IngressFields
<1>3. \A f \in copied : f.table = "mirror" /\ f.prio >= 2
  BY IngressFields, MatchesTyped DEF MirrorRow
<1>4. \A x, y \in RouteRow : \A f \in OfRoute(x), e \in OfRoute(y) :
          x.match = y.match => Place(f) = Place(e)
  BY IngressFields DEF Place
<1>5. ASSUME NEW f \in nfl
      PROVE  \/ f \in {Ingress!DefaultFilterFlow, Ingress!DefaultMirrorFlow, Ingress!DropFlow}
             \/ \E x \in fs : f = Ingress!FilterFlow(x)
             \/ \E x \in now : f \in OfRoute(x)
             \/ \E x \in MirrorRow : f = Ingress!MirrorFlow(x)
  <2>1. CASE f \in fresh \cup copied
    BY <2>1
  <2>2. CASE f \in fl /\ \A e \in fresh \cup copied : Place(f) # Place(e)
    <3>1. ASSUME NEW x \in before, f \in OfRoute(x) PROVE \E y \in now : f \in OfRoute(y)
      <4>1. CASE \E y \in now : OfRoute(y) = OfRoute(x)
        BY <3>1, <4>1
      <4>2. CASE \E e \in fresh : e.match = x.match
        <5>1. PICK e \in fresh : e.match = x.match
          BY <4>2
        <5>2. PICK y \in now : e \in OfRoute(y)
          BY <5>1
        <5>3. y.match = x.match
          BY <5>1, <5>2, IngressFields
        <5>4. Place(f) = Place(e)
          BY <1>4, <3>1, <5>2, <5>3
        <5>5. QED
          BY <2>2, <5>1, <5>4
      <4>3. QED
        BY <4>1, <4>2
    <3>2. QED
      BY <2>2, <3>1 DEF IngressFit
  <2>3. QED
    BY <1>1, <2>1, <2>2
<1>6. Ingress!DefaultFilterFlow \in nfl /\ Ingress!DefaultMirrorFlow \in nfl
  BY <1>1, <1>2, <1>3, DefaultFields DEF IngressFit, Place
<1>7. ASSUME NEW x \in fs PROVE Ingress!FilterFlow(x) \in nfl
  <2>1. Ingress!FilterFlow(x) \in fl /\ Ingress!FilterFlow(x).table = "filter"
    BY IngressFields DEF IngressFit
  <2>2. QED
    BY <1>1, <1>2, <1>3, <2>1 DEF Place
<1>8. ASSUME NEW x \in now PROVE \E f \in OfRoute(x) : f \in nfl
  <2>1. CASE \E f \in fresh : f \in OfRoute(x)
    BY <1>1, <2>1
  <2>2. CASE /\ \E y \in before : OfRoute(y) = OfRoute(x)
             /\ ~\E f \in fresh : f \in OfRoute(x)
    <3>1. PICK y \in before : OfRoute(y) = OfRoute(x)
      BY <2>2
    <3>2. PICK f \in OfRoute(x) : f \in fl
      BY <3>1 DEF IngressFit
    <3>3. ASSUME NEW e \in fresh PROVE Place(f) # Place(e)
      <4>1. PICK z \in now : e \in OfRoute(z)
        OBVIOUS
      <4>2. z # x
        BY <2>2, <4>1
      <4>3. z.match # x.match
        BY <4>2 DEF RowsUnique
      <4>4. e.match = z.match /\ f.match = x.match
        BY <3>2, <4>1, IngressFields
      <4>5. QED
        BY <4>3, <4>4 DEF Place
    <3>4. f.table = "route"
      BY <3>2, IngressFields
    <3>5. f \in nfl
      BY <1>1, <1>3, <3>2, <3>3, <3>4 DEF Place
    <3>6. QED
      BY <3>2, <3>5
  <2>3. QED
    BY <2>1, <2>2
<1>9. ASSUME Ingress!DropFlow \in nfl, NEW x \in now, x.match = Ingress!EveryPacket PROVE FALSE
  <2>1. \A y \in RouteRow : y.match = Ingress!EveryPacket => y.match.src.len + y.match.dst.len = 0
    BY MatchesTyped DEF RouteRow
  <2>2. \A y \in RouteRow : \A f \in OfRoute(y) :
            y.match = Ingress!EveryPacket => Place(f) = Place(Ingress!DropFlow)
    BY <2>1, IngressFields, DefaultFields DEF Place
  <2>3. Ingress!DropFlow.cookie = 3000000
    BY DefaultFields
  <2>4. Ingress!DropFlow \notin fresh \cup copied
    <3>1. ASSUME NEW y \in now, Ingress!DropFlow \in OfRoute(y) PROVE FALSE
      <4>1. Ingress!DropFlow.cookie = y.id * 65536 + 3000000 /\ y.id \in 1 .. MaxIds
        BY <3>1, IngressFields DEF RouteRow
      <4>2. QED
        BY <2>3, <4>1 DEF FewMirrors
    <3>2. QED
      BY <1>3, <3>1, DefaultFields
  <2>5. Ingress!DropFlow \in fl /\ \A e \in fresh \cup copied : Place(Ingress!DropFlow) # Place(e)
    BY <1>1, <1>9, <2>4
  <2>6. CASE \E f \in fresh : f \in OfRoute(x)
    BY <1>9, <2>2, <2>5, <2>6
  <2>7. CASE \E y \in before : OfRoute(y) = OfRoute(x)
    <3>1. PICK y \in before : OfRoute(y) = OfRoute(x)
      BY <2>7
    <3>2. Ingress!PacketInFlow(y) \in OfRoute(x) /\ Ingress!PacketInFlow(y) \in OfRoute(y)
      BY <3>1 DEF OfRoute
    <3>3. y.match = x.match
      BY <3>2, IngressFields
    <3>4. QED
      BY <1>9, <2>5, <3>3 DEF IngressFit, NoDefault
  <2>8. QED
    BY <2>6, <2>7
<1>10. QED
  BY <1>5, <1>6, <1>7, <1>8, <1>9 DEF IngressFit, NoDefault, nfl

\* The routes T are those of S, completed by up.
CompletedBy(T, S, up) ==
    /\ S \in SUBSET RouteRow /\ RowsUnique(S) /\ \A x, y \in S : x.id = y.id => x = y
    /\ up \in [S -> RouteRow]
    /\ \A x \in S : up[x].match = x.match /\ up[x].id = x.id /\ up[x].gateway = x.gateway
    /\ \A y : y \in T <=> \E x \in S : y = up[x]

(* The flows of a route do not depend on whether it is complete.              *)
LEMMA Completed ==
    ASSUME NEW T, NEW S, NEW up, CompletedBy(T, S, up)
    PROVE  /\ T \subseteq RouteRow /\ RowsUnique(T)
           /\ \A x, y \in T : x.id = y.id => x = y
           /\ \A x \in S : OfRoute(up[x]) = OfRoute(x)
           /\ \A y \in T : \E x \in S : y = up[x] /\ OfRoute(y) = OfRoute(x)
<1>1. \A x \in S : OfRoute(up[x]) = OfRoute(x)
  BY DEF CompletedBy, OfRoute, Ingress!PacketInFlow, Ingress!RoutingFlow, Ingress!Flow
<1>2. QED
  BY <1>1 DEF CompletedBy, RowsUnique

(* A route that is set replaces the one of its match, under a new identifier, *)
(* and routes of its gateway get the MAC that was heard.                      *)
LEMMA SetRouteInstalls ==
    ASSUME FewMirrors, IngressInv,
           NEW match \in IngressRoutes, NEW gw \in IngressGateways, Ingress!SetRoute(match, gw)
    PROVE  IngressInv'
<1> DEFINE new == [match |-> match, id |-> ingressNext["route"], gateway |-> gw,
                   mac |-> IF gw \in heard THEN gw ELSE Ingress!NoMac]
           others == Ingress!Without(routes, match)
           over == {r \in others : gw \in heard /\ r.gateway = gw /\ r.mac # gw}
           up == [r \in others |-> IF r \in over THEN [r EXCEPT !.mac = gw] ELSE r]
           heardOf == {up[r] : r \in others}
           fresh == IF gw \in heard THEN {Ingress!RoutingFlow(r) : r \in over \cup {new}}
                    ELSE {Ingress!PacketInFlow(new)}
<1>1. /\ RowsFit /\ IngressFit(filters, routes, ingressFlow)
      /\ filters \subseteq FilterRow /\ routes \subseteq RouteRow
  BY DEF IngressInv, RowsFit
<1>2. /\ ingressRequest = Ingress!Idle /\ new.id <= MaxIds
      /\ routes' = (others \ over) \cup {new} \cup {[r EXCEPT !.mac = gw] : r \in over}
      /\ ingressFlow' = Ingress!With(ingressFlow, fresh)
      /\ ingressNext' = [ingressNext EXCEPT !["route"] = @ + 1]
      /\ UNCHANGED <<filters, mirrors, heard, ingressRequest>>
  BY DEF Ingress!SetRoute, Ingress!Counted
<1>3. routes' = heardOf \cup {new}
  BY <1>2
<1>4. new \in RouteRow
  <2>1. ingressNext["route"] \in Nat \ {0}
    BY <1>1 DEF RowsFit, Ingress!Kinds
  <2>2. new.id \in 1 .. MaxIds
    BY <1>2, <2>1 DEF FewMirrors
  <2>3. QED
    BY <2>2 DEF RouteRow
<1>5. /\ others \in SUBSET RouteRow /\ RowsUnique(others)
      /\ \A x, y \in others : x.id = y.id => x = y
  BY <1>1 DEF RowsFit, RowsUnique, Ingress!Without
<1>6. \A x \in others : up[x] \in RouteRow /\ up[x].match = x.match /\ up[x].id = x.id
                        /\ up[x].gateway = x.gateway
  BY <1>5 DEF RouteRow
<1>7. up \in [others -> RouteRow]
  BY <1>6
<1>8. new.match = match /\ new.id = ingressNext["route"] /\ new.gateway = gw
  OBVIOUS
<1>9. \A x \in others : x \in routes /\ x.match # match
  BY DEF Ingress!Without
<1>10. \A f \in fresh : f \in OfRoute(new) \/ \E x \in others : f \in OfRoute(x)
  BY DEF OfRoute
<1>11. \E f \in fresh : f \in OfRoute(new)
  BY DEF OfRoute
<1> HIDE DEF new, over, up, fresh
<1>12. /\ heardOf \subseteq RouteRow /\ RowsUnique(heardOf)
       /\ \A x, y \in heardOf : x.id = y.id => x = y
       /\ \A x \in others : OfRoute(up[x]) = OfRoute(x)
       /\ \A y \in heardOf : \E x \in others : y = up[x] /\ OfRoute(y) = OfRoute(x)
  <2>1. CompletedBy(heardOf, others, up)
    BY <1>5, <1>6, <1>7 DEF CompletedBy
  <2> HIDE DEF others, heardOf
  <2>2. QED
    BY <2>1, Completed
<1>13. \A y \in heardOf : y.match # match /\ y.id < new.id
  BY <1>1, <1>6, <1>8, <1>9, <1>12 DEF RowsFit
<1>14. RowsUnique(routes')
  BY <1>3, <1>8, <1>12, <1>13 DEF RowsUnique
<1>15. RowsFit'
  <2>1. /\ ingressNext' \in [Ingress!Kinds -> Nat \ {0}]
        /\ ingressNext'["route"] = new.id + 1 /\ ingressNext'["mirror"] = ingressNext["mirror"]
        /\ new.id \in Nat
    BY <1>1, <1>2, <1>8 DEF RowsFit, Ingress!Kinds
  <2>2. \A x \in routes' : x.id < ingressNext'["route"]
    BY <1>3, <1>12, <1>13, <2>1 DEF RouteRow
  <2>3. \A x, y \in routes' : x.id = y.id => x = y
    <3>1. SUFFICES ASSUME NEW x \in routes', NEW y \in routes', x.id = y.id PROVE x = y
      OBVIOUS
    <3>2. ~(new.id < new.id)
      BY <2>1
    <3>3. QED
      BY <1>3, <1>12, <1>13, <3>1, <3>2
  <2>4. routes' \subseteq RouteRow
    BY <1>3, <1>4, <1>12
  <2>5. QED
    BY <1>1, <1>2, <1>14, <2>1, <2>2, <2>3, <2>4 DEF RowsFit, RowsUnique
<1>16. IngressFit(filters', routes', ingressFlow')
  <2>1. \A f \in fresh : \E x \in routes' : f \in OfRoute(x)
    BY <1>3, <1>10, <1>12
  <2>2. \A x \in routes : (\E y \in routes' : OfRoute(y) = OfRoute(x))
                          \/ \E f \in fresh : f.match = x.match
    <3>1. SUFFICES ASSUME NEW x \in routes
                   PROVE  (\E y \in routes' : OfRoute(y) = OfRoute(x))
                          \/ \E f \in fresh : f.match = x.match
      OBVIOUS
    <3>2. CASE x \in others
      BY <1>3, <1>12, <3>2
    <3>3. CASE x.match = match
      BY <1>4, <1>8, <1>11, <3>3, IngressFields
    <3>4. QED
      BY <3>2, <3>3 DEF Ingress!Without
  <2>3. \A x \in routes' : (\E y \in routes : OfRoute(y) = OfRoute(x))
                           \/ \E f \in fresh : f \in OfRoute(x)
    BY <1>3, <1>9, <1>11, <1>12
  <2>4. routes' \in SUBSET RouteRow
    BY <1>3, <1>4, <1>12
  <2>5. IngressFit(filters, routes', Ingress!With(ingressFlow, fresh \cup {}))
    <3>1. \A f \in {} : \E x \in MirrorRow : f = Ingress!MirrorFlow(x)
      OBVIOUS
    <3>2. filters \in SUBSET FilterRow /\ routes \in SUBSET RouteRow
      BY <1>1
    <3>3. QED
      BY <1>1, <1>14, <2>1, <2>2, <2>3, <2>4, <3>1, <3>2, RoutesInstalled
  <2>6. fresh \cup {} = fresh
    OBVIOUS
  <2>7. QED
    BY <1>2, <2>5, <2>6
<1>17. AskedOf(ingressRequest)'
  BY <1>2 DEF AskedOf
<1>18. QED
  BY <1>15, <1>16, <1>17 DEF IngressInv

(* A mirror that is set replaces the one of its match.                        *)
LEMMA SetMirrorKeeps ==
    ASSUME FewMirrors, IngressInv,
           NEW match \in IngressMirrors, NEW gw \in IngressStations, Ingress!SetMirror(match, gw)
    PROVE  IngressInv'
<1> DEFINE new == [match |-> match, id |-> ingressNext["mirror"], gateway |-> gw]
<1>1. RowsFit
  BY DEF IngressInv
<1>2. /\ new.id < FirstMirror + MaxIds /\ ingressRequest = Ingress!Idle
      /\ mirrors' = Ingress!Without(mirrors, match) \cup {new}
      /\ ingressNext' = [ingressNext EXCEPT !["mirror"] = @ + 1]
      /\ UNCHANGED <<filters, routes, heard, ingressFlow, ingressRequest>>
  BY DEF Ingress!SetMirror, Ingress!Counted
<1>3. new \in MirrorRow
  <2>1. ingressNext["mirror"] \in Nat /\ ingressNext["mirror"] >= FirstMirror
    BY <1>1 DEF RowsFit, Ingress!Kinds
  <2>2. QED
    BY <1>2, <2>1 DEF FewMirrors, MirrorRow
<1>4. mirrors' \subseteq MirrorRow
  BY <1>1, <1>2, <1>3 DEF RowsFit, Ingress!Without
<1>5. /\ ingressNext' \in [Ingress!Kinds -> Nat \ {0}] /\ ingressNext'["mirror"] >= FirstMirror
      /\ ingressNext'["route"] = ingressNext["route"]
  BY <1>1, <1>2 DEF RowsFit, Ingress!Kinds, FewMirrors
<1>6. RowsFit'
  BY <1>1, <1>2, <1>4, <1>5 DEF RowsFit, RowsUnique
<1>7. QED
  BY <1>2, <1>6 DEF IngressInv, IngressFit, AskedOf, NoDefault

(* A MAC that is heard goes into the routes of the gateway and their flows.   *)
LEMMA IngressArpKeeps ==
    ASSUME FewMirrors, IngressInv,
           NEW gw \in IngressGateways, NEW toRouter \in BOOLEAN, Ingress!ArpIn(gw, toRouter)
    PROVE  IngressInv'
<1> DEFINE over == {r \in routes : r.gateway = gw /\ r.mac # gw}
           fresh == {Ingress!RoutingFlow(r) : r \in over}
<1>1. /\ RowsFit /\ IngressFit(filters, routes, ingressFlow) /\ AskedOf(ingressRequest)
      /\ filters \in SUBSET FilterRow /\ routes \in SUBSET RouteRow
      /\ RowsUnique(routes) /\ \A x, y \in routes : x.id = y.id => x = y
  BY DEF IngressInv, RowsFit
<1>2. PICK heardOf \in SUBSET mirrors :
          /\ routes' = Ingress!UpdateMirroringTbl(Ingress!UpdateRoutingTbl(gw), heardOf, gw)
          /\ ingressFlow' = Ingress!With(ingressFlow,
                                fresh \cup {Ingress!MirrorFlow(m) : m \in heardOf})
          /\ UNCHANGED <<filters, mirrors, ingressNext, ingressRequest>>
  BY DEF Ingress!ArpIn
<1> DEFINE up == [r \in routes |->
                    LET s == IF r.gateway = gw THEN [r EXCEPT !.mac = gw] ELSE r IN
                    IF \E m \in heardOf : m.match = s.match THEN [s EXCEPT !.mac = gw] ELSE s]
           now == {up[r] : r \in routes}
           copied == {Ingress!MirrorFlow(m) : m \in heardOf}
<1>3. routes' = now
  <2>1. PICK rows : rows = {IF r.gateway = gw THEN [r EXCEPT !.mac = gw] ELSE r : r \in routes}
    OBVIOUS
  <2>2. routes' = {IF \E m \in heardOf : m.match = s.match THEN [s EXCEPT !.mac = gw] ELSE s :
                      s \in rows}
    BY <1>2, <2>1 DEF Ingress!UpdateMirroringTbl, Ingress!UpdateRoutingTbl
  <2>3. \A r \in routes :
            \E s \in rows :
               /\ s = IF r.gateway = gw THEN [r EXCEPT !.mac = gw] ELSE r
               /\ up[r] = IF \E m \in heardOf : m.match = s.match THEN [s EXCEPT !.mac = gw] ELSE s
    BY <2>1
  <2>4. \A s \in rows : \E r \in routes :
            up[r] = IF \E m \in heardOf : m.match = s.match THEN [s EXCEPT !.mac = gw] ELSE s
    BY <2>1
  <2> HIDE DEF up
  <2>5. ASSUME NEW x \in routes' PROVE x \in now
    <3>1. PICK s \in rows :
              x = IF \E m \in heardOf : m.match = s.match THEN [s EXCEPT !.mac = gw] ELSE s
      BY <2>2
    <3>2. PICK r \in routes :
              up[r] = IF \E m \in heardOf : m.match = s.match THEN [s EXCEPT !.mac = gw] ELSE s
      BY <2>4
    <3>3. x = up[r]
      BY <3>1, <3>2
    <3>4. QED
      BY <3>3
  <2>6. \A r \in routes : up[r] \in routes'
    BY <2>2, <2>3
  <2>7. QED
    BY <2>5, <2>6
<1>4. \A x \in routes : /\ up[x] \in RouteRow /\ up[x].match = x.match /\ up[x].id = x.id
                        /\ up[x].gateway = x.gateway
  <2>1. SUFFICES ASSUME NEW x \in routes
                 PROVE  /\ up[x] \in RouteRow /\ up[x].match = x.match /\ up[x].id = x.id
                        /\ up[x].gateway = x.gateway
    OBVIOUS
  <2>2. PICK s : s = IF x.gateway = gw THEN [x EXCEPT !.mac = gw] ELSE x
    OBVIOUS
  <2>3. s \in RouteRow /\ s.match = x.match /\ s.id = x.id /\ s.gateway = x.gateway
    BY <1>1, <2>2 DEF RouteRow
  <2>4. up[x] = IF \E m \in heardOf : m.match = s.match THEN [s EXCEPT !.mac = gw] ELSE s
    BY <2>2
  <2>5. QED
    BY <2>3, <2>4 DEF RouteRow
<1>5. up \in [routes -> RouteRow]
  BY <1>4
<1>6. \A f \in fresh : \E x \in routes : f \in OfRoute(x)
  BY DEF OfRoute
<1>7. \A f \in copied : \E x \in MirrorRow : f = Ingress!MirrorFlow(x)
  BY <1>1 DEF RowsFit
<1> HIDE DEF up, fresh, copied
<1>8. /\ now \in SUBSET RouteRow /\ RowsUnique(now)
      /\ \A x, y \in now : x.id = y.id => x = y
      /\ \A x \in routes : up[x] \in now /\ OfRoute(up[x]) = OfRoute(x)
      /\ \A y \in now : \E x \in routes : y = up[x] /\ OfRoute(y) = OfRoute(x)
  <2>1. /\ now \subseteq RouteRow /\ RowsUnique(now)
        /\ \A x, y \in now : x.id = y.id => x = y
        /\ \A x \in routes : OfRoute(up[x]) = OfRoute(x)
        /\ \A y \in now : \E x \in routes : y = up[x] /\ OfRoute(y) = OfRoute(x)
    <3>1. \A x \in routes : up[x].match = x.match /\ up[x].id = x.id /\ up[x].gateway = x.gateway
      BY <1>4
    <3>2. CompletedBy(now, routes, up)
      BY <1>1, <1>5, <3>1 DEF CompletedBy
    <3> HIDE DEF now
    <3>3. QED
      BY <3>2, Completed
  <2>2. QED
    BY <2>1
<1>9. \A y \in now : \E x \in routes : y.id = x.id /\ y.match = x.match
  BY <1>4, <1>8
<1> HIDE DEF now
<1>10. RowsFit'
  <2>1. \A x \in now : x.id < ingressNext["route"]
    BY <1>1, <1>9 DEF RowsFit
  <2>2. QED
    BY <1>1, <1>2, <1>3, <1>8, <2>1 DEF RowsFit, RowsUnique
<1>11. IngressFit(filters', routes', ingressFlow')
  <2>1. \A f \in fresh : \E x \in now : f \in OfRoute(x)
    BY <1>6, <1>8
  <2>2. /\ \A x \in routes : (\E y \in now : OfRoute(y) = OfRoute(x))
                             \/ \E f \in fresh : f.match = x.match
        /\ \A x \in now : (\E y \in routes : OfRoute(y) = OfRoute(x))
                          \/ \E f \in fresh : f \in OfRoute(x)
    BY <1>8
  <2>3. IngressFit(filters, now, Ingress!With(ingressFlow, fresh \cup copied))
    BY <1>1, <1>7, <1>8, <2>1, <2>2, RoutesInstalled
  <2>4. QED
    BY <1>2, <1>3, <2>3 DEF copied
<1>12. AskedOf(ingressRequest)'
  <2>1. NoDefault(routes) => NoDefault(now)
    BY <1>9 DEF NoDefault
  <2>2. \A x \in routes : \E y \in now : OfRoute(y) = OfRoute(x)
    BY <1>8
  <2>3. PICK q : q = ingressRequest
    OBVIOUS
  <2>4. (\E x \in routes : q.flows \subseteq OfRoute(x))
           => \E y \in now : q.flows \subseteq OfRoute(y)
    BY <2>2
  <2>5. QED
    BY <1>1, <1>2, <1>3, <2>1, <2>3, <2>4 DEF AskedOf
<1>13. QED
  BY <1>10, <1>11, <1>12 DEF IngressInv

(* Identifiers are at most 15, so that the cookies of the kinds are apart.    *)
LEMMA IngressIds ==
    ASSUME FewMirrors
    PROVE  /\ \A x \in FilterRow : x.id \in 0 .. 15
           /\ \A x \in RouteRow : x.id \in 1 .. 15
           /\ \A x \in MirrorRow : x.id \in 1 .. 15
BY DEF FilterRow, RouteRow, MirrorRow, FewMirrors

(* What cookies decode to.                                                    *)
LEMMA IngressDecode ==
    \A i \in 0 .. 15 :
       /\ Ingress!CookieToId("route", i * 65536 + 3000000) = i
       /\ Ingress!CookieToId("route", i * 65536 + 1000000) = 65505 + i
       /\ Ingress!CookieToId("route", i * 65536 + 2000000) = 65520 + i
       /\ Ingress!CookieToId("mirror", i * 65536 + 2000000) = i
       /\ Ingress!CookieToId("mirror", i * 65536 + 3000000) = 15 + i
       /\ Ingress!CookieToId("mirror", i * 65536 + 1000000) = 65520 + i
<1>1. /\ \A n : Ingress!CookieToId("route", n) = ((n - 3000000) \div 65536) % 65536
      /\ \A n : Ingress!CookieToId("mirror", n) = ((n - 2000000) \div 65536) % 65536
  BY DEF Ingress!CookieToId, Ingress!Offset, Ingress!Shift
<1>2. SUFFICES ASSUME NEW i \in 0 .. 15
               PROVE  /\ ((i * 65536 + 3000000 - 3000000) \div 65536) % 65536 = i
                      /\ ((i * 65536 + 1000000 - 3000000) \div 65536) % 65536 = 65505 + i
                      /\ ((i * 65536 + 2000000 - 3000000) \div 65536) % 65536 = 65520 + i
                      /\ ((i * 65536 + 2000000 - 2000000) \div 65536) % 65536 = i
                      /\ ((i * 65536 + 3000000 - 2000000) \div 65536) % 65536 = 15 + i
                      /\ ((i * 65536 + 1000000 - 2000000) \div 65536) % 65536 = 65520 + i
  BY <1>1
<1>3. QED
  BY Z3

(* A deletion of a row that a client names is of the flows of that row.       *)
LEMMA IngressAskKeeps ==
    ASSUME FewMirrors, IngressInv,
           \/ \E x \in routes : Ingress!AskDelete("route", x.id)
           \/ \E x \in mirrors : Ingress!AskDelete("mirror", x.id)
           \/ \E kind \in Ingress!Kinds : Ingress!AskDelete(kind, 0)
    PROVE  IngressInv'
<1>1. /\ RowsFit /\ IngressFit(filters, routes, ingressFlow)
      /\ filters \subseteq FilterRow /\ routes \subseteq RouteRow /\ mirrors \subseteq MirrorRow
  BY DEF IngressInv, RowsFit
<1>2. UNCHANGED <<filters, routes, mirrors, heard, ingressFlow, ingressNext>>
  BY DEF Ingress!AskDelete
<1>3. AskedOf(ingressRequest')
  <2>1. CASE \E x \in routes : Ingress!AskDelete("route", x.id)
    <3>1. PICK x \in routes : Ingress!AskDelete("route", x.id)
      BY <2>1
    <3>2. x.id \in 1 .. 15
      BY <1>1, IngressIds
    <3>3. PICK few \in SUBSET {f \in ingressFlow : Ingress!Chosen("route", x.id, f)} :
              few # {} /\ ingressRequest' = [kind |-> "route", flows |-> few]
      BY <3>1 DEF Ingress!AskDelete
    <3>4. ASSUME NEW f \in few PROVE f \in OfRoute(x)
      <4>1. f \in ingressFlow /\ Ingress!CookieToId("route", f.cookie) = x.id
        BY <3>2, <3>3 DEF Ingress!Chosen
      <4>2. ASSUME NEW y \in routes, f \in OfRoute(y) PROVE f \in OfRoute(x)
        <5>1. f.cookie = y.id * 65536 + 3000000 /\ y.id \in 0 .. 15
          BY <1>1, <4>2, IngressFields, IngressIds
        <5>2. y.id = x.id
          BY <4>1, <5>1, IngressDecode
        <5>3. QED
          BY <1>1, <4>2, <5>2 DEF RowsFit
      <4>3. ASSUME NEW y \in filters, f = Ingress!FilterFlow(y) PROVE FALSE
        <5>1. f.cookie = y.id * 65536 + 1000000 /\ y.id \in 0 .. 15
          BY <1>1, <4>3, IngressFields, IngressIds
        <5>2. QED
          BY <3>2, <4>1, <5>1, IngressDecode, SMT
      <4>4. ASSUME NEW y \in MirrorRow, f = Ingress!MirrorFlow(y) PROVE FALSE
        <5>1. f.cookie = y.id * 65536 + 2000000 /\ y.id \in 0 .. 15
          BY <1>1, <4>4, IngressFields, IngressIds
        <5>2. QED
          BY <3>2, <4>1, <5>1, IngressDecode, SMT
      <4>5. ASSUME f \in {Ingress!DefaultFilterFlow, Ingress!DefaultMirrorFlow, Ingress!DropFlow}
            PROVE  FALSE
        <5>1. \/ f.cookie = 0 * 65536 + 1000000 \/ f.cookie = 0 * 65536 + 2000000
              \/ f.cookie = 0 * 65536 + 3000000
          BY <4>5, DefaultFields
        <5>2. QED
          BY <3>2, <4>1, <5>1, IngressDecode, SMT
      <4>6. QED
        BY <1>1, <4>1, <4>2, <4>3, <4>4, <4>5 DEF IngressFit
    <3>5. QED
      BY <3>3, <3>4 DEF AskedOf
  <2>2. CASE \E x \in mirrors : Ingress!AskDelete("mirror", x.id)
    <3>1. PICK x \in mirrors : Ingress!AskDelete("mirror", x.id)
      BY <2>2
    <3>2. x.id \in 1 .. 15
      BY <1>1, IngressIds
    <3>3. PICK few \in SUBSET {f \in ingressFlow : Ingress!Chosen("mirror", x.id, f)} :
              few # {} /\ ingressRequest' = [kind |-> "mirror", flows |-> few]
      BY <3>1 DEF Ingress!AskDelete
    <3>4. ASSUME NEW f \in few
          PROVE  \/ \E y \in MirrorRow : f = Ingress!MirrorFlow(y)
                 \/ f = Ingress!DropFlow /\ NoDefault(routes)
      <4>1. f \in ingressFlow /\ Ingress!CookieToId("mirror", f.cookie) = x.id
        BY <3>2, <3>3 DEF Ingress!Chosen
      <4>2. ASSUME NEW y \in routes, f \in OfRoute(y) PROVE FALSE
        <5>1. f.cookie = y.id * 65536 + 3000000 /\ y.id \in 1 .. 15
          BY <1>1, <4>2, IngressFields, IngressIds
        <5>2. 15 + y.id = x.id
          BY <4>1, <5>1, IngressDecode
        <5>3. QED
          BY <3>2, <5>1, <5>2
      <4>3. ASSUME NEW y \in filters, f = Ingress!FilterFlow(y) PROVE FALSE
        <5>1. f.cookie = y.id * 65536 + 1000000 /\ y.id \in 0 .. 15
          BY <1>1, <4>3, IngressFields, IngressIds
        <5>2. QED
          BY <3>2, <4>1, <5>1, IngressDecode, SMT
      <4>4. ASSUME f \in {Ingress!DefaultFilterFlow, Ingress!DefaultMirrorFlow} PROVE FALSE
        <5>1. f.cookie = 0 * 65536 + 1000000 \/ f.cookie = 0 * 65536 + 2000000
          BY <4>4, DefaultFields
        <5>2. QED
          BY <3>2, <4>1, <5>1, IngressDecode, SMT
      <4>5. QED
        BY <1>1, <4>1, <4>2, <4>3, <4>4 DEF IngressFit
    <3>5. QED
      BY <3>3, <3>4 DEF AskedOf
  <2>3. CASE \E kind \in Ingress!Kinds : Ingress!AskDelete(kind, 0)
    BY <2>3 DEF Ingress!AskDelete
  <2>4. QED
    BY <2>1, <2>2, <2>3
<1>4. QED
  BY <1>1, <1>2, <1>3 DEF IngressInv, RowsFit, RowsUnique, IngressFit, AskedOf, NoDefault

(* A deletion takes the flows and the row away, and leaves the others alone.  *)
LEMMA IngressDeleteKeeps ==
    ASSUME FewMirrors, IngressInv, Ingress!Delete
    PROVE  IngressInv'
<1> DEFINE asked == ingressRequest.flows
           ids == {Ingress!CookieToId(ingressRequest.kind, f.cookie) : f \in asked}
           drops == \E f \in asked : f.prio = 1
           new == IF ingressRequest.kind # "filter" /\ drops THEN {Ingress!DropFlow} ELSE {}
<1>1. /\ RowsFit /\ IngressFit(filters, routes, ingressFlow) /\ AskedOf(ingressRequest)
      /\ filters \subseteq FilterRow /\ routes \subseteq RouteRow /\ mirrors \subseteq MirrorRow
      /\ RowsUnique(routes)
  BY DEF IngressInv, RowsFit
<1>2. /\ ingressRequest # Ingress!Idle /\ ingressRequest' = Ingress!Idle
      /\ ingressFlow' = Ingress!With(Ingress!FlowsWithout(asked), new)
      /\ ingressRequest.kind # "filter" => filters' = filters
      /\ routes' = IF ingressRequest.kind = "route" THEN {r \in routes : r.id \notin ids}
                   ELSE routes
      /\ mirrors' \subseteq mirrors
      /\ UNCHANGED <<heard, ingressNext>>
  BY DEF Ingress!Delete, Ingress!DEFAULT_ROUTING
<1>3. ingressRequest.kind \in {"route", "mirror"}
  BY <1>1, <1>2 DEF AskedOf
<1>4. filters' = filters /\ routes' \subseteq routes
  BY <1>2, <1>3
<1>5. RowsFit'
  BY <1>1, <1>2, <1>4 DEF RowsFit, RowsUnique
<1>6. \A f : f \in ingressFlow' <=>
          \/ f \in new
          \/ /\ f \in ingressFlow /\ \A e \in new : Place(f) # Place(e)
             /\ \A e \in asked : e.cookie # f.cookie \/ e.table # f.table
  BY <1>2, Installed DEF Ingress!FlowsWithout
<1>7. new \subseteq {Ingress!DropFlow} /\ (new # {} => drops)
  BY <1>3
<1>8. /\ \A f \in asked : f.table # "filter"
      /\ \A f \in asked : f.table = "mirror" => f.cookie # 2000000
  BY <1>1, <1>2, IngressFields, DefaultFields DEF AskedOf, MirrorRow, FewMirrors
<1>9. \A x \in filters : Ingress!FilterFlow(x).table = "filter"
  BY <1>1, IngressFields
<1>10. \A x \in routes' : x \in RouteRow
  BY <1>1, <1>4
<1>11. /\ \A x \in routes' : \A f \in OfRoute(x) : f \notin asked
       /\ \A x \in routes' : \A f \in OfRoute(x), e \in asked :
              e.table = "route" => e.cookie # f.cookie
       /\ \A x \in routes \ routes' : \A f \in OfRoute(x) :
              \E e \in asked : e.table = f.table /\ e.cookie = f.cookie
       /\ drops => NoDefault(routes')
  <2>1. CASE ingressRequest.kind = "route"
    <3>1. PICK x \in routes : asked \subseteq OfRoute(x)
      BY <1>1, <1>2, <2>1 DEF AskedOf
    <3>2. asked # {} /\ x.id \in 1 .. 15
      <4>1. asked # {}
        BY <1>1, <1>2, <2>1 DEF AskedOf
      <4>2. x.id \in 1 .. 15
        BY <1>1, IngressIds
      <4>3. QED
        BY <4>1, <4>2
    <3>3. \A f \in OfRoute(x) : f.cookie = x.id * 65536 + 3000000 /\ f.table = "route"
      BY <1>1, IngressFields
    <3>4. \A f \in asked : Ingress!CookieToId(ingressRequest.kind, f.cookie) = x.id
      BY <2>1, <3>1, <3>2, <3>3, IngressDecode
    <3>5. ids = {x.id}
      BY <3>2, <3>4
    <3>6. routes' = routes \ {x}
      BY <1>1, <1>2, <2>1, <3>5 DEF RowsFit
    <3>7. \A y \in routes' : y.id # x.id /\ y.id \in 0 .. 15
      BY <1>1, <3>6 DEF RowsFit, RouteRow, FewMirrors
    <3>8. \A y \in routes' : \A f \in OfRoute(y) : f.cookie = y.id * 65536 + 3000000
      BY <1>10, IngressFields
    <3>9. \A y \in routes' : \A f \in OfRoute(y), e \in OfRoute(x) : f.cookie # e.cookie
      BY <3>2, <3>3, <3>7, <3>8
    <3>10. drops => NoDefault(routes')
      <4>1. SUFFICES ASSUME drops, NEW y \in routes', y.match = Ingress!EveryPacket PROVE FALSE
        BY DEF NoDefault
      <4>2. PICK f \in asked : f.prio = 1
        BY <4>1
      <4>3. x.match \in IngressRoutes
        BY <1>1 DEF RouteRow
      <4>4. x.match.src.len + x.match.dst.len = 0
        BY <1>1, <3>1, <4>2, <4>3, IngressFields, MatchesTyped
      <4>5. x.match = y.match
        BY <4>1, <4>3, <4>4, MatchesTyped
      <4>6. QED
        BY <1>1, <3>6, <4>5 DEF RowsUnique
    <3>11. QED
      BY <3>1, <3>2, <3>3, <3>6, <3>9, <3>10
  <2>2. CASE ingressRequest.kind = "mirror"
    <3>1. \A f \in asked : \/ \E y \in MirrorRow : f = Ingress!MirrorFlow(y)
                           \/ f = Ingress!DropFlow /\ NoDefault(routes)
      BY <1>1, <1>2, <2>2 DEF AskedOf
    <3>2. routes' = routes
      BY <1>2, <2>2
    <3>3. \A y \in MirrorRow : Ingress!MirrorFlow(y).table = "mirror"
                               /\ Ingress!MirrorFlow(y).prio >= 2
      BY IngressFields, MatchesTyped DEF MirrorRow
    <3>4. drops => NoDefault(routes')
      BY <3>1, <3>2, <3>3
    <3>5. \A x \in routes : \A f \in OfRoute(x) : f.table = "route" /\ f.cookie # 3000000
      BY <1>1, IngressFields DEF RouteRow, FewMirrors
    <3>6. \A e \in asked : e.table = "route" => e.cookie = 3000000
      BY <3>1, <3>3, DefaultFields
    <3>7. QED
      BY <3>2, <3>4, <3>5, <3>6
  <2>3. QED
    BY <1>3, <2>1, <2>2
<1> HIDE DEF new, asked, drops, ids
<1>12. IngressFit(filters', routes', ingressFlow')
  <2>1. ASSUME NEW f \in ingressFlow'
        PROVE  \/ f \in {Ingress!DefaultFilterFlow, Ingress!DefaultMirrorFlow, Ingress!DropFlow}
               \/ \E x \in filters' : f = Ingress!FilterFlow(x)
               \/ \E x \in routes' : f \in OfRoute(x)
               \/ \E x \in MirrorRow : f = Ingress!MirrorFlow(x)
    <3>1. CASE f \in new
      BY <1>7, <3>1
    <3>2. CASE f \in ingressFlow /\ \A e \in asked : e.cookie # f.cookie \/ e.table # f.table
      BY <1>1, <1>4, <1>11, <3>2 DEF IngressFit
    <3>3. QED
      BY <1>6, <3>1, <3>2
  <2>2. Ingress!DefaultFilterFlow \in ingressFlow' /\ Ingress!DefaultMirrorFlow \in ingressFlow'
    BY <1>1, <1>6, <1>7, <1>8, DefaultFields DEF IngressFit, Place
  <2>3. ASSUME NEW x \in filters' PROVE Ingress!FilterFlow(x) \in ingressFlow'
    <3>1. Ingress!FilterFlow(x) \in ingressFlow /\ Ingress!FilterFlow(x).table = "filter"
      BY <1>1, <1>4, <1>9 DEF IngressFit
    <3>2. QED
      BY <1>6, <1>7, <1>8, <3>1, DefaultFields DEF Place
  <2>4. ASSUME NEW x \in routes' PROVE \E f \in OfRoute(x) : f \in ingressFlow'
    <3>1. PICK f \in OfRoute(x) : f \in ingressFlow
      BY <1>1, <1>4 DEF IngressFit
    <3>2. f.table = "route" /\ f.match = x.match
      BY <1>10, IngressFields
    <3>3. \A e \in asked : e.cookie # f.cookie \/ e.table # f.table
      BY <1>11, <3>2
    <3>4. ASSUME NEW e \in new PROVE Place(f) # Place(e)
      <4>1. NoDefault(routes') /\ e.match = Ingress!EveryPacket
        BY <1>7, <1>11, DefaultFields
      <4>2. QED
        BY <3>2, <4>1 DEF NoDefault, Place
    <3>5. QED
      BY <1>6, <3>1, <3>3, <3>4
  <2>5. Ingress!DropFlow \in ingressFlow' => NoDefault(routes')
    BY <1>1, <1>4, <1>6, <1>7, <1>11 DEF IngressFit, NoDefault
  <2>6. QED
    BY <2>1, <2>2, <2>3, <2>4, <2>5 DEF IngressFit
<1>13. AskedOf(ingressRequest)'
  BY <1>2 DEF AskedOf
<1>14. QED
  BY <1>5, <1>12, <1>13 DEF IngressInv

(* Every step of the ingress router keeps the invariant.                      *)
LEMMA IngressStep ==
    ASSUME FewMirrors, IngressInv, [Ingress!Next]_ingressVars
    PROVE  IngressInv'
<1>1. CASE \E match \in Filters, verdict \in BOOLEAN : Ingress!SetFilter(match, verdict)
  BY <1>1, SetFilterKeeps
<1>2. CASE \E match \in IngressRoutes, gw \in IngressGateways : Ingress!SetRoute(match, gw)
  BY <1>2, SetRouteInstalls
<1>3. CASE \E match \in IngressMirrors, gw \in IngressStations : Ingress!SetMirror(match, gw)
  BY <1>3, SetMirrorKeeps
<1>4. CASE \E gw \in IngressGateways, toRouter \in BOOLEAN : Ingress!ArpIn(gw, toRouter)
  BY <1>4, IngressArpKeeps
<1>5. CASE \/ \E x \in routes : Ingress!AskDelete("route", x.id)
           \/ \E x \in mirrors : Ingress!AskDelete("mirror", x.id)
           \/ \E kind \in Ingress!Kinds : Ingress!AskDelete(kind, 0)
  BY <1>5, IngressAskKeeps
<1>6. CASE Ingress!Delete
  BY <1>6, IngressDeleteKeeps
<1>7. CASE UNCHANGED ingressVars
  BY <1>7 DEF ingressVars, IngressInv, RowsFit, RowsUnique, IngressFit, AskedOf, NoDefault
<1>8. QED
  BY <1>1, <1>2, <1>3, <1>4, <1>5, <1>6, <1>7 DEF Ingress!Next

(* Of flows whose priorities are bounded, one has the highest.                *)
LEMMA HighestFlow ==
    ASSUME NEW matching, matching # {}, NEW n \in Nat, \A f \in matching : f.prio \in 0 .. n
    PROVE  \E f \in matching : \A e \in matching : e.prio <= f.prio
<1>1. PICK T : T = {n - f.prio : f \in matching}
  OBVIOUS
<1>2. T \in SUBSET Nat /\ T # {}
  BY <1>1
<1>3. PICK x \in T : \A y \in T : x <= y
  BY <1>2, LeastNatural
<1>4. PICK f \in matching : x = n - f.prio
  BY <1>1, <1>3
<1>5. ASSUME NEW e \in matching PROVE e.prio <= f.prio
  <2>1. n - f.prio <= n - e.prio
    BY <1>1, <1>3, <1>4
  <2>2. QED
    BY <1>4, <2>1
<1>6. QED
  BY <1>5

(* The default flows are for every packet.                                    *)
LEMMA EveryPacketMatches ==
    \A p \in IngressPackets : Ingress!Matches(Ingress!EveryPacket, p)
<1>1. ASSUME NEW ip \in IngressIps PROVE Ingress!In(ip, [start |-> 0, len |-> 0])
  <2>1. PICK p \in Nat \ {0} : p = 2 ^ IngressBits
    BY IngressAssumption
  <2>2. ip \in 0 .. p - 1
    BY <2>1 DEF IngressIps
  <2>3. ip - (ip % p) = 0
    BY <2>2
  <2>4. QED
    BY <2>1, <2>3, IngressAssumption DEF Ingress!In
<1>2. QED
  BY <1>1, IngressAssumption DEF Ingress!Matches, Ingress!EveryPacket

(* A highest priority exists among the flows.                                 *)
LEMMA PrioritiesBounded ==
    ASSUME FewMirrors, IngressInv
    PROVE  \A f \in ingressFlow : f.prio \in 0 .. 2 + 2 * IngressBits
<1>1. /\ IngressFit(filters, routes, ingressFlow) /\ IngressBits \in Nat
      /\ filters \subseteq FilterRow /\ routes \subseteq RouteRow
  BY IngressAssumption DEF IngressInv, RowsFit
<1>2. /\ \A x \in filters : x.match \in Filters
      /\ \A x \in routes : x.match \in IngressRoutes
      /\ \A x \in MirrorRow : x.match \in IngressMirrors
  BY <1>1 DEF FilterRow, RouteRow, MirrorRow
<1>3. \A m \in Filters \cup IngressMirrors \cup IngressRoutes :
          /\ 2 + m.src.len + m.dst.len \in 0 .. 2 + 2 * IngressBits
          /\ (IF m.src.len + m.dst.len = 0 THEN 1 ELSE 2 + m.src.len + m.dst.len)
                \in 0 .. 2 + 2 * IngressBits
  BY <1>1, MatchesTyped
<1>4. \A x \in filters : Ingress!FilterFlow(x).prio \in 0 .. 2 + 2 * IngressBits
  BY <1>1, <1>2, <1>3, IngressFields
<1>5. \A x \in routes : \A f \in OfRoute(x) : f.prio \in 0 .. 2 + 2 * IngressBits
  BY <1>1, <1>2, <1>3, IngressFields
<1>6. \A x \in MirrorRow : Ingress!MirrorFlow(x).prio \in 0 .. 2 + 2 * IngressBits
  BY <1>1, <1>2, <1>3, IngressFields
<1>7. QED
  BY <1>1, <1>4, <1>5, <1>6, DefaultFields DEF IngressFit

(* If the table has a flow for a packet, one decides about it.                *)
LEMMA SomeBest ==
    ASSUME FewMirrors, IngressInv, NEW name, NEW p,
           \E f \in ingressFlow : f.table = name /\ Ingress!Matches(f.match, p)
    PROVE  Ingress!Best(name, p) # {}
<1>1. PICK matching : matching = {f \in ingressFlow : f.table = name /\ Ingress!Matches(f.match, p)}
  OBVIOUS
<1>2. matching # {} /\ 2 + 2 * IngressBits \in Nat
  BY <1>1, IngressAssumption
<1>3. \A f \in matching : f.prio \in 0 .. 2 + 2 * IngressBits
  BY <1>1, PrioritiesBounded
<1>4. PICK f \in matching : \A e \in matching : e.prio <= f.prio
  BY <1>2, <1>3, HighestFlow
<1>5. QED
  BY <1>1, <1>4 DEF Ingress!Best

(* The flows that win in a table match and none that matches outranks them.   *)
LEMMA BestMembers ==
    \A name, p : \A f \in Ingress!Best(name, p) :
        /\ f \in ingressFlow /\ f.table = name /\ Ingress!Matches(f.match, p)
        /\ \A e \in ingressFlow :
              e.table = name /\ Ingress!Matches(e.match, p) => e.prio <= f.prio
BY DEF Ingress!Best

(* The first table never drops: a default flow passes on what no mirror matches.*)
LEMMA MirrorsPass ==
    ASSUME FewMirrors, IngressInv, NEW p \in IngressPackets
    PROVE  <<"drop">> \notin Ingress!Verdicts("mirror", p)
<1>1. IngressFit(filters, routes, ingressFlow) /\ filters \subseteq FilterRow /\ routes \subseteq RouteRow
  BY DEF IngressInv, RowsFit
<1>2. Ingress!Best("mirror", p) # {}
  BY <1>1, SomeBest, EveryPacketMatches, DefaultFields DEF IngressFit
<1>3. ASSUME NEW f \in Ingress!Best("mirror", p) PROVE f.action # <<"drop">>
  <2>1. f \in ingressFlow /\ f.table = "mirror"
    BY BestMembers
  <2>2. CASE f = Ingress!DefaultMirrorFlow
    BY <2>2, DefaultFields
  <2>3. CASE \E x \in MirrorRow : f = Ingress!MirrorFlow(x)
    BY <2>3, IngressFields
  <2>4. QED
    BY <1>1, <2>1, <2>2, <2>3, IngressFields, DefaultFields DEF IngressFit
<1>4. QED
  BY <1>2, <1>3 DEF Ingress!Verdicts

(* What wins in the table of filters is what the heaviest filters say.        *)
LEMMA FiltersDecide ==
    ASSUME FewMirrors, IngressInv, NEW p \in IngressPackets
    PROVE  /\ <<"drop">> \in Ingress!Verdicts("filter", p) => Ingress!Refused(p)
           /\ <<"goto">> \in Ingress!Verdicts("filter", p) => Ingress!Accepted(p)
<1>1. IngressFit(filters, routes, ingressFlow) /\ filters \subseteq FilterRow /\ routes \subseteq RouteRow
  BY DEF IngressInv, RowsFit
<1>2. Ingress!Best("filter", p) # {}
  BY <1>1, SomeBest, EveryPacketMatches, DefaultFields DEF IngressFit
<1>3. ASSUME NEW f \in Ingress!Best("filter", p)
      PROVE  \/ f.action = <<"goto">> /\ Ingress!Heaviest(filters, p) = {}
             \/ \E x \in Ingress!Heaviest(filters, p) :
                   f.action = IF x.accept THEN <<"goto">> ELSE <<"drop">>
  <2>1. /\ f \in ingressFlow /\ f.table = "filter" /\ Ingress!Matches(f.match, p)
        /\ \A e \in ingressFlow :
              e.table = "filter" /\ Ingress!Matches(e.match, p) => e.prio <= f.prio
    BY BestMembers
  <2>2. \A x \in filters : Ingress!Matches(x.match, p) =>
            2 + x.match.src.len + x.match.dst.len <= f.prio
    BY <1>1, <2>1, IngressFields DEF IngressFit
  <2>3. \A x \in filters : /\ x.match.src.len \in Nat /\ x.match.dst.len \in Nat
    BY <1>1, MatchesTyped DEF FilterRow
  <2>4. CASE f = Ingress!DefaultFilterFlow
    <3>1. \A x \in filters : ~Ingress!Matches(x.match, p)
      BY <2>2, <2>3, <2>4, DefaultFields
    <3>2. QED
      BY <2>4, <3>1, DefaultFields DEF Ingress!Heaviest
  <2>5. CASE \E x \in filters : f = Ingress!FilterFlow(x)
    <3>1. PICK x \in filters : f = Ingress!FilterFlow(x)
      BY <2>5
    <3>2. /\ f.match = x.match /\ f.prio = 2 + x.match.src.len + x.match.dst.len
          /\ f.action = IF x.accept THEN <<"goto">> ELSE <<"drop">>
      BY <1>1, <3>1, IngressFields
    <3>3. \A y \in filters : Ingress!Matches(y.match, p) =>
              y.match.src.len + y.match.dst.len <= x.match.src.len + x.match.dst.len
      BY <2>2, <2>3, <3>2
    <3>4. x \in Ingress!Heaviest(filters, p)
      BY <2>1, <3>2, <3>3 DEF Ingress!Heaviest
    <3>5. QED
      BY <3>2, <3>4
  <2>6. QED
    BY <1>1, <2>1, <2>4, <2>5, IngressFields, DefaultFields DEF IngressFit
<1>4. <<"drop">> # <<"goto">>
  OBVIOUS
<1>5. QED
  BY <1>2, <1>3, <1>4 DEF Ingress!Verdicts, Ingress!Refused, Ingress!Accepted

(* What wins in the table of routes is a heaviest route, or the default.      *)
LEMMA RoutesDecide ==
    ASSUME FewMirrors, IngressInv, NEW p \in IngressPackets,
           NEW out \in Ingress!Verdicts("route", p)
    PROVE  LET best == Ingress!Heaviest(routes, p) IN
           IF best = {} THEN out = <<"drop">>
           ELSE \E r \in best : out \in {<<"controller">>, <<"out", r.gateway>>}
<1>1. IngressFit(filters, routes, ingressFlow) /\ filters \subseteq FilterRow /\ routes \subseteq RouteRow
  BY DEF IngressInv, RowsFit
<1>2. \A x \in routes : x.match \in IngressRoutes /\ x.match.src.len \in Nat /\ x.match.dst.len \in Nat
  BY <1>1, MatchesTyped DEF RouteRow
<1>3. ASSUME \A x \in routes : ~Ingress!Matches(x.match, p) PROVE Ingress!Heaviest(routes, p) = {}
  BY <1>3 DEF Ingress!Heaviest
<1>4. CASE Ingress!Best("route", p) = {}
  <2>1. ASSUME NEW x \in routes PROVE ~Ingress!Matches(x.match, p)
    <3>1. PICK f \in OfRoute(x) : f \in ingressFlow
      BY <1>1 DEF IngressFit
    <3>2. f.table = "route" /\ f.match = x.match
      BY <1>1, IngressFields
    <3>3. QED
      BY <1>4, <3>1, <3>2, SomeBest
  <2>2. out = <<"drop">>
    BY <1>4 DEF Ingress!Verdicts
  <2>3. QED
    BY <1>3, <2>1, <2>2
<1>5. CASE Ingress!Best("route", p) # {}
  <2>1. PICK f \in Ingress!Best("route", p) : out = f.action
    BY <1>5 DEF Ingress!Verdicts
  <2>2. /\ f \in ingressFlow /\ f.table = "route" /\ Ingress!Matches(f.match, p)
        /\ \A e \in ingressFlow :
              e.table = "route" /\ Ingress!Matches(e.match, p) => e.prio <= f.prio
    BY BestMembers
  <2>3. ASSUME NEW x \in routes, Ingress!Matches(x.match, p)
        PROVE  (IF x.match.src.len + x.match.dst.len = 0 THEN 1
                ELSE 2 + x.match.src.len + x.match.dst.len) <= f.prio
    <3>1. PICK e \in OfRoute(x) : e \in ingressFlow
      BY <1>1 DEF IngressFit
    <3>2. QED
      BY <1>1, <2>2, <2>3, <3>1, IngressFields
  <2>4. CASE f = Ingress!DropFlow
    <3>1. f.prio = 1 /\ out = <<"drop">> /\ NoDefault(routes)
      BY <1>1, <2>1, <2>2, <2>4, DefaultFields DEF IngressFit
    <3>2. ASSUME NEW x \in routes, Ingress!Matches(x.match, p) PROVE FALSE
      <4>1. x.match.src.len + x.match.dst.len # 0
        BY <1>2, <3>1, MatchesTyped DEF NoDefault
      <4>2. QED
        BY <1>2, <2>3, <3>1, <3>2, <4>1
    <3>3. QED
      BY <1>3, <3>1, <3>2
  <2>5. CASE \E x \in routes : f \in OfRoute(x)
    <3>1. PICK x \in routes : f \in OfRoute(x)
      BY <2>5
    <3>2. /\ f.match = x.match /\ f.action \in {<<"controller">>, <<"out", x.gateway>>}
          /\ f.prio = IF x.match.src.len + x.match.dst.len = 0 THEN 1
                      ELSE 2 + x.match.src.len + x.match.dst.len
      BY <1>1, <3>1, IngressFields
    <3>3. ASSUME NEW y \in routes, Ingress!Matches(y.match, p)
          PROVE  y.match.src.len + y.match.dst.len <= x.match.src.len + x.match.dst.len
      BY <1>2, <2>3, <3>2, <3>3
    <3>4. x \in Ingress!Heaviest(routes, p)
      BY <2>2, <3>2, <3>3 DEF Ingress!Heaviest
    <3>5. QED
      BY <2>1, <3>2, <3>4
  <2>6. QED
    BY <1>1, <2>2, <2>4, <2>5, IngressFields, DefaultFields DEF IngressFit
<1>6. QED
  BY <1>4, <1>5

(* Under the invariant the three tables together do what FilterThenRoute says.*)
LEMMA IngressObeys == FewMirrors /\ IngressInv => Ingress!FilterThenRoute
<1>1. SUFFICES ASSUME FewMirrors, IngressInv, NEW p \in IngressPackets,
                      NEW out \in Ingress!Outcomes(p)
               PROVE  \/ Ingress!Refused(p) /\ out = <<"drop">>
                      \/ /\ Ingress!Accepted(p)
                         /\ LET best == Ingress!Heaviest(routes, p) IN
                            IF best = {} THEN out = <<"drop">>
                            ELSE \E r \in best : out \in {<<"controller">>, <<"out", r.gateway>>}
  BY DEF Ingress!FilterThenRoute
<1>2. CASE out = <<"drop">> /\ <<"drop">> \in Ingress!Verdicts("filter", p)
  BY <1>1, <1>2, FiltersDecide
<1>3. CASE out \in Ingress!Verdicts("route", p) /\ <<"goto">> \in Ingress!Verdicts("filter", p)
  BY <1>1, <1>3, FiltersDecide, RoutesDecide
<1>4. \/ out = <<"drop">> /\ <<"drop">> \in Ingress!Verdicts("filter", p)
      \/ out \in Ingress!Verdicts("route", p) /\ <<"goto">> \in Ingress!Verdicts("filter", p)
  BY <1>1, MirrorsPass DEF Ingress!Outcomes
<1>5. QED
  BY <1>2, <1>3, <1>4

(* A packet that the filters refuse goes nowhere, and one that they accept    *)
(* goes where the routes say: as long as there are so few ids that cookies    *)
(* tell the kinds of rows apart, and no mirror copies everything.             *)
THEOREM FiltersThenRoutes ==
    ASSUME FewMirrors
    PROVE  Spec => []FilterThenRoute
<1> DEFINE Inv == part = "ingress" => IngressInv
<1>1. Init => Inv
  BY IngressStarts, FewMirrors DEF Init
<1>2. Inv /\ [Next]_vars => Inv'
  BY Separate, IngressStep, FewMirrors
<1>3. Inv => FilterThenRoute
  BY IngressObeys, FewMirrors DEF FilterThenRoute
<1>4. QED
  BY <1>1, <1>2, <1>3, PTL DEF Spec

-----------------------------------------------------------------------------
\* Identifiers are few enough for cookies to tell the kinds of rows apart.
FewIds(n) == FirstMirror \in Nat \ {0} /\ MaxIds \in Nat /\ FirstMirror + MaxIds <= n

Both == {"mirror", "vfc"}

-----------------------------------------------------------------------------
(* The two mirroring routers, which route alike: v is the part that moves.   *)
AddressRow == [start : Ips, len : 0 .. Bits, gw : Ips, id : 1 .. MaxIds]

AddressesOf(v) == IF v = "vfc" THEN VfcAddresses ELSE Addresses
Span(v) == IF v = "vfc" THEN 2 * Bits ELSE Bits
Base(v) == IF v = "vfc" THEN 3000000 ELSE 0

Everything == [src |-> Mirror!Any, dst |-> Mirror!Any]

Weight(v, match) ==
    IF match.dst.len = 0 THEN 1 ELSE 2 + match.dst.len + (IF v = "vfc" THEN match.src.len ELSE 0)

RoutesBy(cookie, prio, match, action) ==
    [table |-> "routing", cookie |-> cookie, prio |-> prio, match |-> match, action |-> action]

NormalTo == RoutesBy(0, 0, Everything, <<"normal">>)
DropAt(v) == RoutesBy(Base(v), 1, Everything, <<"drop">>)
MacAt(v, a) ==
    RoutesBy(Base(v) + a.id, 2, Mirror!Between(Mirror!Any, Mirror!Net(a)), <<"controller">>)
PortAt(v, a) ==
    RoutesBy(Base(v) + a.id, 1005 + Span(v), Mirror!Between(Mirror!Any, Mirror!HostNet(a.gw)),
             <<"controller">>)
InsideAt(v, a) ==
    RoutesBy(Base(v) + a.id, 4 + Span(v), Mirror!Between(Mirror!Net(a), Mirror!Net(a)), <<"normal">>)
HostAt(v, a, ip) ==
    RoutesBy(Base(v) + a.id, 3 + Span(v), Mirror!Between(Mirror!Any, Mirror!HostNet(ip)), <<"out", ip>>)

IsHeard(v, r) == IF v = "vfc" THEN r.heard ELSE r.mac
RouteAction(v, r) == IF IsHeard(v, r) THEN <<"out", r.gateway>> ELSE <<"controller">>
RouteAt(v, r) ==
    RoutesBy(Base(v) + r.id * 65536, Weight(v, r.match), r.match, RouteAction(v, r))

NoneDefault(rs) == \A r \in rs : r.match # Everything

\* What the flows of table 2 are, by the tables of the router.
RoutingFit(v, ads, rs, fl) ==
    /\ \A f \in fl : f.table = "routing" =>
          \/ v = "mirror" /\ f = NormalTo
          \/ f = DropAt(v) /\ NoneDefault(rs)
          \/ \E a \in ads : f \in {MacAt(v, a), PortAt(v, a), InsideAt(v, a)}
          \/ v = "mirror" /\ \E a \in ads, ip \in Ips : Mirror!In(ip, a) /\ f = HostAt(v, a, ip)
          \/ \E r \in rs : f = RouteAt(v, r)
    /\ NoneDefault(rs) => DropAt(v) \in fl
    /\ \A a \in ads : {MacAt(v, a), PortAt(v, a), InsideAt(v, a)} \subseteq fl
    /\ \A r \in rs : RouteAt(v, r) \in fl

\* Addresses do not overlap; rows are of what clients post.
AddressesApart(v, ads, n) ==
    /\ ads \subseteq AddressRow
    /\ \A a \in ads : \E x \in AddressesOf(v) : x.start = a.start /\ x.len = a.len /\ x.gw = a.gw
    /\ \A a, b \in ads : Mirror!In(a.gw, b) => a = b
    /\ \A a, b \in ads : a.id = b.id => a = b
    /\ \A a \in ads : a.id < n

RouteRows(v) ==
    IF v = "vfc" THEN [match : MirrorRoutes, id : 1 .. MaxIds, gateway : MirrorGateways,
                       mac : Stations \cup MirrorGateways \cup {Nowhere}, heard : BOOLEAN]
    ELSE [match : MirrorRoutes, id : 1 .. MaxIds, gateway : MirrorGateways, mac : BOOLEAN]

RoutesFit(v, rs) == rs \subseteq RouteRows(v) /\ RowsUnique(rs)

-----------------------------------------------------------------------------
(* The mirroring router of the deployed controller.                          *)
StationRow ==
    [match : Mirrors, id : 1 .. MaxIds, gateway : Stations, mac : BOOLEAN]

CopyFlow(m) == IF m.mac THEN Mirror!MirroringFlow(m) ELSE Mirror!MirrorPacketInFlow(m)

CopyFit(ms, fl) ==
    /\ ms \subseteq StationRow /\ RowsUnique(ms)
    /\ Mirror!DefaultMirrorFlow \in fl
    /\ \A m \in ms : CopyFlow(m) \in fl
    /\ \A f \in fl : f.table # "routing" =>
          f = Mirror!DefaultMirrorFlow \/ \E m \in ms : f = CopyFlow(m)

MirrorInv ==
    /\ mirrorNext \in [{"address", "route", "mirror"} -> Nat \ {0}]
    /\ AddressesApart("mirror", mirrorAddress, mirrorNext["address"]) /\ RoutesFit("mirror", mirrorRoute)
    /\ RoutingFit("mirror", mirrorAddress, mirrorRoute, mirrorFlow)
    /\ CopyFit(mirror, mirrorFlow)

-----------------------------------------------------------------------------
(* The mirroring router of Chameleon.                                        *)
VfcStationRow ==
    [match : Mirrors, id : 1 .. FirstMirror + MaxIds - 1, gateway : Stations,
     copies : Stations \cup {Nowhere}]

\* The row under which packets are copied now, and what is under its identifier.
CopiesFor(ms, x, n) ==
    /\ x.id < n
    /\ \E m \in ms : m.match = x.match /\ m.copies = x.gateway
    /\ \A m \in ms : m.id = x.id => m.match = x.match

\* One flow at most for a match, under the identifier of a row that is or was.
CopiesFit(ms, fl, n) ==
    /\ ms \subseteq VfcStationRow /\ RowsUnique(ms)
    /\ \A m \in ms : m.id < n
    /\ \A m, k \in ms : m.id = k.id => m = k
    /\ Vfc!DefaultMirrorFlow \in fl
    /\ \A f \in fl : f.table # "routing" =>
          f = Vfc!DefaultMirrorFlow \/ \E x \in VfcStationRow : f = Vfc!MirroringFlow(x) /\ CopiesFor(ms, x, n)
    /\ \A m \in ms : m.copies # Nowhere => \E f \in fl : f.table = "mirror" /\ f.match = m.match
    /\ \A f, g \in fl : f.table # "routing" /\ Place(f) = Place(g) => f = g

\* A route's MAC is that of its gateway only when the gateway was heard.
Vias(r) == r.mac = r.gateway => r.heard

\* The flows that a deletion is to delete are of one row, whatever happened since.
AskedFit(q, ads, rs, ms, fl) ==
    \/ q = Vfc!Idle
    \/ /\ q.kind = "address" /\ q.flows # {}
       /\ \E a \in ads :
             q.flows \subseteq {MacAt("vfc", a), PortAt("vfc", a), InsideAt("vfc", a)}
    \/ /\ q.kind = "route" /\ q.flows # {}
       /\ \E r \in rs : \A f \in q.flows :
             /\ f.table = "routing" /\ f.cookie = 3000000 + r.id * 65536
             /\ f.prio = 1 <=> r.match = Everything
    \/ /\ q.kind = "mirror" /\ q.flows # {}
       /\ \E i \in 1 .. FirstMirror + MaxIds - 1 :
             /\ \A f \in q.flows : f.table = "mirror" /\ f.cookie = 2000000 + i * 65536 /\ f.prio # 1
             /\ \A m \in ms : m.id = i =>
                   \E f \in fl : /\ f.table = "mirror" /\ f.match = m.match
                                 /\ f.cookie = 2000000 + i * 65536

VfcInv ==
    /\ mirrorNext \in [{"address", "route", "mirror"} -> Nat \ {0}]
    /\ AddressesApart("vfc", mirrorAddress, mirrorNext["address"]) /\ RoutesFit("vfc", mirrorRoute)
    /\ RoutingFit("vfc", mirrorAddress, mirrorRoute, mirrorFlow)
    /\ \A r \in mirrorRoute : Vias(r) /\ r.id < mirrorNext["route"]
    /\ \A r, s \in mirrorRoute : r.id = s.id => r = s
    /\ CopiesFit(mirror, mirrorFlow, mirrorNext["mirror"])
    /\ AskedFit(mirrorRequest, mirrorAddress, mirrorRoute, mirror, mirrorFlow)

\* Routes other than the default route lead out of the internal networks, and so
\* do mirrors at the deployed controller; identifiers are few, and those of QoS
\* rules have the 16 bits of a cookie's lower part.
LeadsOut(match, nets) ==
    \A a \in nets, ip \in Ips : ~(Mirror!In(ip, match.dst) /\ Mirror!In(ip, a))

RowsLeadOut ==
    /\ FewIds(14)
    /\ \A match \in MirrorRoutes :
          \/ match = Everything
          \/ match.dst.len # 0 /\ LeadsOut(match, Addresses) /\ LeadsOut(match, VfcAddresses)
    /\ \A match \in Mirrors : match.dst.len # 0 /\ LeadsOut(match, Addresses)
    /\ \A c \in QosIds : c \in Nat /\ c < 65536

-----------------------------------------------------------------------------
(* The three modules mean the same by a network.                             *)
LEMMA SameIn ==
    /\ \A ip, n : Vfc!In(ip, n) = Mirror!In(ip, n)
    /\ \A ip, n : Flows!In(ip, n) = Mirror!In(ip, n)
    /\ \A m, p : Vfc!Matches(m, p) = Mirror!Matches(m, p)
BY DEF Vfc!In, Mirror!In, Flows!In, Vfc!ApplyMask, Mirror!ApplyMask, Flows!ApplyMask,
       Vfc!Matches, Mirror!Matches

(* The identifiers of the four kinds fit their parts of a cookie.             *)
LEMMA IdsFew ==
    RowsLeadOut => FewIds(14) /\ FirstMirror \in 1 .. 14 /\ MaxIds \in 0 .. 13
<1>1. RowsLeadOut => FewIds(14)
  BY DEF RowsLeadOut
<1>2. FewIds(14) => FirstMirror \in 1 .. 14 /\ MaxIds \in 0 .. 13
  BY DEF FewIds
<1>3. QED
  BY <1>1, <1>2

\* What is known of the numbers of rows.
LEMMA RowNumbers ==
    ASSUME NEW v \in Both
    PROVE  /\ Bits \in Nat /\ Ips \subseteq Nat /\ Span(v) \in Nat /\ Base(v) \in {0, 3000000}
           /\ \A match \in MirrorRoutes \cup Mirrors :
                 /\ match \in [src : Networks, dst : Networks]
                 /\ match.src.len \in 0 .. Bits /\ match.dst.len \in 0 .. Bits
                 /\ Weight(v, match) \in {1} \cup (3 .. 2 + Span(v))
                 /\ Weight(v, match) = 1 <=> match.dst.len = 0
           /\ AddressesOf(v) \subseteq [start : Ips, len : 0 .. Bits, gw : Ips]
           /\ \A x \in AddressesOf(v) : Mirror!In(x.gw, x)
<1>1. Bits \in Nat /\ 2 ^ Bits \in Nat \ {0}
  BY PowersAssumption
<1>2. PICK p \in Nat \ {0} : p = 2 ^ Bits
  BY <1>1
<1>3. Ips \subseteq Nat
  BY <1>2 DEF Ips
<1>4. Span(v) \in Nat /\ Base(v) \in {0, 3000000}
  BY <1>1 DEF Span, Base, Both
<1>5. ASSUME NEW match \in MirrorRoutes \cup Mirrors
      PROVE  /\ match \in [src : Networks, dst : Networks]
             /\ match.src.len \in 0 .. Bits /\ match.dst.len \in 0 .. Bits
  <2>1. match \in [src : Networks, dst : Networks]
    BY MirrorsAssumption
  <2>2. \A n \in Networks : n.len \in 0 .. Bits
    BY DEF Networks
  <2>3. QED
    BY <2>1, <2>2
<1>6. ASSUME NEW match \in MirrorRoutes \cup Mirrors
      PROVE  /\ Weight(v, match) \in {1} \cup (3 .. 2 + Span(v))
             /\ Weight(v, match) = 1 <=> match.dst.len = 0
  BY <1>1, <1>5 DEF Weight, Span, Both
<1>7. /\ AddressesOf(v) \subseteq [start : Ips, len : 0 .. Bits, gw : Ips]
      /\ \A x \in AddressesOf(v) : Mirror!In(x.gw, x)
  BY MirrorsAssumption, FlowsAssumption, SameIn DEF AddressesOf
<1>8. QED
  BY <1>1, <1>3, <1>4, <1>5, <1>6, <1>7

\* What the flows of table 2 are made of.
LEMMA RoutingShapes ==
    /\ NormalTo.table = "routing" /\ NormalTo.prio = 0 /\ NormalTo.cookie = 0
    /\ NormalTo.match = Everything /\ NormalTo.action = <<"normal">>
    /\ \A v : /\ DropAt(v).table = "routing" /\ DropAt(v).prio = 1 /\ DropAt(v).cookie = Base(v)
             /\ DropAt(v).match = Everything /\ DropAt(v).action = <<"drop">>
    /\ \A v, a : /\ MacAt(v, a).table = "routing" /\ MacAt(v, a).prio = 2
                /\ MacAt(v, a).cookie = Base(v) + a.id
                /\ MacAt(v, a).match = Mirror!Between(Mirror!Any, Mirror!Net(a))
                /\ MacAt(v, a).action = <<"controller">>
    /\ \A v, a : /\ PortAt(v, a).table = "routing" /\ PortAt(v, a).prio = 1005 + Span(v)
                /\ PortAt(v, a).cookie = Base(v) + a.id
                /\ PortAt(v, a).match = Mirror!Between(Mirror!Any, Mirror!HostNet(a.gw))
                /\ PortAt(v, a).action = <<"controller">>
    /\ \A v, a : /\ InsideAt(v, a).table = "routing" /\ InsideAt(v, a).prio = 4 + Span(v)
                /\ InsideAt(v, a).cookie = Base(v) + a.id
                /\ InsideAt(v, a).match = Mirror!Between(Mirror!Net(a), Mirror!Net(a))
                /\ InsideAt(v, a).action = <<"normal">>
    /\ \A v, a, ip : /\ HostAt(v, a, ip).table = "routing" /\ HostAt(v, a, ip).prio = 3 + Span(v)
                    /\ HostAt(v, a, ip).cookie = Base(v) + a.id
                    /\ HostAt(v, a, ip).match = Mirror!Between(Mirror!Any, Mirror!HostNet(ip))
                    /\ HostAt(v, a, ip).action = <<"out", ip>>
    /\ \A v, r : /\ RouteAt(v, r).table = "routing" /\ RouteAt(v, r).prio = Weight(v, r.match)
                /\ RouteAt(v, r).cookie = Base(v) + r.id * 65536
                /\ RouteAt(v, r).match = r.match /\ RouteAt(v, r).action = RouteAction(v, r)
BY DEF NormalTo, DropAt, MacAt, PortAt, InsideAt, HostAt, RouteAt, RoutesBy

\* The flows that the router of the deployed controller installs there.
LEMMA MirrorFlows ==
    /\ Mirror!NormalFlow = NormalTo /\ Mirror!DropFlow = DropAt("mirror")
    /\ \A a \in AddressRow : Mirror!AddressFlows(a) =
          {MacAt("mirror", a), PortAt("mirror", a), InsideAt("mirror", a)}
    /\ \A a \in AddressRow : \A ip : Mirror!HostFlow(a, ip) = HostAt("mirror", a, ip)
    /\ \A r \in RouteRows("mirror") :
          IF r.mac THEN Mirror!RoutingFlow(r) = RouteAt("mirror", r)
                   ELSE Mirror!PacketInFlow(r) = RouteAt("mirror", r)
<1>1. Mirror!NormalFlow = NormalTo
  BY DEF Mirror!NormalFlow, Mirror!Routing, Mirror!Flow, Mirror!NORMAL, NormalTo, RoutesBy,
         Everything, Mirror!Between
<1>2. Mirror!DropFlow = DropAt("mirror")
  BY DEF Mirror!DropFlow, Mirror!Routing, Mirror!Flow, Mirror!DEFAULT_ROUTING, DropAt, RoutesBy,
         Everything, Mirror!Between, Base
<1>3. /\ Mirror!Priority(Mirror!MAC_LEARNING) = 2 /\ Mirror!Priority(Mirror!IP_HANDLING) = 1005 + Bits
      /\ Mirror!Priority(Mirror!L2_SWITCHING) = 4 + Bits
      /\ Mirror!Priority(Mirror!IMPLICIT_ROUTING) = 3 + Bits
  BY PowersAssumption
     DEF Mirror!Priority, Mirror!MAC_LEARNING, Mirror!IP_HANDLING, Mirror!L2_SWITCHING,
         Mirror!IMPLICIT_ROUTING, Mirror!STATIC_ROUTING
<1>4. Span("mirror") = Bits /\ Base("mirror") = 0
  BY DEF Span, Base
<1>5. ASSUME NEW a \in AddressRow
      PROVE  /\ Mirror!AddressFlows(a) =
                   {MacAt("mirror", a), PortAt("mirror", a), InsideAt("mirror", a)}
             /\ \A ip : Mirror!HostFlow(a, ip) = HostAt("mirror", a, ip)
  <2>1. 0 + a.id = a.id
    BY DEF AddressRow
  <2>2. /\ MacAt("mirror", a) =
              Mirror!Routing(a.id, 2, Mirror!Between(Mirror!Any, Mirror!Net(a)), <<"controller">>)
        /\ PortAt("mirror", a) =
              Mirror!Routing(a.id, 1005 + Bits, Mirror!Between(Mirror!Any, Mirror!HostNet(a.gw)),
                             <<"controller">>)
        /\ InsideAt("mirror", a) =
              Mirror!Routing(a.id, 4 + Bits, Mirror!Between(Mirror!Net(a), Mirror!Net(a)),
                             <<"normal">>)
        /\ \A ip : HostAt("mirror", a, ip) =
              Mirror!Routing(a.id, 3 + Bits, Mirror!Between(Mirror!Any, Mirror!HostNet(ip)),
                             <<"out", ip>>)
    BY <1>4, <2>1
       DEF Mirror!Routing, Mirror!Flow, MacAt, PortAt, InsideAt, HostAt, RoutesBy
  <2>3. QED
    BY <1>3, <2>2 DEF Mirror!AddressFlows, Mirror!HostFlow
<1>6. ASSUME NEW r \in RouteRows("mirror")
      PROVE  IF r.mac THEN Mirror!RoutingFlow(r) = RouteAt("mirror", r)
                      ELSE Mirror!PacketInFlow(r) = RouteAt("mirror", r)
  <2>1. r.match \in MirrorRoutes /\ r.id \in Nat
    BY DEF RouteRows
  <2>2. 0 + r.id * 65536 = r.id * 65536
    BY <2>1
  <2>3. Weight("mirror", r.match) = Mirror!RoutePriority(r.match)
    BY <2>1, RowNumbers
       DEF Weight, Mirror!RoutePriority, Both, Mirror!DEFAULT_ROUTING, Mirror!STATIC_ROUTING
  <2>4. QED
    BY <1>4, <2>2, <2>3
       DEF Mirror!RoutingFlow, Mirror!PacketInFlow, Mirror!Routing, Mirror!Flow,
           Mirror!RouteCookie, Mirror!Shift, RouteAt, RoutesBy, RouteAction, IsHeard
<1>7. QED
  BY <1>1, <1>2, <1>5, <1>6

\* The same of the router of Chameleon.
LEMMA VfcFlows ==
    /\ Vfc!DropFlow = DropAt("vfc")
    /\ \A a \in AddressRow : Vfc!AddressFlows(a) =
          {MacAt("vfc", a), PortAt("vfc", a), InsideAt("vfc", a)}
    /\ \A r \in RouteRows("vfc") :
          IF r.heard THEN Vfc!RoutingFlow(r) = RouteAt("vfc", r)
                     ELSE Vfc!PacketInFlow(r) = RouteAt("vfc", r)
<1>1. Vfc!DropFlow = DropAt("vfc")
  BY DEF Vfc!DropFlow, Vfc!Flow, Vfc!Offset, Vfc!DEFAULT_ROUTING, DropAt, RoutesBy,
         Everything, Vfc!Between, Vfc!Any, Mirror!Any, Base
<1>2. /\ Vfc!Priority(Vfc!MAC_LEARNING) = 2 /\ Vfc!Priority(Vfc!IP_HANDLING) = 1005 + 2 * Bits
      /\ Vfc!Priority(Vfc!L2_SWITCHING) = 4 + 2 * Bits
  BY PowersAssumption
     DEF Vfc!Priority, Vfc!MAC_LEARNING, Vfc!IP_HANDLING, Vfc!L2_SWITCHING, Vfc!STATIC_ROUTING
<1>3. Span("vfc") = 2 * Bits /\ Base("vfc") = 3000000
  BY DEF Span, Base
<1>4. ASSUME NEW a \in AddressRow
      PROVE  Vfc!AddressFlows(a) = {MacAt("vfc", a), PortAt("vfc", a), InsideAt("vfc", a)}
  <2>1. Vfc!IdToCookie("address", a.id) = 3000000 + a.id
    BY DEF Vfc!IdToCookie, Vfc!Offset
  <2>2. QED
    BY <1>2, <1>3, <2>1
       DEF Vfc!AddressFlows, Vfc!AddressFlow, Vfc!Flow, MacAt, PortAt, InsideAt, RoutesBy,
           Vfc!Between, Vfc!Any, Vfc!Net, Vfc!HostNet, Mirror!Between, Mirror!Any, Mirror!Net,
           Mirror!HostNet
<1>5. ASSUME NEW r \in RouteRows("vfc")
      PROVE  IF r.heard THEN Vfc!RoutingFlow(r) = RouteAt("vfc", r)
                        ELSE Vfc!PacketInFlow(r) = RouteAt("vfc", r)
  <2>1. r.match \in MirrorRoutes /\ r.id \in Nat
    BY DEF RouteRows
  <2>2. Vfc!IdToCookie("route", r.id) = 3000000 + r.id * 65536
    BY DEF Vfc!IdToCookie, Vfc!Offset, Vfc!Shift
  <2>3. Weight("vfc", r.match) = Vfc!RoutePriority(r.match)
    BY <2>1, RowNumbers
       DEF Weight, Vfc!RoutePriority, Both, Vfc!DEFAULT_ROUTING, Vfc!STATIC_ROUTING
  <2>4. QED
    BY <1>3, <2>2, <2>3
       DEF Vfc!RoutingFlow, Vfc!PacketInFlow, Vfc!Flow, RouteAt, RoutesBy, RouteAction, IsHeard
<1>6. QED
  BY <1>1, <1>4, <1>5

-----------------------------------------------------------------------------
\* Flows that are added replace those of their places.
PutInto(fl, new, fl2) ==
    /\ \A f \in fl2 : f \in new \/ (f \in fl /\ \A g \in new : Place(f) # Place(g))
    /\ new \subseteq fl2
    /\ \A f \in fl : (\A g \in new : Place(f) # Place(g)) => f \in fl2

(* What a flow that is put replaces.                                          *)
LEMMA Puts ==
    \A fl, new : PutInto(fl, new, Mirror!With(fl, new)) /\ PutInto(fl, new, Vfc!With(fl, new))
BY DEF PutInto, Place, Mirror!With, Vfc!With

(* The table, priority and match of a flow are its place.                     *)
LEMMA PlaceFields ==
    \A f, g : Place(f) = Place(g) => f.table = g.table /\ f.prio = g.prio /\ f.match = g.match
BY DEF Place

(* A new route takes the place of the one of its match, and the default route *)
(* that of the flow that drops.                                              *)
LEMMA RoutePut ==
    ASSUME NEW v \in Both, NEW ads, NEW rs, NEW fl, NEW fl2, NEW r \in RouteRows(v), NEW rs2,
           RoutingFit(v, ads, rs, fl), RoutesFit(v, rs),
           rs2 = {x \in rs : x.match # r.match} \cup {r}, PutInto(fl, {RouteAt(v, r)}, fl2)
    PROVE  RoutesFit(v, rs2) /\ RoutingFit(v, ads, rs2, fl2)
<1> DEFINE h == RouteAt(v, r)
<1>1. /\ \A f \in fl2 : f = h \/ (f \in fl /\ Place(f) # Place(h))
      /\ h \in fl2
      /\ \A f \in fl : Place(f) # Place(h) => f \in fl2
  BY DEF PutInto
<1>2. rs \subseteq RouteRows(v) /\ RowsUnique(rs) /\ \A x \in RouteRows(v) : x.match \in MirrorRoutes
  BY DEF RoutesFit, RouteRows
<1>3. /\ h.table = "routing" /\ h.prio = Weight(v, r.match) /\ h.match = r.match
      /\ \A x \in RouteRows(v) : /\ RouteAt(v, x).table = "routing"
                                 /\ RouteAt(v, x).prio = Weight(v, x.match)
                                 /\ RouteAt(v, x).match = x.match
      /\ DropAt(v).table = "routing" /\ DropAt(v).prio = 1 /\ DropAt(v).match = Everything
      /\ \A a : /\ MacAt(v, a).prio = 2 /\ PortAt(v, a).prio = 1005 + Span(v)
                /\ InsideAt(v, a).prio = 4 + Span(v)
  BY RoutingShapes
<1>4. /\ Span(v) \in Nat /\ Everything.dst.len = 0
      /\ Weight(v, r.match) \in {1} \cup (3 .. 2 + Span(v))
      /\ Weight(v, r.match) = 1 <=> r.match.dst.len = 0
  BY <1>2, RowNumbers DEF Everything, Mirror!Any
<1> HIDE DEF h
<1>5. RoutesFit(v, rs2)
  BY <1>2 DEF RoutesFit, RowsUnique
<1>6. r.match = Everything => Place(DropAt(v)) = Place(h)
  BY <1>3, <1>4 DEF Place
<1>7. ASSUME NEW f \in fl2, f.table = "routing"
      PROVE  \/ v = "mirror" /\ f = NormalTo
             \/ f = DropAt(v) /\ NoneDefault(rs2)
             \/ \E a \in ads : f \in {MacAt(v, a), PortAt(v, a), InsideAt(v, a)}
             \/ v = "mirror" /\ \E a \in ads, ip \in Ips : Mirror!In(ip, a) /\ f = HostAt(v, a, ip)
             \/ \E x \in rs2 : f = RouteAt(v, x)
  <2>1. CASE f = h
    BY <2>1 DEF h
  <2>2. CASE f \in fl /\ Place(f) # Place(h)
    <3>1. ASSUME NEW x \in rs, f = RouteAt(v, x) PROVE x \in rs2
      <4>1. CASE x.match = r.match
        BY <1>2, <1>3, <2>2, <3>1, <4>1 DEF Place
      <4>2. QED
        BY <4>1
    <3>2. ASSUME f = DropAt(v), NoneDefault(rs) PROVE NoneDefault(rs2)
      BY <1>6, <2>2, <3>2 DEF NoneDefault
    <3>3. QED
      BY <1>7, <2>2, <3>1, <3>2 DEF RoutingFit
  <2>3. QED
    BY <1>1, <2>1, <2>2
<1>8. ASSUME NoneDefault(rs2) PROVE DropAt(v) \in fl2
  <2>1. r.match # Everything /\ NoneDefault(rs)
    BY <1>8 DEF NoneDefault
  <2>2. Place(DropAt(v)) # Place(h)
    BY <1>3, <2>1, PlaceFields
  <2>3. QED
    BY <1>1, <2>1, <2>2 DEF RoutingFit
<1>9. ASSUME NEW a \in ads PROVE {MacAt(v, a), PortAt(v, a), InsideAt(v, a)} \subseteq fl2
  <2>1. /\ Place(MacAt(v, a)) # Place(h) /\ Place(PortAt(v, a)) # Place(h)
        /\ Place(InsideAt(v, a)) # Place(h)
    BY <1>3, <1>4, PlaceFields
  <2>2. {MacAt(v, a), PortAt(v, a), InsideAt(v, a)} \subseteq fl
    BY DEF RoutingFit
  <2>3. QED
    BY <1>1, <2>1, <2>2
<1>10. ASSUME NEW x \in rs2 PROVE RouteAt(v, x) \in fl2
  <2>1. CASE x = r
    BY <1>1, <2>1 DEF h
  <2>2. CASE x \in rs /\ x.match # r.match
    <3>1. RouteAt(v, x) \in fl
      BY <2>2 DEF RoutingFit
    <3>2. Place(RouteAt(v, x)) # Place(h)
      BY <1>2, <1>3, <2>2, PlaceFields
    <3>3. QED
      BY <1>1, <3>1, <3>2
  <2>3. QED
    BY <2>1, <2>2
<1>11. QED
  BY <1>5, <1>7, <1>8, <1>9, <1>10 DEF RoutingFit

(* Routes whose gateway was heard get their flows in the same places.        *)
LEMMA RoutesCompleted ==
    ASSUME NEW v \in Both, NEW ads, NEW rs, NEW fl, NEW fl2, NEW up \in [rs -> RouteRows(v)],
           NEW new, RoutingFit(v, ads, rs, fl), RoutesFit(v, rs),
           \A x \in rs : up[x].match = x.match,
           \A g \in new : g.table = "routing" => \E x \in rs : g = RouteAt(v, up[x]),
           \A x \in rs : RouteAt(v, up[x]) = RouteAt(v, x) \/ RouteAt(v, up[x]) \in new,
           PutInto(fl, new, fl2)
    PROVE  RoutesFit(v, {up[x] : x \in rs}) /\ RoutingFit(v, ads, {up[x] : x \in rs}, fl2)
<1>1. /\ \A f \in fl2 : f \in new \/ (f \in fl /\ \A g \in new : Place(f) # Place(g))
      /\ new \subseteq fl2
      /\ \A f \in fl : (\A g \in new : Place(f) # Place(g)) => f \in fl2
  BY DEF PutInto
<1>2. rs \subseteq RouteRows(v) /\ RowsUnique(rs) /\ \A x \in RouteRows(v) : x.match \in MirrorRoutes
  BY DEF RoutesFit, RouteRows
<1>3. /\ \A x : /\ RouteAt(v, x).table = "routing"
                /\ RouteAt(v, x).prio = Weight(v, x.match)
                /\ RouteAt(v, x).match = x.match
      /\ DropAt(v).table = "routing" /\ DropAt(v).prio = 1 /\ DropAt(v).match = Everything
      /\ \A a : /\ MacAt(v, a).prio = 2 /\ PortAt(v, a).prio = 1005 + Span(v)
                /\ InsideAt(v, a).prio = 4 + Span(v)
                /\ MacAt(v, a).table = "routing" /\ PortAt(v, a).table = "routing"
                /\ InsideAt(v, a).table = "routing"
  BY RoutingShapes
<1>4. /\ Span(v) \in Nat
      /\ \A x \in rs : Weight(v, x.match) \in {1} \cup (3 .. 2 + Span(v))
  BY <1>2, RowNumbers
<1>5. PICK rs2 : rs2 = {up[x] : x \in rs}
  OBVIOUS
<1>6. rs2 \subseteq RouteRows(v) /\ NoneDefault(rs2) = NoneDefault(rs)
  BY <1>5 DEF NoneDefault
<1>7. RowsUnique(rs2)
  BY <1>2, <1>5 DEF RowsUnique
<1>8. ASSUME NEW f, f.table = "routing", NEW x \in rs, NEW g \in new, Place(f) = Place(g)
      PROVE  \E y \in rs : g = RouteAt(v, up[y]) /\ f.prio = Weight(v, y.match) /\ f.match = y.match
  <2>1. g.table = "routing" /\ g.prio = f.prio /\ g.match = f.match
    BY <1>8, PlaceFields
  <2>2. PICK y \in rs : g = RouteAt(v, up[y])
    BY <2>1
  <2>3. QED
    BY <1>3, <2>1, <2>2
<1>9. ASSUME NEW f \in fl2, f.table = "routing"
      PROVE  \/ v = "mirror" /\ f = NormalTo
             \/ f = DropAt(v) /\ NoneDefault(rs2)
             \/ \E a \in ads : f \in {MacAt(v, a), PortAt(v, a), InsideAt(v, a)}
             \/ v = "mirror" /\ \E a \in ads, ip \in Ips : Mirror!In(ip, a) /\ f = HostAt(v, a, ip)
             \/ \E x \in rs2 : f = RouteAt(v, x)
  <2>1. CASE f \in new
    BY <1>5, <1>9, <2>1
  <2>2. CASE f \in fl /\ \A g \in new : Place(f) # Place(g)
    <3>1. ASSUME NEW x \in rs, f = RouteAt(v, x) PROVE f = RouteAt(v, up[x])
      <4>1. CASE RouteAt(v, up[x]) \in new
        <5>1. Place(RouteAt(v, up[x])) = Place(f)
          BY <1>3, <3>1 DEF Place
        <5>2. QED
          BY <2>2, <4>1, <5>1
      <4>2. QED
        BY <3>1, <4>1
    <3>2. QED
      BY <1>5, <1>6, <1>9, <2>2, <3>1 DEF RoutingFit
  <2>3. QED
    BY <1>1, <2>1, <2>2
<1>10. ASSUME NoneDefault(rs2) PROVE DropAt(v) \in fl2
  <2>1. NoneDefault(rs) /\ DropAt(v) \in fl
    BY <1>6, <1>10 DEF RoutingFit
  <2>2. ASSUME NEW g \in new, Place(DropAt(v)) = Place(g) PROVE FALSE
    <3>1. g.table = "routing" /\ g.match = Everything
      BY <1>3, <2>2, PlaceFields
    <3>2. PICK y \in rs : g = RouteAt(v, up[y])
      BY <3>1
    <3>3. y.match = Everything
      BY <1>3, <3>1, <3>2
    <3>4. QED
      BY <2>1, <3>3 DEF NoneDefault
  <2>3. QED
    BY <1>1, <2>1, <2>2
<1>11. ASSUME NEW a \in ads PROVE {MacAt(v, a), PortAt(v, a), InsideAt(v, a)} \subseteq fl2
  <2>1. ASSUME NEW f \in {MacAt(v, a), PortAt(v, a), InsideAt(v, a)}, NEW g \in new,
               Place(f) = Place(g)
        PROVE  FALSE
    <3>1. g.table = "routing" /\ g.prio \in {2, 1005 + Span(v), 4 + Span(v)}
      BY <1>3, <2>1, PlaceFields
    <3>2. PICK y \in rs : g = RouteAt(v, up[y])
      BY <3>1
    <3>3. g.prio = Weight(v, y.match)
      BY <1>3, <3>2
    <3>4. QED
      BY <1>4, <3>1, <3>3
  <2>2. {MacAt(v, a), PortAt(v, a), InsideAt(v, a)} \subseteq fl
    BY DEF RoutingFit
  <2>3. QED
    BY <1>1, <2>1, <2>2
<1>12. ASSUME NEW z \in rs2 PROVE RouteAt(v, z) \in fl2
  <2>1. PICK x \in rs : z = up[x]
    BY <1>5
  <2>2. CASE RouteAt(v, up[x]) \in new
    BY <1>1, <2>1, <2>2
  <2>3. CASE RouteAt(v, up[x]) = RouteAt(v, x) /\ RouteAt(v, up[x]) \notin new
    <3>1. RouteAt(v, x) \in fl
      BY DEF RoutingFit
    <3>2. ASSUME NEW g \in new, Place(RouteAt(v, x)) = Place(g) PROVE FALSE
      <4>1. g.table = "routing" /\ g.match = x.match
        BY <1>3, <3>2, PlaceFields
      <4>2. PICK y \in rs : g = RouteAt(v, up[y])
        BY <4>1
      <4>3. y = x
        BY <1>2, <1>3, <4>1, <4>2 DEF RowsUnique
      <4>4. QED
        BY <2>3, <4>2, <4>3
    <3>3. QED
      BY <1>1, <2>1, <2>3, <3>1, <3>2
  <2>4. QED
    BY <2>2, <2>3
<1>13. RoutesFit(v, rs2) /\ RoutingFit(v, ads, rs2, fl2)
  BY <1>6, <1>7, <1>9, <1>10, <1>11, <1>12 DEF RoutingFit, RoutesFit
<1>14. QED
  BY <1>5, <1>13

(* A new address is apart from the others, and its flows have their own       *)
(* places.                                                                   *)
LEMMA AddressAdded ==
    ASSUME NEW v \in Both, NEW ads, NEW rs, NEW fl, NEW fl2, NEW n \in Nat \ {0},
           NEW a \in AddressRow, NEW x \in AddressesOf(v),
           a.start = x.start, a.len = x.len, a.gw = x.gw, a.id = n,
           AddressesApart(v, ads, n), RoutesFit(v, rs), RoutingFit(v, ads, rs, fl),
           \A b \in ads : ~Mirror!In(a.gw, b) /\ ~Mirror!In(b.gw, a),
           PutInto(fl, {MacAt(v, a), PortAt(v, a), InsideAt(v, a)}, fl2)
    PROVE  AddressesApart(v, ads \cup {a}, n + 1) /\ RoutingFit(v, ads \cup {a}, rs, fl2)
<1> DEFINE new == {MacAt(v, a), PortAt(v, a), InsideAt(v, a)}
<1>1. /\ \A f \in fl2 : f \in new \/ (f \in fl /\ \A g \in new : Place(f) # Place(g))
      /\ new \subseteq fl2
      /\ \A f \in fl : (\A g \in new : Place(f) # Place(g)) => f \in fl2
  BY DEF PutInto
<1>2. PICK ads2 : ads2 = ads \cup {a}
  OBVIOUS
<1>3. ads \subseteq AddressRow /\ \A b \in AddressRow : b.id \in Nat
  BY DEF AddressesApart, AddressRow
<1>4. \A b, d : b.start = d.start /\ b.len = d.len => \A ip : Mirror!In(ip, b) = Mirror!In(ip, d)
  BY DEF Mirror!In, Mirror!ApplyMask
<1>5. Mirror!In(a.gw, a) /\ \A b \in ads : Mirror!In(b.gw, b)
  <2>1. \A y \in AddressesOf(v) : Mirror!In(y.gw, y)
    BY RowNumbers
  <2>2. Mirror!In(a.gw, x)
    BY <2>1
  <2>3. ASSUME NEW b \in ads PROVE Mirror!In(b.gw, b)
    <3>1. PICK y \in AddressesOf(v) : y.start = b.start /\ y.len = b.len /\ y.gw = b.gw
      BY DEF AddressesApart
    <3>2. QED
      BY <1>4, <2>1, <3>1
  <2>4. QED
    BY <1>4, <2>2, <2>3
<1>6. AddressesApart(v, ads2, n + 1)
  <2>1. \A b \in ads2 : \E y \in AddressesOf(v) : y.start = b.start /\ y.len = b.len /\ y.gw = b.gw
    BY <1>2 DEF AddressesApart
  <2>2. \A b, d \in ads2 : Mirror!In(b.gw, d) => b = d
    BY <1>2 DEF AddressesApart
  <2>3. \A b \in ads : b.id < n
    BY DEF AddressesApart
  <2>4. \A b, d \in ads2 : b.id = d.id => b = d
    BY <1>2, <1>3, <2>3 DEF AddressesApart
  <2>5. \A b \in ads2 : b.id < n + 1
    BY <1>2, <1>3, <2>3
  <2>6. QED
    BY <1>2, <1>3, <2>1, <2>2, <2>4, <2>5 DEF AddressesApart
<1>7. ASSUME NEW f, f.prio \in Nat \ {2, 1005 + Span(v), 4 + Span(v)}, NEW g \in new
      PROVE  Place(f) # Place(g)
  BY <1>7, RoutingShapes, PlaceFields
<1>8. ASSUME NEW b \in ads, NEW f \in {MacAt(v, b), PortAt(v, b), InsideAt(v, b)}, NEW g \in new
      PROVE  Place(f) # Place(g)
  <2>1. SUFFICES ASSUME f.prio = g.prio, f.match = g.match PROVE FALSE
    BY PlaceFields
  <2>2. Span(v) \in Nat
    BY RowNumbers
  <2>3. \/ f = MacAt(v, b) /\ g = MacAt(v, a)
        \/ f = PortAt(v, b) /\ g = PortAt(v, a)
        \/ f = InsideAt(v, b) /\ g = InsideAt(v, a)
    BY <2>1, <2>2, RoutingShapes
  <2>4. \/ Mirror!HostNet(a.gw) = Mirror!HostNet(b.gw)
        \/ Mirror!Net(a) = Mirror!Net(b)
    <3>1. \A s, d, s2, d2 : Mirror!Between(s, d) = Mirror!Between(s2, d2) => d = d2
      BY DEF Mirror!Between
    <3>2. CASE f = MacAt(v, b) /\ g = MacAt(v, a)
      BY <2>1, <3>1, <3>2, RoutingShapes
    <3>3. CASE f = PortAt(v, b) /\ g = PortAt(v, a)
      BY <2>1, <3>1, <3>3, RoutingShapes
    <3>4. CASE f = InsideAt(v, b) /\ g = InsideAt(v, a)
      BY <2>1, <3>1, <3>4, RoutingShapes
    <3>5. QED
      BY <2>3, <3>2, <3>3, <3>4
  <2>5. CASE Mirror!HostNet(a.gw) = Mirror!HostNet(b.gw)
    BY <1>5, <2>5 DEF Mirror!HostNet
  <2>6. CASE Mirror!Net(a) = Mirror!Net(b)
    BY <1>4, <1>5, <2>6 DEF Mirror!Net
  <2>7. QED
    BY <2>4, <2>5, <2>6
<1>9. /\ \A r \in rs : RouteAt(v, r).prio \in Nat \ {2, 1005 + Span(v), 4 + Span(v)}
      /\ DropAt(v).prio \in Nat \ {2, 1005 + Span(v), 4 + Span(v)}
  <2>1. \A r \in rs : r.match \in MirrorRoutes
    BY DEF RoutesFit, RouteRows
  <2>2. Span(v) \in Nat /\ \A r \in rs : Weight(v, r.match) \in {1} \cup (3 .. 2 + Span(v))
    BY <2>1, RowNumbers
  <2>3. DropAt(v).prio = 1 /\ \A r : RouteAt(v, r).prio = Weight(v, r.match)
    BY RoutingShapes
  <2>4. QED
    BY <2>2, <2>3
<1> HIDE DEF new
<1>10. ASSUME NEW f \in fl2, f.table = "routing"
       PROVE  \/ v = "mirror" /\ f = NormalTo
              \/ f = DropAt(v) /\ NoneDefault(rs)
              \/ \E b \in ads2 : f \in {MacAt(v, b), PortAt(v, b), InsideAt(v, b)}
              \/ v = "mirror" /\ \E b \in ads2, ip \in Ips : Mirror!In(ip, b) /\ f = HostAt(v, b, ip)
              \/ \E r \in rs : f = RouteAt(v, r)
  <2>1. CASE f \in new
    BY <1>2, <2>1 DEF new
  <2>2. CASE f \in fl
    BY <1>2, <1>10, <2>2 DEF RoutingFit
  <2>3. QED
    BY <1>1, <2>1, <2>2
<1>11. NoneDefault(rs) => DropAt(v) \in fl2
  BY <1>1, <1>7, <1>9 DEF RoutingFit
<1>12. ASSUME NEW b \in ads2 PROVE {MacAt(v, b), PortAt(v, b), InsideAt(v, b)} \subseteq fl2
  <2>1. CASE b = a
    BY <1>1, <2>1 DEF new
  <2>2. CASE b \in ads
    <3>1. {MacAt(v, b), PortAt(v, b), InsideAt(v, b)} \subseteq fl
      BY <2>2 DEF RoutingFit
    <3>2. QED
      BY <1>1, <1>8, <2>2, <3>1
  <2>3. QED
    BY <1>2, <2>1, <2>2
<1>13. ASSUME NEW r \in rs PROVE RouteAt(v, r) \in fl2
  BY <1>1, <1>7, <1>9 DEF RoutingFit
<1>14. AddressesApart(v, ads2, n + 1) /\ RoutingFit(v, ads2, rs, fl2)
  BY <1>6, <1>10, <1>11, <1>12, <1>13 DEF RoutingFit
<1>15. QED
  BY <1>2, <1>14

(* A deletion of an address takes its own flows and no others.               *)
TakenFrom(fl, fl2, cookie) ==
    /\ \A f \in fl2 : f \in fl /\ (f.table = "routing" => f.cookie # cookie)
    /\ \A f \in fl : f.table # "routing" \/ f.cookie # cookie => f \in fl2

(* Without the address that a deletion takes, its flows gone, the rest fits.  *)
LEMMA AddressGone ==
    ASSUME NEW v \in Both, NEW ads, NEW rs, NEW fl, NEW fl2, NEW n, NEW gone \in ads,
           NEW ads2, ads2 = ads \ {gone}, FewIds(14), AddressesApart(v, ads, n),
           RoutesFit(v, rs), RoutingFit(v, ads, rs, fl),
           TakenFrom(fl, fl2, Base(v) + gone.id)
    PROVE  AddressesApart(v, ads2, n) /\ RoutingFit(v, ads2, rs, fl2)
<1>1. /\ \A f \in fl2 : f \in fl /\ (f.table = "routing" => f.cookie # Base(v) + gone.id)
      /\ \A f \in fl : f.table # "routing" \/ f.cookie # Base(v) + gone.id => f \in fl2
  BY DEF TakenFrom
<1>2. AddressesApart(v, ads2, n)
  BY DEF AddressesApart
<1>3. /\ ads \subseteq AddressRow /\ MaxIds \in 0 .. 13
      /\ \A r \in rs : r.id \in 1 .. MaxIds
      /\ Base(v) \in {0, 3000000}
  BY RowNumbers DEF AddressesApart, FewIds, RoutesFit, RouteRows
<1>4. \A a \in ads : a.id \in 1 .. 13
  BY <1>3 DEF AddressRow
<1>5. \A a \in ads2 : Base(v) + a.id # Base(v) + gone.id
  BY <1>3, <1>4 DEF AddressesApart
<1>6. \A r \in rs : Base(v) + r.id * 65536 # Base(v) + gone.id
  BY <1>3, <1>4
<1>7. Base(v) # Base(v) + gone.id
  BY <1>3, <1>4
<1>8. ASSUME NEW f \in fl2, f.table = "routing"
      PROVE  \/ v = "mirror" /\ f = NormalTo
             \/ f = DropAt(v) /\ NoneDefault(rs)
             \/ \E b \in ads2 : f \in {MacAt(v, b), PortAt(v, b), InsideAt(v, b)}
             \/ v = "mirror" /\ \E b \in ads2, ip \in Ips : Mirror!In(ip, b) /\ f = HostAt(v, b, ip)
             \/ \E r \in rs : f = RouteAt(v, r)
  <2>1. f \in fl /\ f.cookie # Base(v) + gone.id
    BY <1>1, <1>8
  <2>2. \A b \in ads : f \in {MacAt(v, b), PortAt(v, b), InsideAt(v, b)} => b # gone
    BY <2>1, RoutingShapes
  <2>3. \A b \in ads, ip \in Ips : f = HostAt(v, b, ip) => b # gone
    BY <2>1, RoutingShapes
  <2>4. QED
    BY <1>8, <2>1, <2>2, <2>3 DEF RoutingFit
<1>9. NoneDefault(rs) => DropAt(v) \in fl2
  BY <1>1, <1>7, RoutingShapes DEF RoutingFit
<1>10. ASSUME NEW b \in ads2 PROVE {MacAt(v, b), PortAt(v, b), InsideAt(v, b)} \subseteq fl2
  <2>1. {MacAt(v, b), PortAt(v, b), InsideAt(v, b)} \subseteq fl
    BY DEF RoutingFit
  <2>2. \A f \in {MacAt(v, b), PortAt(v, b), InsideAt(v, b)} :
            f.table = "routing" /\ f.cookie = Base(v) + b.id
    BY RoutingShapes
  <2>3. QED
    BY <1>1, <1>5, <2>1, <2>2
<1>11. ASSUME NEW r \in rs PROVE RouteAt(v, r) \in fl2
  BY <1>1, <1>6, RoutingShapes DEF RoutingFit
<1>12. RoutingFit(v, ads2, rs, fl2)
  BY <1>8, <1>9, <1>10, <1>11 DEF RoutingFit
<1>13. QED
  BY <1>2, <1>12

(* A host that was heard has flows of its own, which may go again.           *)
LEMMA HostsChange ==
    ASSUME NEW ads, NEW rs, NEW fl, NEW fl2, RoutesFit("mirror", rs),
           RoutingFit("mirror", ads, rs, fl),
           \A f \in fl2 : f.table = "routing" =>
              \/ f \in fl
              \/ \E a \in ads, ip \in Ips : Mirror!In(ip, a) /\ f = HostAt("mirror", a, ip),
           \A f \in fl : f.table = "routing" /\ f.prio # 3 + Bits => f \in fl2
    PROVE  RoutingFit("mirror", ads, rs, fl2)
<1>1. Span("mirror") = Bits /\ Bits \in Nat /\ "mirror" \in Both
  BY RowNumbers DEF Span, Both
<1>2. \A r \in rs : r.match \in MirrorRoutes
  BY DEF RoutesFit, RouteRows
<1>3. \A r \in rs : Weight("mirror", r.match) \in {1} \cup (3 .. 2 + Span("mirror"))
  BY <1>1, <1>2, RowNumbers
<1>4. /\ \A r \in rs : RouteAt("mirror", r).prio # 3 + Bits
      /\ \A a : \A f \in {MacAt("mirror", a), PortAt("mirror", a), InsideAt("mirror", a)} :
            f.prio # 3 + Bits /\ f.table = "routing"
      /\ \A r \in rs : RouteAt("mirror", r).table = "routing"
      /\ DropAt("mirror").prio # 3 + Bits /\ DropAt("mirror").table = "routing"
  BY <1>1, <1>3, RoutingShapes
<1>5. ASSUME NEW f \in fl2, f.table = "routing"
      PROVE  \/ f = NormalTo
             \/ f = DropAt("mirror") /\ NoneDefault(rs)
             \/ \E b \in ads : f \in {MacAt("mirror", b), PortAt("mirror", b), InsideAt("mirror", b)}
             \/ \E b \in ads, ip \in Ips : Mirror!In(ip, b) /\ f = HostAt("mirror", b, ip)
             \/ \E r \in rs : f = RouteAt("mirror", r)
  BY <1>5 DEF RoutingFit
<1>6. NoneDefault(rs) => DropAt("mirror") \in fl2
  BY <1>4 DEF RoutingFit
<1>7. ASSUME NEW b \in ads
      PROVE  {MacAt("mirror", b), PortAt("mirror", b), InsideAt("mirror", b)} \subseteq fl2
  BY <1>4 DEF RoutingFit
<1>8. ASSUME NEW r \in rs PROVE RouteAt("mirror", r) \in fl2
  BY <1>4 DEF RoutingFit
<1>9. QED
  BY <1>5, <1>6, <1>7, <1>8 DEF RoutingFit

-----------------------------------------------------------------------------
(* The two tables of a switch are apart.                                     *)
LEMMA SameRouting ==
    ASSUME NEW v, NEW ads, NEW rs, NEW fl, NEW fl2, RoutingFit(v, ads, rs, fl),
           \A f \in fl2 : f.table = "routing" => f \in fl,
           \A f \in fl : f.table = "routing" => f \in fl2
    PROVE  RoutingFit(v, ads, rs, fl2)
<1>1. \A f \in fl2 : f.table = "routing" =>
          \/ v = "mirror" /\ f = NormalTo
          \/ f = DropAt(v) /\ NoneDefault(rs)
          \/ \E a \in ads : f \in {MacAt(v, a), PortAt(v, a), InsideAt(v, a)}
          \/ v = "mirror" /\ \E a \in ads, ip \in Ips : Mirror!In(ip, a) /\ f = HostAt(v, a, ip)
          \/ \E r \in rs : f = RouteAt(v, r)
  BY DEF RoutingFit
<1>2. /\ DropAt(v).table = "routing"
      /\ \A a : \A f \in {MacAt(v, a), PortAt(v, a), InsideAt(v, a)} : f.table = "routing"
      /\ \A r : RouteAt(v, r).table = "routing"
  BY RoutingShapes
<1>3. /\ NoneDefault(rs) => DropAt(v) \in fl2
      /\ \A a \in ads : {MacAt(v, a), PortAt(v, a), InsideAt(v, a)} \subseteq fl2
      /\ \A r \in rs : RouteAt(v, r) \in fl2
  BY <1>2 DEF RoutingFit
<1>4. QED
  BY <1>1, <1>3 DEF RoutingFit

(* What is copied depends on mirrors and their flows alone.                   *)
LEMMA SameCopies ==
    ASSUME NEW ms, NEW fl, NEW fl2, CopyFit(ms, fl),
           \A f \in fl2 : f.table # "routing" => f \in fl,
           \A f \in fl : f.table # "routing" => f \in fl2
    PROVE  CopyFit(ms, fl2)
<1>1. /\ Mirror!DefaultMirrorFlow.table # "routing"
      /\ \A m \in ms : CopyFlow(m).table # "routing"
  BY DEF Mirror!DefaultMirrorFlow, CopyFlow, Mirror!MirroringFlow, Mirror!MirrorPacketInFlow,
         Mirror!Mirroring, Mirror!Flow
<1>2. QED
  BY <1>1 DEF CopyFit

\* What the flows of table 1 are made of, at the deployed controller.
LEMMA CopyShapes ==
    ASSUME RowsLeadOut
    PROVE  /\ Mirror!DefaultMirrorFlow.table = "mirror" /\ Mirror!DefaultMirrorFlow.prio = 0
           /\ Mirror!DefaultMirrorFlow.match = Everything
           /\ Mirror!DefaultMirrorFlow.action = <<"goto">>
           /\ \A m \in StationRow :
                 /\ CopyFlow(m).table = "mirror" /\ CopyFlow(m).prio = 2 + m.match.dst.len
                 /\ CopyFlow(m).prio \in 3 .. 2 + Bits /\ CopyFlow(m).prio # 0
                 /\ CopyFlow(m).match = m.match
                 /\ CopyFlow(m).action =
                       IF m.mac THEN <<"copy", m.gateway>> ELSE <<"controller">>
<1>1. /\ Mirror!DefaultMirrorFlow.table = "mirror" /\ Mirror!DefaultMirrorFlow.prio = 0
      /\ Mirror!DefaultMirrorFlow.match = Everything
      /\ Mirror!DefaultMirrorFlow.action = <<"goto">>
  BY DEF Mirror!DefaultMirrorFlow, Mirror!Mirroring, Mirror!Flow, Everything, Mirror!Between
<1>2. ASSUME NEW m \in StationRow
      PROVE  /\ CopyFlow(m).table = "mirror" /\ CopyFlow(m).prio = 2 + m.match.dst.len
             /\ CopyFlow(m).prio \in 3 .. 2 + Bits /\ CopyFlow(m).prio # 0
             /\ CopyFlow(m).match = m.match
             /\ CopyFlow(m).action = IF m.mac THEN <<"copy", m.gateway>> ELSE <<"controller">>
  <2>1. m.match \in Mirrors /\ "mirror" \in Both
    BY DEF StationRow, Both
  <2>2. m.match.dst.len \in 0 .. Bits /\ m.match.dst.len # 0 /\ Bits \in Nat
    BY <2>1, RowNumbers DEF RowsLeadOut
  <2>3. Mirror!RoutePriority(m.match) = 2 + m.match.dst.len
    BY <2>2 DEF Mirror!RoutePriority, Mirror!STATIC_ROUTING
  <2>4. QED
    BY <2>2, <2>3
       DEF CopyFlow, Mirror!MirroringFlow, Mirror!MirrorPacketInFlow, Mirror!Mirroring, Mirror!Flow
<1>3. QED
  BY <1>1, <1>2

(* The router of the deployed controller: its invariant holds at first, and   *)
(* every step keeps it.                                                      *)
LEMMA MirrorStarts == Mirror!Init => MirrorInv
<1>1. SUFFICES ASSUME Mirror!Init PROVE MirrorInv
  OBVIOUS
<1>2. mirrorAddress = {} /\ mirrorRoute = {} /\ mirror = {}
      /\ mirrorFlow = {Mirror!DefaultMirrorFlow, NormalTo, DropAt("mirror")}
      /\ mirrorNext = [address |-> 1, route |-> 1, mirror |-> 1]
  BY <1>1, MirrorFlows DEF Mirror!Init
<1>3. Mirror!DefaultMirrorFlow.table = "mirror"
  BY DEF Mirror!DefaultMirrorFlow, Mirror!Mirroring, Mirror!Flow
<1>4. RoutingFit("mirror", mirrorAddress, mirrorRoute, mirrorFlow)
  BY <1>2, <1>3 DEF RoutingFit, NoneDefault
<1>5. CopyFit(mirror, mirrorFlow)
  BY <1>2, RoutingShapes DEF CopyFit, RowsUnique
<1>6. /\ AddressesApart("mirror", mirrorAddress, mirrorNext["address"])
      /\ RoutesFit("mirror", mirrorRoute)
  BY <1>2 DEF AddressesApart, RoutesFit, RowsUnique
<1>7. mirrorNext \in [{"address", "route", "mirror"} -> Nat \ {0}]
  BY <1>2
<1>8. QED
  BY <1>4, <1>5, <1>6, <1>7 DEF MirrorInv

(* Setting an address, at the deployed controller.                            *)
LEMMA MirrorSetAddressKeeps ==
    ASSUME RowsLeadOut, MirrorInv, NEW x \in Addresses, Mirror!SetAddress(x)
    PROVE  MirrorInv'
<1>1. PICK a : a = [start |-> x.start, len |-> x.len, gw |-> x.gw, id |-> mirrorNext["address"]]
  OBVIOUS
<1>2. /\ \A b \in mirrorAddress : ~Mirror!In(x.gw, b) /\ ~Mirror!In(b.gw, x)
      /\ mirrorNext["address"] <= MaxIds
      /\ mirrorNext' = [mirrorNext EXCEPT !["address"] = @ + 1]
      /\ mirrorAddress' = mirrorAddress \cup {a}
      /\ mirrorFlow' = Mirror!With(mirrorFlow, Mirror!AddressFlows(a))
      /\ UNCHANGED <<mirrorRoute, mirror>>
  BY <1>1 DEF Mirror!SetAddress, Mirror!Counted
<1>3. /\ mirrorNext \in [{"address", "route", "mirror"} -> Nat \ {0}]
      /\ AddressesApart("mirror", mirrorAddress, mirrorNext["address"])
      /\ RoutesFit("mirror", mirrorRoute)
      /\ RoutingFit("mirror", mirrorAddress, mirrorRoute, mirrorFlow)
      /\ CopyFit(mirror, mirrorFlow)
  BY DEF MirrorInv
<1>4. PICK n \in Nat \ {0} : n = mirrorNext["address"]
  BY <1>3
<1>5. mirrorNext'["address"] = n + 1 /\ mirrorNext' \in [{"address", "route", "mirror"} -> Nat \ {0}]
  BY <1>2, <1>3, <1>4
<1>6. x \in [start : Ips, len : 0 .. Bits, gw : Ips] /\ x \in AddressesOf("mirror") /\ "mirror" \in Both
  BY FlowsAssumption DEF AddressesOf, Both
<1>7. a \in AddressRow /\ a.start = x.start /\ a.len = x.len /\ a.gw = x.gw /\ a.id = n
  <2>1. n \in 1 .. MaxIds
    BY <1>2, <1>4, IdsFew
  <2>2. QED
    BY <1>1, <1>4, <1>6, <2>1 DEF AddressRow
<1>8. \A b \in mirrorAddress : ~Mirror!In(a.gw, b) /\ ~Mirror!In(b.gw, a)
  BY <1>2, <1>7 DEF Mirror!In, Mirror!ApplyMask
<1>9. PutInto(mirrorFlow, {MacAt("mirror", a), PortAt("mirror", a), InsideAt("mirror", a)}, mirrorFlow')
  BY <1>2, <1>7, Puts, MirrorFlows
<1>10. /\ AddressesApart("mirror", mirrorAddress \cup {a}, n + 1)
       /\ RoutingFit("mirror", mirrorAddress \cup {a}, mirrorRoute, mirrorFlow')
  BY <1>3, <1>4, <1>6, <1>7, <1>8, <1>9, AddressAdded
<1>11. \A g \in {MacAt("mirror", a), PortAt("mirror", a), InsideAt("mirror", a)} : g.table = "routing"
  BY RoutingShapes
<1>12. CopyFit(mirror, mirrorFlow')
  <2>1. \A f \in mirrorFlow' : f.table # "routing" => f \in mirrorFlow
    BY <1>9, <1>11 DEF PutInto
  <2>2. \A f \in mirrorFlow : f.table # "routing" => f \in mirrorFlow'
    BY <1>9, <1>11, PlaceFields DEF PutInto
  <2>3. QED
    BY <1>3, <2>1, <2>2, SameCopies
<1>13. QED
  BY <1>2, <1>3, <1>5, <1>10, <1>12 DEF MirrorInv

(* Setting a route, at the deployed controller.                               *)
LEMMA MirrorSetRouteKeeps ==
    ASSUME RowsLeadOut, MirrorInv, NEW match \in MirrorRoutes, NEW gw \in MirrorGateways,
           Mirror!SetRoute(match, gw)
    PROVE  MirrorInv'
<1>1. PICK r : r = Mirror!NewRow("route", match, gw)
  OBVIOUS
<1>2. /\ mirrorNext["route"] <= MaxIds
      /\ mirrorNext' = [mirrorNext EXCEPT !["route"] = @ + 1]
      /\ mirrorRoute' = {x \in mirrorRoute : x.match # r.match} \cup {r}
      /\ mirrorFlow' = Mirror!With(mirrorFlow, {Mirror!PacketInFlow(r)})
      /\ UNCHANGED <<mirrorAddress, mirror>>
  BY <1>1 DEF Mirror!SetRoute, Mirror!Counted, Mirror!Entered
<1>3. /\ mirrorNext \in [{"address", "route", "mirror"} -> Nat \ {0}]
      /\ AddressesApart("mirror", mirrorAddress, mirrorNext["address"])
      /\ RoutesFit("mirror", mirrorRoute)
      /\ RoutingFit("mirror", mirrorAddress, mirrorRoute, mirrorFlow)
      /\ CopyFit(mirror, mirrorFlow)
  BY DEF MirrorInv
<1>4. mirrorNext'["address"] = mirrorNext["address"]
      /\ mirrorNext' \in [{"address", "route", "mirror"} -> Nat \ {0}]
  BY <1>2, <1>3
<1>5. r \in RouteRows("mirror") /\ ~r.mac
  <2>1. mirrorNext["route"] \in Nat \ {0} /\ MaxIds \in Nat
    BY <1>3, IdsFew
  <2>2. mirrorNext["route"] \in 1 .. MaxIds
    BY <1>2, <2>1
  <2>3. QED
    BY <1>1, <2>2 DEF Mirror!NewRow, RouteRows
<1>6. PutInto(mirrorFlow, {RouteAt("mirror", r)}, mirrorFlow')
  BY <1>2, <1>5, Puts, MirrorFlows
<1>7. RoutesFit("mirror", mirrorRoute') /\ RoutingFit("mirror", mirrorAddress, mirrorRoute', mirrorFlow')
  <2>1. "mirror" \in Both
    BY DEF Both
  <2>2. QED
    BY <1>2, <1>3, <1>5, <1>6, <2>1, RoutePut
<1>8. CopyFit(mirror, mirrorFlow')
  <2>1. RouteAt("mirror", r).table = "routing"
    BY RoutingShapes
  <2>2. \A f \in mirrorFlow' : f.table # "routing" => f \in mirrorFlow
    BY <1>6, <2>1 DEF PutInto
  <2>3. \A f \in mirrorFlow : f.table # "routing" => f \in mirrorFlow'
    BY <1>6, <2>1, PlaceFields DEF PutInto
  <2>4. QED
    BY <1>3, <2>2, <2>3, SameCopies
<1>9. QED
  BY <1>2, <1>3, <1>4, <1>7, <1>8 DEF MirrorInv

\* The same of mirrors, in their table.
LEMMA CopiesPut ==
    ASSUME RowsLeadOut, NEW ms, NEW fl, NEW fl2, NEW up \in [ms -> StationRow], NEW new,
           CopyFit(ms, fl), \A m \in ms : up[m].match = m.match,
           \A g \in new : \E m \in ms : g = CopyFlow(up[m]),
           \A m \in ms : CopyFlow(up[m]) = CopyFlow(m) \/ CopyFlow(up[m]) \in new,
           PutInto(fl, new, fl2)
    PROVE  CopyFit({up[m] : m \in ms}, fl2)
<1>1. /\ \A f \in fl2 : f \in new \/ (f \in fl /\ \A g \in new : Place(f) # Place(g))
      /\ new \subseteq fl2
      /\ \A f \in fl : (\A g \in new : Place(f) # Place(g)) => f \in fl2
  BY DEF PutInto
<1>2. ms \subseteq StationRow /\ RowsUnique(ms)
  BY DEF CopyFit
<1>3. \A m \in StationRow : /\ CopyFlow(m).table = "mirror" /\ CopyFlow(m).match = m.match
                            /\ CopyFlow(m).prio = 2 + m.match.dst.len
                            /\ CopyFlow(m).prio # 0 /\ Mirror!DefaultMirrorFlow.prio = 0
  BY CopyShapes
<1>4. PICK ms2 : ms2 = {up[m] : m \in ms}
  OBVIOUS
<1>5. ms2 \subseteq StationRow /\ RowsUnique(ms2)
  BY <1>2, <1>4 DEF RowsUnique
<1>6. Mirror!DefaultMirrorFlow \in fl2
  BY <1>1, <1>3, PlaceFields DEF CopyFit
<1>7. ASSUME NEW z \in ms2 PROVE CopyFlow(z) \in fl2
  <2>1. PICK m \in ms : z = up[m]
    BY <1>4
  <2>2. CASE CopyFlow(up[m]) = CopyFlow(m) /\ CopyFlow(up[m]) \notin new
    <3>1. ASSUME NEW g \in new, Place(CopyFlow(m)) = Place(g) PROVE FALSE
      <4>1. PICK k \in ms : g = CopyFlow(up[k])
        OBVIOUS
      <4>2. k.match = m.match
        BY <1>2, <1>3, <3>1, <4>1, PlaceFields
      <4>3. QED
        BY <1>2, <2>2, <4>1, <4>2 DEF RowsUnique
    <3>2. QED
      BY <1>1, <2>1, <2>2, <3>1 DEF CopyFit
  <2>3. QED
    BY <1>1, <2>1, <2>2
<1>8. ASSUME NEW f \in fl2, f.table # "routing"
      PROVE  f = Mirror!DefaultMirrorFlow \/ \E z \in ms2 : f = CopyFlow(z)
  <2>1. CASE f \in new
    BY <1>4, <2>1
  <2>2. CASE f \in fl /\ \A g \in new : Place(f) # Place(g)
    <3>1. ASSUME NEW m \in ms, f = CopyFlow(m) PROVE f = CopyFlow(up[m])
      <4>1. CASE CopyFlow(up[m]) \in new
        <5>1. Place(CopyFlow(up[m])) = Place(f)
          BY <1>2, <1>3, <3>1 DEF Place
        <5>2. QED
          BY <2>2, <4>1, <5>1
      <4>2. QED
        BY <3>1, <4>1
    <3>2. QED
      BY <1>4, <1>8, <2>2, <3>1 DEF CopyFit
  <2>3. QED
    BY <1>1, <2>1, <2>2
<1>9. QED
  BY <1>4, <1>5, <1>6, <1>7, <1>8 DEF CopyFit

(* Setting a mirror, at the deployed controller.                              *)
LEMMA MirrorSetMirrorKeeps ==
    ASSUME RowsLeadOut, MirrorInv, NEW match \in Mirrors, NEW station \in Stations,
           Mirror!SetMirror(match, station)
    PROVE  MirrorInv'
<1>1. PICK r : r = Mirror!NewRow("mirror", match, station)
  OBVIOUS
<1>2. /\ mirrorNext["mirror"] <= MaxIds
      /\ mirrorNext' = [mirrorNext EXCEPT !["mirror"] = @ + 1]
      /\ mirror' = {x \in mirror : x.match # r.match} \cup {r}
      /\ mirrorFlow' = Mirror!With(mirrorFlow, {Mirror!MirrorPacketInFlow(r)})
      /\ UNCHANGED <<mirrorAddress, mirrorRoute>>
  BY <1>1 DEF Mirror!SetMirror, Mirror!Counted, Mirror!Entered
<1>3. /\ mirrorNext \in [{"address", "route", "mirror"} -> Nat \ {0}]
      /\ AddressesApart("mirror", mirrorAddress, mirrorNext["address"])
      /\ RoutesFit("mirror", mirrorRoute)
      /\ RoutingFit("mirror", mirrorAddress, mirrorRoute, mirrorFlow)
      /\ CopyFit(mirror, mirrorFlow)
  BY DEF MirrorInv
<1>4. mirrorNext'["address"] = mirrorNext["address"]
      /\ mirrorNext' \in [{"address", "route", "mirror"} -> Nat \ {0}]
  BY <1>2, <1>3
<1>5. r \in StationRow /\ ~r.mac
  <2>1. mirrorNext["mirror"] \in Nat \ {0} /\ MaxIds \in Nat
    BY <1>3, IdsFew
  <2>2. mirrorNext["mirror"] \in 1 .. MaxIds
    BY <1>2, <2>1
  <2>3. QED
    BY <1>1, <2>2 DEF Mirror!NewRow, StationRow
<1>6. PutInto(mirrorFlow, {CopyFlow(r)}, mirrorFlow')
  BY <1>2, <1>5, Puts DEF CopyFlow
<1>7. mirror \subseteq StationRow /\ RowsUnique(mirror)
  BY <1>3 DEF CopyFit
<1>8. \A m \in StationRow : /\ CopyFlow(m).table = "mirror" /\ CopyFlow(m).match = m.match
                            /\ CopyFlow(m).prio = 2 + m.match.dst.len
                            /\ CopyFlow(m).prio # 0 /\ Mirror!DefaultMirrorFlow.prio = 0
  BY CopyShapes
<1>9. RoutingFit("mirror", mirrorAddress, mirrorRoute, mirrorFlow')
  <2>1. PICK new : new = {CopyFlow(r)}
    OBVIOUS
  <2>2. PutInto(mirrorFlow, new, mirrorFlow') /\ \A g \in new : g.table # "routing"
    BY <1>5, <1>6, <1>8, <2>1
  <2>3. /\ \A f \in mirrorFlow' : f.table = "routing" => f \in mirrorFlow
        /\ \A f \in mirrorFlow : f.table = "routing" => f \in mirrorFlow'
    BY <2>2, PlaceFields DEF PutInto
  <2>4. QED
    BY <1>3, <2>3, SameRouting
<1>10. CopyFit(mirror', mirrorFlow')
  <2>1. mirror' \subseteq StationRow /\ RowsUnique(mirror')
    BY <1>2, <1>5, <1>7 DEF RowsUnique
  <2>2. Mirror!DefaultMirrorFlow \in mirrorFlow'
    BY <1>3, <1>5, <1>6, <1>8, PlaceFields DEF CopyFit, PutInto
  <2>3. ASSUME NEW m \in mirror' PROVE CopyFlow(m) \in mirrorFlow'
    <3>1. CASE m = r
      BY <1>6, <3>1 DEF PutInto
    <3>2. CASE m \in mirror /\ m.match # r.match
      BY <1>3, <1>5, <1>6, <1>7, <1>8, <3>2, PlaceFields DEF CopyFit, PutInto
    <3>3. QED
      BY <1>2, <3>1, <3>2
  <2>4. ASSUME NEW f \in mirrorFlow', f.table # "routing"
        PROVE  f = Mirror!DefaultMirrorFlow \/ \E m \in mirror' : f = CopyFlow(m)
    <3>1. CASE f = CopyFlow(r)
      BY <1>2, <3>1
    <3>2. CASE f \in mirrorFlow /\ Place(f) # Place(CopyFlow(r))
      <4>1. ASSUME NEW m \in mirror, f = CopyFlow(m) PROVE m.match # r.match
        BY <1>5, <1>7, <1>8, <3>2, <4>1 DEF Place
      <4>2. QED
        BY <1>2, <1>3, <2>4, <3>2, <4>1 DEF CopyFit
    <3>3. QED
      BY <1>6, <3>1, <3>2 DEF PutInto
  <2>5. QED
    BY <2>1, <2>2, <2>3, <2>4 DEF CopyFit
<1>11. QED
  BY <1>2, <1>3, <1>4, <1>9, <1>10 DEF MirrorInv

(* A deletion, at the deployed controller.                                    *)
LEMMA MirrorDeleteKeeps ==
    ASSUME RowsLeadOut, MirrorInv,
           \/ \E a \in mirrorAddress : Mirror!DeleteAddress(a.id)
           \/ \E r \in mirrorRoute : Mirror!DeleteRoute(r.id)
    PROVE  MirrorInv'
<1>1. /\ mirrorNext \in [{"address", "route", "mirror"} -> Nat \ {0}]
      /\ AddressesApart("mirror", mirrorAddress, mirrorNext["address"])
      /\ RoutesFit("mirror", mirrorRoute)
      /\ RoutingFit("mirror", mirrorAddress, mirrorRoute, mirrorFlow)
      /\ CopyFit(mirror, mirrorFlow)
  BY DEF MirrorInv
<1>2. \A f \in mirrorFlow : f.table \in {"mirror", "routing"}
  <2>1. \A m \in mirror : CopyFlow(m).table = "mirror"
    BY <1>1, CopyShapes DEF CopyFit
  <2>2. QED
    BY <1>1, <2>1, CopyShapes DEF CopyFit
<1>3. ASSUME NEW gone \in mirrorAddress, Mirror!DeleteAddress(gone.id)
      PROVE  MirrorInv'
  <2>1. /\ mirrorAddress' = mirrorAddress \ {a \in mirrorAddress : a.id = gone.id}
        /\ mirrorFlow' = {f \in mirrorFlow : f.table = "mirror" \/ f.cookie \notin {gone.id}}
        /\ UNCHANGED <<mirrorRoute, mirror, mirrorNext>>
    BY <1>3 DEF Mirror!DeleteAddress, Mirror!FlowsWithout
  <2>2. Base("mirror") + gone.id = gone.id
    BY <1>1 DEF Base, AddressesApart, AddressRow
  <2>3. PICK fl, nets : fl = mirrorFlow' /\ nets = mirrorAddress'
    OBVIOUS
  <2>4. TakenFrom(mirrorFlow, fl, Base("mirror") + gone.id)
    BY <1>2, <2>1, <2>2, <2>3 DEF TakenFrom
  <2>5. nets = mirrorAddress \ {gone}
    BY <1>1, <2>1, <2>3 DEF AddressesApart
  <2>6. "mirror" \in Both /\ FewIds(14)
    BY IdsFew DEF Both
  <2>7. /\ AddressesApart("mirror", nets, mirrorNext["address"])
        /\ RoutingFit("mirror", nets, mirrorRoute, fl)
    BY <1>1, <2>4, <2>5, <2>6, AddressGone
  <2>8. CopyFit(mirror, fl)
    <3>1. /\ \A f \in fl : f.table # "routing" => f \in mirrorFlow
          /\ \A f \in mirrorFlow : f.table # "routing" => f \in fl
      BY <2>4 DEF TakenFrom
    <3>2. QED
      BY <1>1, <3>1, SameCopies
  <2>9. QED
    BY <1>1, <2>1, <2>3, <2>7, <2>8 DEF MirrorInv
<1>4. ASSUME NEW gone \in mirrorRoute, Mirror!DeleteRoute(gone.id)
      PROVE  MirrorInv'
  <2>1. ASSUME NEW c \in Mirror!Shown PROVE Mirror!CookieToRoute(c) # gone.id
    <3>1. c \in Nat /\ c < 65536
      BY DEF Mirror!Shown, RowsLeadOut
    <3>2. c \div 65536 = 0
      BY <3>1
    <3>3. gone.id \in Nat \ {0}
      BY <1>1 DEF RoutesFit, RouteRows
    <3>4. QED
      BY <3>2, <3>3 DEF Mirror!CookieToRoute, Mirror!Shift
  <2>2. {c \in Mirror!Shown : Mirror!CookieToRoute(c) = gone.id} = {}
    BY <2>1
  <2>3. /\ mirrorRoute' = mirrorRoute /\ mirrorFlow' = mirrorFlow
        /\ UNCHANGED <<mirrorAddress, mirror, mirrorNext>>
    BY <1>4, <2>2 DEF Mirror!DeleteRoute, Mirror!FlowsWithout
  <2>4. QED
    BY <1>1, <2>3 DEF MirrorInv
<1>5. QED
  BY <1>3, <1>4

(* A MAC that is heard goes into the routes of its gateway.                   *)
LEMMA MirrorRoutesHeard ==
    ASSUME RowsLeadOut, MirrorInv, NEW ip \in MirrorHosts, Mirror!UpdateRoutingTbl(ip),
           UNCHANGED <<mirrorAddress, mirrorNext>>
    PROVE  MirrorInv'
<1>1. /\ mirrorNext \in [{"address", "route", "mirror"} -> Nat \ {0}]
      /\ AddressesApart("mirror", mirrorAddress, mirrorNext["address"])
      /\ RoutesFit("mirror", mirrorRoute)
      /\ RoutingFit("mirror", mirrorAddress, mirrorRoute, mirrorFlow)
      /\ CopyFit(mirror, mirrorFlow)
  BY DEF MirrorInv
<1>2. PICK up : up = [r \in mirrorRoute |-> IF r.gateway = ip THEN [r EXCEPT !.mac = TRUE] ELSE r]
  OBVIOUS
<1>3. PICK new : new = {Mirror!RoutingFlow(r) : r \in Mirror!Unheard(mirrorRoute, ip)}
  OBVIOUS
<1>4. /\ mirrorRoute' = {up[r] : r \in mirrorRoute}
      /\ mirrorFlow' = Mirror!With(mirrorFlow, new)
      /\ mirror' = mirror
  BY <1>2, <1>3 DEF Mirror!UpdateRoutingTbl, Mirror!Heard
<1>5. mirrorRoute \subseteq RouteRows("mirror")
  BY <1>1 DEF RoutesFit
<1>6. \A r \in mirrorRoute :
          /\ up[r] \in RouteRows("mirror") /\ up[r].match = r.match /\ up[r].id = r.id
          /\ up[r].gateway = r.gateway
          /\ r.gateway = ip => up[r].mac
          /\ r.gateway # ip \/ r.mac => up[r] = r
  BY <1>2, <1>5 DEF RouteRows
<1>7. ASSUME NEW r \in mirrorRoute, r.gateway = ip
      PROVE  Mirror!RoutingFlow(r) = RouteAt("mirror", up[r])
  <2>1. Mirror!RoutingFlow(r) = Mirror!RoutingFlow(up[r])
    BY <1>6 DEF Mirror!RoutingFlow
  <2>2. QED
    BY <1>6, <1>7, <2>1, MirrorFlows
<1>8. \A g \in new : \E r \in mirrorRoute : g = RouteAt("mirror", up[r])
  BY <1>3, <1>7 DEF Mirror!Unheard
<1>9. ASSUME NEW r \in mirrorRoute
      PROVE  RouteAt("mirror", up[r]) = RouteAt("mirror", r) \/ RouteAt("mirror", up[r]) \in new
  <2>1. CASE r.gateway = ip /\ ~r.mac
    BY <1>3, <1>7, <2>1 DEF Mirror!Unheard
  <2>2. CASE r.gateway # ip \/ r.mac
    BY <1>6, <2>2
  <2>3. QED
    BY <2>1, <2>2
<1>10. PICK fl : fl = mirrorFlow'
  OBVIOUS
<1>11. PutInto(mirrorFlow, new, fl)
  BY <1>4, <1>10, Puts
<1>12. "mirror" \in Both /\ up \in [mirrorRoute -> RouteRows("mirror")]
  BY <1>2, <1>6 DEF Both
<1>13. /\ RoutesFit("mirror", {up[r] : r \in mirrorRoute})
       /\ RoutingFit("mirror", mirrorAddress, {up[r] : r \in mirrorRoute}, fl)
  BY <1>1, <1>6, <1>8, <1>9, <1>11, <1>12, RoutesCompleted
<1>14. CopyFit(mirror, fl)
  <2>1. \A g \in new : g.table = "routing"
    BY <1>8, RoutingShapes
  <2>2. /\ \A f \in fl : f.table # "routing" => f \in mirrorFlow
        /\ \A f \in mirrorFlow : f.table # "routing" => f \in fl
    BY <1>11, <2>1, PlaceFields DEF PutInto
  <2>3. QED
    BY <1>1, <2>2, SameCopies
<1>15. QED
  BY <1>1, <1>4, <1>10, <1>13, <1>14 DEF MirrorInv

(* A MAC that is heard goes into the mirrors of its station.                  *)
LEMMA MirrorCopiesHeard ==
    ASSUME RowsLeadOut, MirrorInv, NEW ip \in MirrorHosts, Mirror!UpdateMirroringTbl(ip),
           UNCHANGED <<mirrorAddress, mirrorNext>>
    PROVE  MirrorInv'
<1>1. /\ mirrorNext \in [{"address", "route", "mirror"} -> Nat \ {0}]
      /\ AddressesApart("mirror", mirrorAddress, mirrorNext["address"])
      /\ RoutesFit("mirror", mirrorRoute)
      /\ RoutingFit("mirror", mirrorAddress, mirrorRoute, mirrorFlow)
      /\ CopyFit(mirror, mirrorFlow)
  BY DEF MirrorInv
<1>2. PICK up : up = [m \in mirror |-> IF m.gateway = ip THEN [m EXCEPT !.mac = TRUE] ELSE m]
  OBVIOUS
<1>3. PICK new : new = {Mirror!MirroringFlow(m) : m \in Mirror!Unheard(mirror, ip)}
  OBVIOUS
<1>4. /\ mirror' = {up[m] : m \in mirror}
      /\ mirrorFlow' = Mirror!With(mirrorFlow, new)
      /\ mirrorRoute' = mirrorRoute
  BY <1>2, <1>3 DEF Mirror!UpdateMirroringTbl, Mirror!Heard
<1>5. mirror \subseteq StationRow
  BY <1>1 DEF CopyFit
<1>6. \A m \in mirror :
          /\ up[m] \in StationRow /\ up[m].match = m.match /\ up[m].id = m.id
          /\ up[m].gateway = m.gateway
          /\ m.gateway = ip => up[m].mac
          /\ m.gateway # ip \/ m.mac => up[m] = m
  BY <1>2, <1>5 DEF StationRow
<1>7. ASSUME NEW m \in mirror, m.gateway = ip
      PROVE  Mirror!MirroringFlow(m) = CopyFlow(up[m])
  BY <1>6, <1>7 DEF Mirror!MirroringFlow, CopyFlow
<1>8. \A g \in new : \E m \in mirror : g = CopyFlow(up[m])
  BY <1>3, <1>7 DEF Mirror!Unheard
<1>9. ASSUME NEW m \in mirror
      PROVE  CopyFlow(up[m]) = CopyFlow(m) \/ CopyFlow(up[m]) \in new
  <2>1. CASE m.gateway = ip /\ ~m.mac
    BY <1>3, <1>7, <2>1 DEF Mirror!Unheard
  <2>2. CASE m.gateway # ip \/ m.mac
    BY <1>6, <2>2
  <2>3. QED
    BY <2>1, <2>2
<1>10. PICK fl : fl = mirrorFlow'
  OBVIOUS
<1>11. PutInto(mirrorFlow, new, fl)
  BY <1>4, <1>10, Puts
<1>12. up \in [mirror -> StationRow]
  BY <1>2, <1>6
<1>13. CopyFit({up[m] : m \in mirror}, fl)
  BY <1>1, <1>6, <1>8, <1>9, <1>11, <1>12, CopiesPut
<1>14. RoutingFit("mirror", mirrorAddress, mirrorRoute, fl)
  <2>1. \A m \in StationRow : CopyFlow(m).table # "routing"
    BY CopyShapes
  <2>2. \A g \in new : g.table # "routing"
    BY <1>6, <1>8, <2>1
  <2>3. /\ \A f \in fl : f.table = "routing" => f \in mirrorFlow
        /\ \A f \in mirrorFlow : f.table = "routing" => f \in fl
    BY <1>11, <2>2, PlaceFields DEF PutInto
  <2>4. QED
    BY <1>1, <2>3, SameRouting
<1>15. QED
  BY <1>1, <1>4, <1>10, <1>13, <1>14 DEF MirrorInv

(* Hosts that are learnt, and flows of hosts that time out.                   *)
LEMMA MirrorHostsKeep ==
    ASSUME RowsLeadOut, MirrorInv, NEW ip \in MirrorHosts,
           \/ Mirror!LearningHostMac(ip) /\ UNCHANGED <<mirrorAddress, mirrorNext>>
           \/ Mirror!IdleTimeout(ip)
    PROVE  MirrorInv'
<1>1. /\ mirrorNext \in [{"address", "route", "mirror"} -> Nat \ {0}]
      /\ AddressesApart("mirror", mirrorAddress, mirrorNext["address"])
      /\ RoutesFit("mirror", mirrorRoute)
      /\ RoutingFit("mirror", mirrorAddress, mirrorRoute, mirrorFlow)
      /\ CopyFit(mirror, mirrorFlow)
  BY DEF MirrorInv
<1>2. ip \in Ips /\ Span("mirror") = Bits /\ Bits \in Nat
  BY MirrorsAssumption, PowersAssumption DEF Span
<1>3. UNCHANGED <<mirrorAddress, mirrorNext, mirrorRoute, mirror>>
  BY DEF Mirror!LearningHostMac, Mirror!IdleTimeout
<1>4. PICK fl : fl = mirrorFlow'
  OBVIOUS
<1>5. /\ \A f \in fl : \/ f \in mirrorFlow
                       \/ \E a \in mirrorAddress : Mirror!In(ip, a) /\ f = HostAt("mirror", a, ip)
      /\ \A f \in mirrorFlow : f.prio # 3 + Bits => f \in fl
  <2>1. CASE Mirror!LearningHostMac(ip)
    <3>1. PICK new : new = {Mirror!HostFlow(a, ip) : a \in Mirror!AddressOf(ip)}
      OBVIOUS
    <3>2. PutInto(mirrorFlow, new, fl)
      BY <1>4, <2>1, <3>1, Puts DEF Mirror!LearningHostMac
    <3>3. \A g \in new : \E a \in mirrorAddress : Mirror!In(ip, a) /\ g = HostAt("mirror", a, ip)
      BY <1>1, <3>1, MirrorFlows DEF Mirror!AddressOf, AddressesApart
    <3>4. \A g \in new : g.prio = 3 + Bits
      BY <1>2, <3>3, RoutingShapes
    <3>5. QED
      BY <3>2, <3>3, <3>4, PlaceFields DEF PutInto
  <2>2. CASE Mirror!IdleTimeout(ip)
    <3>1. Mirror!Priority(Mirror!IMPLICIT_ROUTING) = 3 + Bits
      BY <1>2 DEF Mirror!Priority, Mirror!IMPLICIT_ROUTING, Mirror!IP_HANDLING, Mirror!STATIC_ROUTING
    <3>2. QED
      BY <1>4, <2>2, <3>1 DEF Mirror!IdleTimeout
  <2>3. QED
    BY <2>1, <2>2
<1>6. RoutingFit("mirror", mirrorAddress, mirrorRoute, fl)
  BY <1>1, <1>2, <1>5, HostsChange
<1>7. CopyFit(mirror, fl)
  <2>1. \A m \in mirror : CopyFlow(m).prio \in 3 .. 2 + Bits
    BY <1>1, CopyShapes DEF CopyFit
  <2>2. \A f \in mirrorFlow : f.table # "routing" => f.prio # 3 + Bits
    BY <1>1, <1>2, <2>1, CopyShapes DEF CopyFit
  <2>3. \A a : HostAt("mirror", a, ip).table = "routing"
    BY RoutingShapes
  <2>4. \A f \in fl : f.table # "routing" => f \in mirrorFlow
    BY <1>5, <2>3
  <2>5. QED
    BY <1>1, <1>5, <2>2, <2>4, SameCopies
<1>8. QED
  BY <1>1, <1>3, <1>4, <1>6, <1>7 DEF MirrorInv

(* Every step of the mirroring router of the deployed controller.             *)
LEMMA MirrorStep ==
    ASSUME RowsLeadOut, MirrorInv, [Mirror!Next]_mirrorVars
    PROVE  MirrorInv'
<1>1. CASE Mirror!SetData
  BY <1>1, MirrorSetAddressKeeps, MirrorSetRouteKeeps, MirrorSetMirrorKeeps DEF Mirror!SetData
<1>2. CASE Mirror!DeleteData
  BY <1>2, MirrorDeleteKeeps DEF Mirror!DeleteData
<1>3. CASE \/ \E pkt \in MirrorPackets : Mirror!PacketIn(pkt)
           \/ \E ip \in mirrorWaiting : Mirror!Timeout(ip)
           \/ UNCHANGED mirrorVars
  <2>1. UNCHANGED <<mirrorAddress, mirrorRoute, mirror, mirrorFlow, mirrorNext>>
    BY <1>3 DEF Mirror!PacketIn, Mirror!Timeout, mirrorVars
  <2>2. QED
    BY <2>1 DEF MirrorInv
<1>4. CASE \E ip \in MirrorHosts, reply \in BOOLEAN : Mirror!ArpIn(ip, reply)
  BY <1>4, MirrorRoutesHeard, MirrorCopiesHeard, MirrorHostsKeep DEF Mirror!ArpIn
<1>5. CASE \E ip \in MirrorHosts : Mirror!IdleTimeout(ip)
  BY <1>5, MirrorHostsKeep
<1>6. QED
  BY <1>1, <1>2, <1>3, <1>4, <1>5 DEF Mirror!Next, Mirror!PacketInHandler

-----------------------------------------------------------------------------
(* The router of Chameleon: what the flows of its table 1 are made of.       *)
LEMMA VfcCopyShapes ==
    ASSUME RowsLeadOut
    PROVE  /\ Vfc!DefaultMirrorFlow.table = "mirror" /\ Vfc!DefaultMirrorFlow.prio = 0
           /\ Vfc!DefaultMirrorFlow.cookie = 2000000
           /\ Vfc!DefaultMirrorFlow.match = Everything
           /\ Vfc!DefaultMirrorFlow.action = <<"goto">>
           /\ \A m \in VfcStationRow :
                 /\ Vfc!MirroringFlow(m).table = "mirror"
                 /\ Vfc!MirroringFlow(m).prio = Vfc!RoutePriority(m.match)
                 /\ Vfc!MirroringFlow(m).prio \in 3 .. 2 + 2 * Bits
                 /\ Vfc!MirroringFlow(m).prio # 0 /\ Vfc!MirroringFlow(m).prio # 1
                 /\ Vfc!MirroringFlow(m).cookie = 2000000 + m.id * 65536
                 /\ Vfc!MirroringFlow(m).match = m.match /\ m.match.dst.len # 0
                 /\ Vfc!MirroringFlow(m).action = <<"copy", m.gateway>>
<1>1. /\ Vfc!DefaultMirrorFlow.table = "mirror" /\ Vfc!DefaultMirrorFlow.prio = 0
      /\ Vfc!DefaultMirrorFlow.cookie = 2000000
      /\ Vfc!DefaultMirrorFlow.match = Everything
      /\ Vfc!DefaultMirrorFlow.action = <<"goto">>
  BY DEF Vfc!DefaultMirrorFlow, Vfc!Flow, Vfc!Offset, Everything, Vfc!Between, Vfc!Any, Mirror!Any
<1>2. ASSUME NEW m \in VfcStationRow
      PROVE  /\ Vfc!MirroringFlow(m).table = "mirror"
             /\ Vfc!MirroringFlow(m).prio = Vfc!RoutePriority(m.match)
             /\ Vfc!MirroringFlow(m).prio \in 3 .. 2 + 2 * Bits
             /\ Vfc!MirroringFlow(m).prio # 0 /\ Vfc!MirroringFlow(m).prio # 1
             /\ Vfc!MirroringFlow(m).cookie = 2000000 + m.id * 65536
             /\ Vfc!MirroringFlow(m).match = m.match /\ m.match.dst.len # 0
             /\ Vfc!MirroringFlow(m).action = <<"copy", m.gateway>>
  <2>1. m.match \in Mirrors /\ "vfc" \in Both
    BY DEF VfcStationRow, Both
  <2>2. /\ m.match.dst.len \in 0 .. Bits /\ m.match.dst.len # 0 /\ Bits \in Nat
        /\ m.match.src.len \in 0 .. Bits
    BY <2>1, RowNumbers DEF RowsLeadOut
  <2>3. Vfc!RoutePriority(m.match) \in 3 .. 2 + 2 * Bits
    BY <2>2 DEF Vfc!RoutePriority, Vfc!STATIC_ROUTING
  <2>4. Vfc!RoutePriority(m.match) # 0 /\ Vfc!RoutePriority(m.match) # 1
    BY <2>2, <2>3
  <2>5. Vfc!IdToCookie("mirror", m.id) = 2000000 + m.id * 65536
    BY DEF Vfc!IdToCookie, Vfc!Offset, Vfc!Shift
  <2>6. QED
    BY <2>2, <2>3, <2>4, <2>5 DEF Vfc!MirroringFlow, Vfc!Flow
<1>3. QED
  BY <1>1, <1>2

(* What is copied depends on mirrors and their flows alone, at Chameleon too. *)
LEMMA VfcSameCopies ==
    ASSUME NEW ms, NEW fl, NEW fl2, NEW n, RowsLeadOut, CopiesFit(ms, fl, n),
           \A f \in fl2 : f.table # "routing" => f \in fl,
           \A f \in fl : f.table # "routing" => f \in fl2
    PROVE  CopiesFit(ms, fl2, n)
<1>1. Vfc!DefaultMirrorFlow.table # "routing"
  BY VfcCopyShapes
<1>2. /\ ms \subseteq VfcStationRow /\ RowsUnique(ms)
      /\ \A m \in ms : m.id < n
      /\ \A m, k \in ms : m.id = k.id => m = k
      /\ Vfc!DefaultMirrorFlow \in fl2
  BY <1>1 DEF CopiesFit
<1>3. \A f \in fl2 : f.table # "routing" =>
          f = Vfc!DefaultMirrorFlow \/ \E x \in VfcStationRow : f = Vfc!MirroringFlow(x) /\ CopiesFor(ms, x, n)
  BY DEF CopiesFit
<1>4. \A m \in ms : m.copies # Nowhere => \E f \in fl2 : f.table = "mirror" /\ f.match = m.match
  BY DEF CopiesFit
<1>5. \A f, g \in fl2 : f.table # "routing" /\ Place(f) = Place(g) => f = g
  BY PlaceFields DEF CopiesFit
<1>6. QED
  BY <1>2, <1>3, <1>4, <1>5 DEF CopiesFit

(* The mirroring router of Chameleon starts under its invariant.              *)
LEMMA VfcStarts == Vfc!Init /\ RowsLeadOut => VfcInv
<1>1. SUFFICES ASSUME Vfc!Init, RowsLeadOut PROVE VfcInv
  OBVIOUS
<1>2. mirrorAddress = {} /\ mirrorRoute = {} /\ mirror = {}
      /\ mirrorFlow = {Vfc!DefaultMirrorFlow, DropAt("vfc")} /\ mirrorRequest = Vfc!Idle
  BY <1>1, VfcFlows DEF Vfc!Init
<1>3. mirrorNext \in [{"address", "route", "mirror"} -> Nat \ {0}]
  BY <1>1, IdsFew DEF Vfc!Init, Vfc!Kinds
<1>4. RoutingFit("vfc", mirrorAddress, mirrorRoute, mirrorFlow)
  BY <1>1, <1>2, VfcCopyShapes DEF RoutingFit, NoneDefault
<1>5. CopiesFit(mirror, mirrorFlow, mirrorNext["mirror"])
  BY <1>1, <1>2, RoutingShapes, VfcCopyShapes, PlaceFields DEF CopiesFit, RowsUnique
<1>6. /\ AddressesApart("vfc", mirrorAddress, mirrorNext["address"])
      /\ RoutesFit("vfc", mirrorRoute)
  BY <1>2 DEF AddressesApart, RoutesFit, RowsUnique
<1>7. QED
  BY <1>2, <1>3, <1>4, <1>5, <1>6 DEF VfcInv, AskedFit

(* Setting an address, at Chameleon.                                          *)
LEMMA VfcSetAddressKeeps ==
    ASSUME RowsLeadOut, VfcInv, NEW x \in VfcAddresses, Vfc!SetAddress(x)
    PROVE  VfcInv'
<1>1. PICK a : a = [start |-> x.start, len |-> x.len, gw |-> x.gw, id |-> mirrorNext["address"]]
  OBVIOUS
<1>2. /\ \A b \in mirrorAddress : ~Mirror!In(a.gw, b) /\ ~Mirror!In(b.gw, a)
      /\ mirrorNext["address"] < MaxIds + 1
      /\ mirrorNext' = [mirrorNext EXCEPT !["address"] = @ + 1]
      /\ mirrorAddress' = mirrorAddress \cup {a}
      /\ mirrorFlow' = Vfc!With(mirrorFlow, Vfc!AddressFlows(a))
      /\ mirrorRequest = Vfc!Idle
      /\ UNCHANGED <<mirrorRoute, mirror, mirrorRequest>>
  BY <1>1, SameIn DEF Vfc!SetAddress, Vfc!AddAddress, Vfc!Counted
<1>3. /\ mirrorNext \in [{"address", "route", "mirror"} -> Nat \ {0}]
      /\ AddressesApart("vfc", mirrorAddress, mirrorNext["address"])
      /\ RoutesFit("vfc", mirrorRoute)
      /\ RoutingFit("vfc", mirrorAddress, mirrorRoute, mirrorFlow)
      /\ CopiesFit(mirror, mirrorFlow, mirrorNext["mirror"])
  BY DEF VfcInv
<1>4. PICK n \in Nat \ {0} : n = mirrorNext["address"]
  BY <1>3
<1>5. /\ mirrorNext'["address"] = n + 1
      /\ mirrorNext'["route"] = mirrorNext["route"] /\ mirrorNext'["mirror"] = mirrorNext["mirror"]
      /\ mirrorNext' \in [{"address", "route", "mirror"} -> Nat \ {0}]
  BY <1>2, <1>3, <1>4
<1>6. x \in [start : Ips, len : 0 .. Bits, gw : Ips] /\ x \in AddressesOf("vfc") /\ "vfc" \in Both
  BY MirrorsAssumption DEF AddressesOf, Both
<1>7. a \in AddressRow /\ a.start = x.start /\ a.len = x.len /\ a.gw = x.gw /\ a.id = n
  <2>1. n \in 1 .. MaxIds
    BY <1>2, <1>4, IdsFew
  <2>2. QED
    BY <1>1, <1>4, <1>6, <2>1 DEF AddressRow
<1>8. PutInto(mirrorFlow, {MacAt("vfc", a), PortAt("vfc", a), InsideAt("vfc", a)}, mirrorFlow')
  BY <1>2, <1>7, Puts, VfcFlows
<1>9. /\ AddressesApart("vfc", mirrorAddress \cup {a}, n + 1)
      /\ RoutingFit("vfc", mirrorAddress \cup {a}, mirrorRoute, mirrorFlow')
  BY <1>2, <1>3, <1>4, <1>6, <1>7, <1>8, AddressAdded
<1>10. \A g \in {MacAt("vfc", a), PortAt("vfc", a), InsideAt("vfc", a)} : g.table = "routing"
  BY RoutingShapes
<1>11. CopiesFit(mirror, mirrorFlow', mirrorNext["mirror"])
  <2>1. \A f \in mirrorFlow' : f.table # "routing" => f \in mirrorFlow
    BY <1>8, <1>10 DEF PutInto
  <2>2. \A f \in mirrorFlow : f.table # "routing" => f \in mirrorFlow'
    BY <1>8, <1>10, PlaceFields DEF PutInto
  <2>3. QED
    BY <1>3, <2>1, <2>2, VfcSameCopies
<1>12. /\ \A r \in mirrorRoute : Vias(r) /\ r.id < mirrorNext["route"]
       /\ \A r, s \in mirrorRoute : r.id = s.id => r = s
  BY DEF VfcInv
<1>13. AskedFit(mirrorRequest, mirrorAddress', mirrorRoute, mirror, mirrorFlow')
  BY <1>2 DEF AskedFit
<1>14. QED
  BY <1>2, <1>3, <1>5, <1>9, <1>11, <1>12, <1>13 DEF VfcInv

(* Setting a route, at Chameleon.                                             *)
LEMMA VfcSetRouteKeeps ==
    ASSUME RowsLeadOut, VfcInv, NEW match \in MirrorRoutes, NEW gw \in MirrorGateways,
           Vfc!SetRoute(match, gw)
    PROVE  VfcInv'
<1>1. PICK r : r = [match |-> match, id |-> mirrorNext["route"], gateway |-> gw, mac |-> Nowhere,
                    heard |-> FALSE]
  OBVIOUS
<1>2. /\ mirrorNext["route"] < MaxIds + 1
      /\ mirrorNext' = [mirrorNext EXCEPT !["route"] = @ + 1]
      /\ mirrorRoute' = {x \in mirrorRoute : x.match # r.match} \cup {r}
      /\ mirrorFlow' = Vfc!With(mirrorFlow, {Vfc!PacketInFlow(r)})
      /\ mirrorRequest = Vfc!Idle
      /\ UNCHANGED <<mirrorAddress, mirror, mirrorRequest>>
  BY <1>1 DEF Vfc!SetRoute, Vfc!Counted, Vfc!Without
<1>3. /\ mirrorNext \in [{"address", "route", "mirror"} -> Nat \ {0}]
      /\ AddressesApart("vfc", mirrorAddress, mirrorNext["address"])
      /\ RoutesFit("vfc", mirrorRoute)
      /\ RoutingFit("vfc", mirrorAddress, mirrorRoute, mirrorFlow)
      /\ CopiesFit(mirror, mirrorFlow, mirrorNext["mirror"])
  BY DEF VfcInv
<1>4. PICK n \in Nat \ {0} : n = mirrorNext["route"]
  BY <1>3
<1>5. /\ mirrorNext'["route"] = n + 1
      /\ mirrorNext'["address"] = mirrorNext["address"] /\ mirrorNext'["mirror"] = mirrorNext["mirror"]
      /\ mirrorNext' \in [{"address", "route", "mirror"} -> Nat \ {0}]
  BY <1>2, <1>3, <1>4
<1>6. r \in RouteRows("vfc") /\ ~r.heard /\ r.id = n /\ r.mac = Nowhere /\ r.gateway = gw
  <2>1. n \in 1 .. MaxIds
    BY <1>2, <1>4, IdsFew
  <2>2. QED
    BY <1>1, <1>4, <2>1 DEF RouteRows
<1>7. PutInto(mirrorFlow, {RouteAt("vfc", r)}, mirrorFlow')
  BY <1>2, <1>6, Puts, VfcFlows
<1>8. RoutesFit("vfc", mirrorRoute') /\ RoutingFit("vfc", mirrorAddress, mirrorRoute', mirrorFlow')
  <2>1. "vfc" \in Both
    BY DEF Both
  <2>2. QED
    BY <1>2, <1>3, <1>6, <1>7, <2>1, RoutePut
<1>9. CopiesFit(mirror, mirrorFlow', mirrorNext["mirror"])
  <2>1. RouteAt("vfc", r).table = "routing"
    BY RoutingShapes
  <2>2. \A f \in mirrorFlow' : f.table # "routing" => f \in mirrorFlow
    BY <1>7, <2>1 DEF PutInto
  <2>3. \A f \in mirrorFlow : f.table # "routing" => f \in mirrorFlow'
    BY <1>7, <2>1, PlaceFields DEF PutInto
  <2>4. QED
    BY <1>3, <2>2, <2>3, VfcSameCopies
<1>10. /\ \A x \in mirrorRoute' : Vias(x) /\ x.id < n + 1
       /\ \A x, y \in mirrorRoute' : x.id = y.id => x = y
  <2>1. /\ \A x \in mirrorRoute : Vias(x) /\ x.id < n /\ x.id \in Nat
        /\ \A x, y \in mirrorRoute : x.id = y.id => x = y
    BY <1>3, <1>4 DEF VfcInv, RoutesFit, RouteRows
  <2>2. Vias(r)
    BY <1>6, MirrorsAssumption DEF Vias
  <2>3. QED
    BY <1>2, <1>6, <2>1, <2>2
<1>11. AskedFit(mirrorRequest, mirrorAddress, mirrorRoute', mirror, mirrorFlow')
  BY <1>2 DEF AskedFit
<1>12. QED
  BY <1>2, <1>3, <1>5, <1>8, <1>9, <1>10, <1>11 DEF VfcInv

(* Setting a mirror, at Chameleon.                                            *)
LEMMA VfcSetMirrorKeeps ==
    ASSUME RowsLeadOut, VfcInv, NEW match \in Mirrors, NEW station \in Stations,
           Vfc!SetMirror(match, station)
    PROVE  VfcInv'
<1>1. PICK old : old = {m.copies : m \in mirror \ Vfc!Without(mirror, match)}
  OBVIOUS
<1>2. PICK r : r = [match |-> match, id |-> mirrorNext["mirror"], gateway |-> station,
                    copies |-> IF old = {} THEN Nowhere ELSE CHOOSE s \in old : TRUE]
  OBVIOUS
<1>3. /\ mirrorNext["mirror"] < MaxIds + FirstMirror
      /\ mirrorNext' = [mirrorNext EXCEPT !["mirror"] = @ + 1]
      /\ mirror' = {x \in mirror : x.match # r.match} \cup {r}
      /\ mirrorRequest = Vfc!Idle
      /\ UNCHANGED <<mirrorAddress, mirrorRoute, mirrorFlow, mirrorRequest>>
  BY <1>1, <1>2 DEF Vfc!SetMirror, Vfc!Counted, Vfc!Without
<1>4. /\ mirrorNext \in [{"address", "route", "mirror"} -> Nat \ {0}]
      /\ AddressesApart("vfc", mirrorAddress, mirrorNext["address"])
      /\ RoutesFit("vfc", mirrorRoute)
      /\ RoutingFit("vfc", mirrorAddress, mirrorRoute, mirrorFlow)
      /\ CopiesFit(mirror, mirrorFlow, mirrorNext["mirror"])
  BY DEF VfcInv
<1>5. PICK n \in Nat \ {0} : n = mirrorNext["mirror"]
  BY <1>4
<1>6. /\ mirrorNext'["mirror"] = n + 1
      /\ mirrorNext'["address"] = mirrorNext["address"] /\ mirrorNext'["route"] = mirrorNext["route"]
      /\ mirrorNext' \in [{"address", "route", "mirror"} -> Nat \ {0}]
  BY <1>3, <1>4, <1>5
<1>7. /\ mirror \subseteq VfcStationRow /\ RowsUnique(mirror)
      /\ \A m \in mirror : m.id < n
      /\ \A m, k \in mirror : m.id = k.id => m = k
  BY <1>4, <1>5 DEF CopiesFit
<1>8. old = {m.copies : m \in {k \in mirror : k.match = match}}
  BY <1>1 DEF Vfc!Without
<1>9. ASSUME NEW m \in mirror, m.match = match PROVE r.copies = m.copies
  <2>1. old = {m.copies}
    BY <1>7, <1>8, <1>9 DEF RowsUnique
  <2>2. QED
    BY <1>2, <2>1
<1>10. r.match = match /\ r.id = n /\ r \in VfcStationRow
  <2>1. n \in 1 .. FirstMirror + MaxIds - 1
    BY <1>3, <1>5, IdsFew
  <2>2. \A m \in mirror : m.copies \in Stations \cup {Nowhere}
    BY <1>7 DEF VfcStationRow
  <2>3. r.copies \in Stations \cup {Nowhere}
    BY <1>2, <1>8, <1>9, <2>2
  <2>4. r.copies = (IF old = {} THEN Nowhere ELSE CHOOSE s \in old : TRUE)
    BY <1>2
  <2>5. QED
    BY <1>2, <1>5, <2>1, <2>3, <2>4 DEF VfcStationRow
<1>11. /\ \A m \in mirror : m.id \in Nat
       /\ \A x \in VfcStationRow : x.id \in Nat
  BY <1>7, IdsFew DEF VfcStationRow
<1>12. CopiesFit(mirror', mirrorFlow, n + 1)
  <2>1. /\ mirror' \subseteq VfcStationRow /\ RowsUnique(mirror')
        /\ \A m \in mirror' : m.id < n + 1
        /\ \A m, k \in mirror' : m.id = k.id => m = k
    BY <1>3, <1>7, <1>10, <1>11 DEF RowsUnique
  <2>2. ASSUME NEW x \in VfcStationRow, CopiesFor(mirror, x, n) PROVE CopiesFor(mirror', x, n + 1)
    <3>1. x.id < n /\ x.id < n + 1
      BY <1>11, <2>2 DEF CopiesFor
    <3>2. \E m \in mirror' : m.match = x.match /\ m.copies = x.gateway
      BY <1>3, <1>9, <1>10, <2>2 DEF CopiesFor
    <3>3. \A m \in mirror' : m.id = x.id => m.match = x.match
      BY <1>3, <1>10, <1>11, <2>2, <3>1 DEF CopiesFor
    <3>4. QED
      BY <3>1, <3>2, <3>3 DEF CopiesFor
  <2>3. \A f \in mirrorFlow : f.table # "routing" =>
            \/ f = Vfc!DefaultMirrorFlow
            \/ \E x \in VfcStationRow : f = Vfc!MirroringFlow(x) /\ CopiesFor(mirror', x, n + 1)
    BY <1>4, <1>5, <2>2 DEF CopiesFit
  <2>4. ASSUME NEW m \in mirror', m.copies # Nowhere
        PROVE  \E f \in mirrorFlow : f.table = "mirror" /\ f.match = m.match
    <3>1. CASE m \in mirror
      BY <1>4, <2>4, <3>1 DEF CopiesFit
    <3>2. CASE m = r
      <4>1. old # {}
        BY <1>2, <2>4, <3>2
      <4>2. PICK k \in mirror : k.match = match
        BY <1>8, <4>1
      <4>3. k.copies # Nowhere
        BY <1>9, <2>4, <3>2, <4>2
      <4>4. QED
        BY <1>4, <1>10, <3>2, <4>2, <4>3 DEF CopiesFit
    <3>3. QED
      BY <1>3, <3>1, <3>2
  <2>5. QED
    BY <1>4, <2>1, <2>3, <2>4 DEF CopiesFit
<1>13. /\ \A x \in mirrorRoute : Vias(x) /\ x.id < mirrorNext["route"]
       /\ \A x, y \in mirrorRoute : x.id = y.id => x = y
  BY DEF VfcInv
<1>14. AskedFit(mirrorRequest, mirrorAddress, mirrorRoute, mirror', mirrorFlow)
  BY <1>3 DEF AskedFit
<1>15. QED
  BY <1>3, <1>4, <1>6, <1>12, <1>13, <1>14 DEF VfcInv

(* What cookies decode to, of addresses, routes and mirrors.                 *)
LEMMA VfcDecodes ==
    ASSUME NEW i \in 0 .. 13, NEW id \in 1 .. 14
    PROVE  /\ Vfc!CookieToId("address", 3000000 + i) = i
           /\ Vfc!CookieToId("address", 3000000 + i * 65536) # id
           /\ Vfc!CookieToId("address", 2000000 + i * 65536) # id
           /\ Vfc!CookieToId("route", 3000000 + i) # id
           /\ Vfc!CookieToId("route", 3000000 + i * 65536) = i
           /\ Vfc!CookieToId("route", 2000000 + i * 65536) # id
           /\ Vfc!CookieToId("mirror", 3000000 + i) # id
           /\ Vfc!CookieToId("mirror", 3000000 + i * 65536) # id
           /\ Vfc!CookieToId("mirror", 2000000 + i * 65536) = i
<1>1. /\ \A c : Vfc!CookieToId("address", c) = c - 3000000
      /\ \A c : Vfc!CookieToId("route", c) = ((c - 3000000) \div 65536) % 65536
      /\ \A c : Vfc!CookieToId("mirror", c) = ((c - 2000000) \div 65536) % 65536
  BY DEF Vfc!CookieToId, Vfc!Offset, Vfc!Shift
<1>2. /\ 3000000 + i - 3000000 = i
      /\ 3000000 + i * 65536 - 3000000 # id
      /\ 2000000 + i * 65536 - 3000000 # id
  OBVIOUS
<1>3. /\ ((3000000 + i - 3000000) \div 65536) % 65536 = 0
      /\ ((3000000 + i * 65536 - 3000000) \div 65536) % 65536 = i
      /\ ((2000000 + i * 65536 - 3000000) \div 65536) % 65536 = 65520 + i
  OBVIOUS
<1>4. /\ ((3000000 + i - 2000000) \div 65536) % 65536 = 15
      /\ ((3000000 + i * 65536 - 2000000) \div 65536) % 65536 = 15 + i
      /\ ((2000000 + i * 65536 - 2000000) \div 65536) % 65536 = i
  OBVIOUS
<1>5. QED
  BY <1>1, <1>2, <1>3, <1>4

(* A deletion asks for flows of one row.                                     *)
LEMMA VfcAskKeeps ==
    ASSUME RowsLeadOut, VfcInv, NEW kind \in Vfc!Kinds, NEW id \in 0 .. FirstMirror + MaxIds,
           Vfc!AskDelete(kind, id)
    PROVE  VfcInv'
<1>1. id \in 1 .. 14
  BY IdsFew DEF Vfc!AskDelete, FewIds
<1>2. UNCHANGED <<mirrorAddress, mirrorRoute, mirror, mirrorFlow, mirrorNext>>
  BY DEF Vfc!AskDelete
<1>3. PICK q : q = mirrorRequest'
  OBVIOUS
<1>4. PICK some : /\ q = [kind |-> kind, flows |-> some] /\ some # {} /\ some \subseteq mirrorFlow
                  /\ \A f \in some : Vfc!CookieToId(kind, f.cookie) = id
  <2>1. \A f : Vfc!Chosen(kind, id, f) = (Vfc!CookieToId(kind, f.cookie) = id)
    BY <1>1 DEF Vfc!Chosen
  <2>2. PICK found : /\ found \subseteq mirrorFlow /\ \A f \in found : Vfc!Chosen(kind, id, f)
                     /\ \E some \in (SUBSET found) \ {{}} :
                           mirrorRequest' = [kind |-> kind, flows |-> some]
    BY DEF Vfc!AskDelete
  <2>3. PICK some \in (SUBSET found) \ {{}} : q = [kind |-> kind, flows |-> some]
    BY <1>3, <2>2
  <2>4. some # {} /\ some \subseteq mirrorFlow /\ \A f \in some : Vfc!Chosen(kind, id, f)
    BY <2>2, <2>3
  <2>5. \A f \in some : Vfc!CookieToId(kind, f.cookie) = id
    BY <2>1, <2>4
  <2>6. QED
    BY <2>3, <2>4, <2>5
<1>5. /\ AddressesApart("vfc", mirrorAddress, mirrorNext["address"])
      /\ RoutesFit("vfc", mirrorRoute)
      /\ RoutingFit("vfc", mirrorAddress, mirrorRoute, mirrorFlow)
      /\ CopiesFit(mirror, mirrorFlow, mirrorNext["mirror"])
  BY DEF VfcInv
<1>6. /\ \A a \in mirrorAddress : a.id \in 0 .. 13 /\ \A b \in mirrorAddress : a.id = b.id => a = b
      /\ \A r \in mirrorRoute : r.id \in 0 .. 13 /\ \A s \in mirrorRoute : r.id = s.id => r = s
      /\ \A x \in VfcStationRow : x.id \in 0 .. 13 /\ x.id \in 1 .. FirstMirror + MaxIds - 1
  <2>1. \A a \in mirrorAddress : a.id \in 1 .. MaxIds
    BY <1>5 DEF AddressesApart, AddressRow
  <2>2. \A r \in mirrorRoute : r.id \in 1 .. MaxIds
    BY <1>5 DEF RoutesFit, RouteRows
  <2>3. \A x \in VfcStationRow : x.id \in 1 .. FirstMirror + MaxIds - 1
    BY DEF VfcStationRow
  <2>4. FirstMirror \in 1 .. 14 /\ MaxIds \in 0 .. 13 /\ FirstMirror + MaxIds <= 14
    BY IdsFew DEF FewIds
  <2>5. /\ \A a, b \in mirrorAddress : a.id = b.id => a = b
        /\ \A r, s \in mirrorRoute : r.id = s.id => r = s
    BY <1>5 DEF AddressesApart, VfcInv
  <2>6. QED
    BY <2>1, <2>2, <2>3, <2>4, <2>5
<1>7. Base("vfc") = 3000000 /\ 0 \in 0 .. 13 /\ 3000000 + 0 = 3000000 /\ 2000000 + 0 * 65536 = 2000000
  BY DEF Base
<1>8. ASSUME NEW f \in some
      PROVE  \/ /\ f.table = "routing"
                /\ \/ f.cookie = 3000000
                   \/ \E a \in mirrorAddress :
                         /\ f \in {MacAt("vfc", a), PortAt("vfc", a), InsideAt("vfc", a)}
                         /\ f.cookie = 3000000 + a.id
                   \/ \E r \in mirrorRoute :
                         f = RouteAt("vfc", r) /\ f.cookie = 3000000 + r.id * 65536
             \/ f.cookie = 2000000
             \/ \E x \in VfcStationRow :
                   /\ f = Vfc!MirroringFlow(x) /\ f.cookie = 2000000 + x.id * 65536
                   /\ CopiesFor(mirror, x, mirrorNext["mirror"])
  <2>1. f \in mirrorFlow
    BY <1>4
  <2>2. CASE f.table = "routing"
    <3>1. \/ f = DropAt("vfc")
          \/ \E a \in mirrorAddress : f \in {MacAt("vfc", a), PortAt("vfc", a), InsideAt("vfc", a)}
          \/ \E r \in mirrorRoute : f = RouteAt("vfc", r)
      BY <1>5, <2>1, <2>2 DEF RoutingFit
    <3>2. QED
      BY <1>7, <2>2, <3>1, RoutingShapes
  <2>3. CASE f.table # "routing"
    <3>1. \/ f = Vfc!DefaultMirrorFlow
          \/ \E x \in VfcStationRow :
                f = Vfc!MirroringFlow(x) /\ CopiesFor(mirror, x, mirrorNext["mirror"])
      BY <1>5, <2>1, <2>3 DEF CopiesFit
    <3>2. QED
      BY <3>1, VfcCopyShapes
  <2>4. QED
    BY <2>2, <2>3
<1>9. CASE kind = "address"
  <2>1. ASSUME NEW f \in some
        PROVE  \E a \in mirrorAddress :
                   a.id = id /\ f \in {MacAt("vfc", a), PortAt("vfc", a), InsideAt("vfc", a)}
    <3>1. Vfc!CookieToId("address", f.cookie) = id
      BY <1>4, <1>9
    <3>2. f.cookie # 3000000 /\ f.cookie # 2000000
      BY <1>1, <1>7, <3>1, VfcDecodes
    <3>3. \A r \in mirrorRoute : f.cookie # 3000000 + r.id * 65536
      BY <1>1, <1>6, <3>1, VfcDecodes
    <3>4. \A x \in VfcStationRow : f.cookie # 2000000 + x.id * 65536
      BY <1>1, <1>6, <3>1, VfcDecodes
    <3>5. PICK a \in mirrorAddress : /\ f \in {MacAt("vfc", a), PortAt("vfc", a), InsideAt("vfc", a)}
                                     /\ f.cookie = 3000000 + a.id
      BY <1>8, <3>2, <3>3, <3>4
    <3>6. a.id = id
      BY <1>1, <1>6, <3>1, <3>5, VfcDecodes
    <3>7. QED
      BY <3>5, <3>6
  <2>2. PICK f \in some : TRUE
    BY <1>4
  <2>3. PICK a \in mirrorAddress : a.id = id
    BY <2>1, <2>2
  <2>4. some \subseteq {MacAt("vfc", a), PortAt("vfc", a), InsideAt("vfc", a)}
    BY <1>6, <2>1, <2>3
  <2>5. q.kind = "address" /\ q.flows = some
    BY <1>4, <1>9
  <2>6. AskedFit(q, mirrorAddress, mirrorRoute, mirror, mirrorFlow)
    BY <1>4, <2>4, <2>5 DEF AskedFit
  <2>7. QED
    BY <1>2, <1>3, <2>6 DEF VfcInv
<1>10. CASE kind = "route"
  <2>1. ASSUME NEW f \in some
        PROVE  \E r \in mirrorRoute :
                   r.id = id /\ f = RouteAt("vfc", r) /\ f.cookie = 3000000 + r.id * 65536
    <3>1. Vfc!CookieToId("route", f.cookie) = id
      BY <1>4, <1>10
    <3>2. f.cookie # 3000000 /\ f.cookie # 2000000
      BY <1>1, <1>7, <3>1, VfcDecodes
    <3>3. \A a \in mirrorAddress : f.cookie # 3000000 + a.id
      BY <1>1, <1>6, <3>1, VfcDecodes
    <3>4. \A x \in VfcStationRow : f.cookie # 2000000 + x.id * 65536
      BY <1>1, <1>6, <3>1, VfcDecodes
    <3>5. PICK r \in mirrorRoute : f = RouteAt("vfc", r) /\ f.cookie = 3000000 + r.id * 65536
      BY <1>8, <3>2, <3>3, <3>4
    <3>6. r.id = id
      BY <1>1, <1>6, <3>1, <3>5, VfcDecodes
    <3>7. QED
      BY <3>5, <3>6
  <2>2. PICK f \in some : TRUE
    BY <1>4
  <2>3. PICK r \in mirrorRoute : r.id = id
    BY <2>1, <2>2
  <2>4. \A g \in some : g = RouteAt("vfc", r) /\ g.cookie = 3000000 + r.id * 65536
    BY <1>6, <2>1, <2>3
  <2>5. Weight("vfc", r.match) = 1 <=> r.match = Everything
    <3>1. r.match \in MirrorRoutes /\ "vfc" \in Both
      BY <1>5 DEF RoutesFit, RouteRows, Both
    <3>2. Weight("vfc", r.match) = 1 <=> r.match.dst.len = 0
      BY <3>1, RowNumbers
    <3>3. r.match = Everything \/ r.match.dst.len # 0
      BY <3>1 DEF RowsLeadOut
    <3>4. Everything.dst.len = 0
      BY DEF Everything, Mirror!Any
    <3>5. QED
      BY <3>2, <3>3, <3>4
  <2>6. \A g \in some : /\ g.table = "routing" /\ g.cookie = 3000000 + r.id * 65536
                        /\ g.prio = 1 <=> r.match = Everything
    BY <2>4, <2>5, RoutingShapes
  <2>7. q.kind = "route" /\ q.flows = some
    BY <1>4, <1>10
  <2>8. AskedFit(q, mirrorAddress, mirrorRoute, mirror, mirrorFlow)
    BY <1>4, <2>6, <2>7 DEF AskedFit
  <2>9. QED
    BY <1>2, <1>3, <2>8 DEF VfcInv
<1>11. CASE kind = "mirror"
  <2>1. ASSUME NEW f \in some
        PROVE  /\ f.table = "mirror" /\ f.cookie = 2000000 + id * 65536 /\ f.prio # 1
               /\ id \in 1 .. FirstMirror + MaxIds - 1
               /\ \A m \in mirror : m.id = id => f.match = m.match
    <3>1. Vfc!CookieToId("mirror", f.cookie) = id
      BY <1>4, <1>11
    <3>2. f.cookie # 3000000 /\ f.cookie # 2000000
      BY <1>1, <1>7, <3>1, VfcDecodes
    <3>3. \A a \in mirrorAddress : f.cookie # 3000000 + a.id
      BY <1>1, <1>6, <3>1, VfcDecodes
    <3>4. \A r \in mirrorRoute : f.cookie # 3000000 + r.id * 65536
      BY <1>1, <1>6, <3>1, VfcDecodes
    <3>5. PICK x \in VfcStationRow : /\ f = Vfc!MirroringFlow(x) /\ f.cookie = 2000000 + x.id * 65536
                                     /\ CopiesFor(mirror, x, mirrorNext["mirror"])
      BY <1>8, <3>2, <3>3, <3>4
    <3>6. x.id = id
      BY <1>1, <1>6, <3>1, <3>5, VfcDecodes
    <3>7. QED
      BY <1>6, <3>5, <3>6, VfcCopyShapes DEF CopiesFor
  <2>2. PICK f \in some : TRUE
    BY <1>4
  <2>3. \A m \in mirror : m.id = id =>
            \E g \in mirrorFlow : /\ g.table = "mirror" /\ g.match = m.match
                                  /\ g.cookie = 2000000 + id * 65536
    BY <1>4, <2>1, <2>2
  <2>4. q.kind = "mirror" /\ q.flows = some
    BY <1>4, <1>11
  <2>5. AskedFit(q, mirrorAddress, mirrorRoute, mirror, mirrorFlow)
    BY <1>4, <2>1, <2>2, <2>3, <2>4 DEF AskedFit
  <2>6. QED
    BY <1>2, <1>3, <2>5 DEF VfcInv
<1>12. QED
  BY <1>9, <1>10, <1>11 DEF Vfc!Kinds

(* An address that is deleted goes with its flows, and nothing else does.    *)
LEMMA VfcDeleteAddressKeeps ==
    ASSUME RowsLeadOut, VfcInv, Vfc!DeleteAddressData
    PROVE  VfcInv'
<1>1. /\ mirrorNext \in [{"address", "route", "mirror"} -> Nat \ {0}]
      /\ AddressesApart("vfc", mirrorAddress, mirrorNext["address"])
      /\ RoutesFit("vfc", mirrorRoute)
      /\ RoutingFit("vfc", mirrorAddress, mirrorRoute, mirrorFlow)
      /\ CopiesFit(mirror, mirrorFlow, mirrorNext["mirror"])
      /\ AskedFit(mirrorRequest, mirrorAddress, mirrorRoute, mirror, mirrorFlow)
  BY DEF VfcInv
<1>2. PICK asked, fl, nets : asked = mirrorRequest.flows /\ fl = mirrorFlow' /\ nets = mirrorAddress'
  OBVIOUS
<1>3. /\ mirrorRequest.kind = "address" /\ mirrorRequest' = Vfc!Idle
      /\ nets = {a \in mirrorAddress : a.id \notin Vfc!Ids}
      /\ fl = {f \in mirrorFlow : \A g \in asked : g.cookie # f.cookie \/ g.table # f.table}
      /\ UNCHANGED <<mirrorRoute, mirror, mirrorNext>>
  BY <1>2 DEF Vfc!DeleteAddressData, Vfc!Kept, Vfc!FlowsWithout
<1>4. PICK gone \in mirrorAddress :
          asked # {} /\ asked \subseteq {MacAt("vfc", gone), PortAt("vfc", gone), InsideAt("vfc", gone)}
  BY <1>1, <1>2, <1>3 DEF AskedFit, Vfc!Idle
<1>5. /\ \A g \in asked : g.table = "routing" /\ g.cookie = 3000000 + gone.id
      /\ Base("vfc") = 3000000 /\ "vfc" \in Both
  BY <1>4, RoutingShapes DEF Base, Both
<1>6. FewIds(14) /\ gone.id \in 0 .. 13
  <2>1. gone.id \in 1 .. MaxIds
    BY <1>1 DEF AddressesApart, AddressRow
  <2>2. QED
    BY <2>1, IdsFew
<1>7. Vfc!CookieToId("address", 3000000 + gone.id) = gone.id
  BY <1>6, VfcDecodes
<1>8. \A i : i \in Vfc!Ids <=> i = gone.id
  BY <1>2, <1>3, <1>4, <1>5, <1>7 DEF Vfc!Ids
<1>9. nets = mirrorAddress \ {gone}
  BY <1>1, <1>3, <1>8 DEF AddressesApart
<1>10. TakenFrom(mirrorFlow, fl, Base("vfc") + gone.id)
  BY <1>3, <1>4, <1>5 DEF TakenFrom
<1>11. /\ AddressesApart("vfc", nets, mirrorNext["address"])
       /\ RoutingFit("vfc", nets, mirrorRoute, fl)
  BY <1>1, <1>5, <1>6, <1>9, <1>10, AddressGone
<1>12. CopiesFit(mirror, fl, mirrorNext["mirror"])
  BY <1>1, <1>10, VfcSameCopies DEF TakenFrom
<1>13. AskedFit(mirrorRequest', nets, mirrorRoute, mirror, fl)
  BY <1>3 DEF AskedFit
<1>14. QED
  BY <1>1, <1>2, <1>3, <1>11, <1>12, <1>13 DEF VfcInv

(* A route goes with its flow; the default route's, under that which drops.  *)
LEMMA VfcDeleteRouteKeeps ==
    ASSUME RowsLeadOut, VfcInv, Vfc!DeleteRows, mirrorRequest.kind = "route"
    PROVE  VfcInv'
<1>1. /\ mirrorNext \in [{"address", "route", "mirror"} -> Nat \ {0}]
      /\ AddressesApart("vfc", mirrorAddress, mirrorNext["address"])
      /\ RoutesFit("vfc", mirrorRoute)
      /\ RoutingFit("vfc", mirrorAddress, mirrorRoute, mirrorFlow)
      /\ \A r \in mirrorRoute : Vias(r) /\ r.id < mirrorNext["route"]
      /\ \A r, s \in mirrorRoute : r.id = s.id => r = s
      /\ CopiesFit(mirror, mirrorFlow, mirrorNext["mirror"])
      /\ AskedFit(mirrorRequest, mirrorAddress, mirrorRoute, mirror, mirrorFlow)
  BY DEF VfcInv
<1>2. PICK asked, fl, left, rs :
          /\ asked = mirrorRequest.flows /\ fl = mirrorFlow' /\ rs = mirrorRoute'
          /\ left = {f \in mirrorFlow : \A g \in asked : g.cookie # f.cookie \/ g.table # f.table}
  OBVIOUS
<1>3. PICK gone \in mirrorRoute :
          /\ asked # {}
          /\ \A f \in asked : /\ f.table = "routing" /\ f.cookie = 3000000 + gone.id * 65536
                              /\ f.prio = 1 <=> gone.match = Everything
  BY <1>1, <1>2 DEF AskedFit, Vfc!Idle
<1>4. PICK new : new = IF gone.match = Everything THEN {DropAt("vfc")} ELSE {}
  OBVIOUS
<1>5. /\ mirrorRequest' = Vfc!Idle /\ UNCHANGED <<mirrorAddress, mirrorNext>>
      /\ rs = {r \in mirrorRoute : r.id \notin Vfc!Ids}
      /\ mirror' = {[m EXCEPT !.copies = IF \E f \in left : f.table = "mirror" /\ f.match = m.match
                                         THEN @ ELSE Nowhere] : m \in mirror}
      /\ fl = Vfc!With(left, new)
  <2>1. (\E f \in asked : f.prio = Vfc!DEFAULT_ROUTING) <=> gone.match = Everything
    BY <1>3 DEF Vfc!DEFAULT_ROUTING
  <2>2. left = Vfc!FlowsWithout(asked)
    BY <1>2 DEF Vfc!FlowsWithout
  <2>3. fl = Vfc!With(left, IF \E f \in asked : f.prio = Vfc!DEFAULT_ROUTING
                            THEN {DropAt("vfc")} ELSE {})
    BY <1>2, <2>2, VfcFlows DEF Vfc!DeleteRows
  <2>4. /\ mirrorRequest' = Vfc!Idle /\ UNCHANGED <<mirrorAddress, mirrorNext>>
        /\ rs = {r \in mirrorRoute : r.id \notin Vfc!Ids}
    BY <1>2 DEF Vfc!DeleteRows, Vfc!Kept
  <2>5. mirror' = {[m EXCEPT !.copies = IF \E f \in left : f.table = "mirror" /\ f.match = m.match
                                        THEN @ ELSE Nowhere] : m \in mirror}
    BY <1>2, <2>2 DEF Vfc!DeleteRows, Vfc!Kept
  <2>6. QED
    BY <1>4, <2>1, <2>3, <2>4, <2>5
<1>6. FewIds(14) /\ "vfc" \in Both /\ Base("vfc") = 3000000 /\ Span("vfc") \in Nat
  BY IdsFew, RowNumbers DEF Both, Base
<1>7. /\ \A r \in mirrorRoute : r.id \in 1 .. 13 /\ r.match \in MirrorRoutes
      /\ \A a \in mirrorAddress : a.id \in 1 .. 13
  <2>1. \A r \in mirrorRoute : r.id \in 1 .. MaxIds /\ r.match \in MirrorRoutes
    BY <1>1 DEF RoutesFit, RouteRows
  <2>2. \A a \in mirrorAddress : a.id \in 1 .. MaxIds
    BY <1>1 DEF AddressesApart, AddressRow
  <2>3. QED
    BY <2>1, <2>2, IdsFew
<1>8. \A i : i \in Vfc!Ids <=> i = gone.id
  <2>1. Vfc!CookieToId("route", 3000000 + gone.id * 65536) = gone.id
    BY <1>7, VfcDecodes
  <2>2. QED
    BY <1>2, <1>3, <2>1 DEF Vfc!Ids
<1>9. rs = mirrorRoute \ {gone}
  BY <1>1, <1>5, <1>8
<1>10. /\ \A f \in left : f \in mirrorFlow
       /\ \A f \in left : f.table # "routing" \/ f.cookie # 3000000 + gone.id * 65536
       /\ \A f \in mirrorFlow : f.table # "routing" \/ f.cookie # 3000000 + gone.id * 65536 => f \in left
  BY <1>2, <1>3
<1>11. PutInto(left, new, fl)
  BY <1>5, Puts
<1>12. RowsUnique(mirrorRoute) /\ \A r \in rs : gone.match = Everything => r.match # Everything
  BY <1>1, <1>9 DEF RoutesFit, RowsUnique
<1>13. RoutesFit("vfc", rs)
  BY <1>1, <1>9 DEF RoutesFit, RowsUnique
<1>14. RoutingFit("vfc", mirrorAddress, rs, fl)
  <2>1. ASSUME NEW f \in fl, f.table = "routing"
        PROVE  \/ f = DropAt("vfc") /\ NoneDefault(rs)
               \/ \E a \in mirrorAddress : f \in {MacAt("vfc", a), PortAt("vfc", a), InsideAt("vfc", a)}
               \/ \E x \in rs : f = RouteAt("vfc", x)
    <3>1. CASE f \in new
      BY <1>4, <1>12, <3>1 DEF NoneDefault
    <3>2. CASE f \in left
      <4>1. f \in mirrorFlow /\ f.cookie # 3000000 + gone.id * 65536
        BY <1>10, <2>1, <3>2
      <4>2. f # RouteAt("vfc", gone)
        BY <1>6, <4>1, RoutingShapes
      <4>3. NoneDefault(mirrorRoute) => NoneDefault(rs)
        BY <1>9 DEF NoneDefault
      <4>4. QED
        BY <1>1, <1>9, <2>1, <4>1, <4>2, <4>3 DEF RoutingFit
    <3>3. QED
      BY <1>11, <3>1, <3>2 DEF PutInto
  <2>2. ASSUME NoneDefault(rs) PROVE DropAt("vfc") \in fl
    <3>1. CASE gone.match = Everything
      BY <1>4, <1>11, <3>1 DEF PutInto
    <3>2. CASE gone.match # Everything
      <4>1. DropAt("vfc") \in mirrorFlow
        BY <1>1, <1>9, <2>2, <3>2 DEF RoutingFit, NoneDefault
      <4>2. DropAt("vfc").cookie # 3000000 + gone.id * 65536
        BY <1>6, <1>7, RoutingShapes
      <4>3. QED
        BY <1>4, <1>10, <1>11, <3>2, <4>1, <4>2 DEF PutInto
    <3>3. QED
      BY <3>1, <3>2
  <2>3. ASSUME NEW g \in mirrorFlow, g.cookie # 3000000 + gone.id * 65536,
               g.prio # 1 \/ (g.match = Everything => gone.match # Everything)
        PROVE  g \in fl
    <3>1. g \in left
      BY <1>10, <2>3
    <3>2. \A d \in new : Place(g) # Place(d)
      BY <1>4, <2>3, RoutingShapes, PlaceFields
    <3>3. QED
      BY <1>11, <3>1, <3>2 DEF PutInto
  <2>4. ASSUME NEW a \in mirrorAddress
        PROVE  {MacAt("vfc", a), PortAt("vfc", a), InsideAt("vfc", a)} \subseteq fl
    <3>1. {MacAt("vfc", a), PortAt("vfc", a), InsideAt("vfc", a)} \subseteq mirrorFlow
      BY <1>1 DEF RoutingFit
    <3>2. 3000000 + a.id # 3000000 + gone.id * 65536
      BY <1>7
    <3>3. \A f \in {MacAt("vfc", a), PortAt("vfc", a), InsideAt("vfc", a)} :
              f.cookie = 3000000 + a.id /\ f.prio # 1
      BY <1>6, RoutingShapes
    <3>4. QED
      BY <2>3, <3>1, <3>2, <3>3
  <2>5. ASSUME NEW x \in rs PROVE RouteAt("vfc", x) \in fl
    <3>1. RouteAt("vfc", x) \in mirrorFlow /\ x.id # gone.id
      BY <1>1, <1>9 DEF RoutingFit
    <3>2. RouteAt("vfc", x).cookie = 3000000 + x.id * 65536 /\ RouteAt("vfc", x).match = x.match
      BY <1>6, RoutingShapes
    <3>3. 3000000 + x.id * 65536 # 3000000 + gone.id * 65536
      BY <1>7, <1>9, <3>1
    <3>4. QED
      BY <1>12, <2>3, <3>1, <3>2, <3>3
  <2>6. QED
    BY <2>1, <2>2, <2>4, <2>5 DEF RoutingFit
<1>15. mirror' = mirror
  <2>1. mirror \subseteq VfcStationRow
    BY <1>1 DEF CopiesFit
  <2>2. ASSUME NEW m \in mirror
        PROVE  [m EXCEPT !.copies = IF \E f \in left : f.table = "mirror" /\ f.match = m.match
                                    THEN @ ELSE Nowhere] = m
    <3>1. m \in [match : Mirrors, id : 1 .. FirstMirror + MaxIds - 1, gateway : Stations,
                 copies : Stations \cup {Nowhere}]
      BY <2>1 DEF VfcStationRow
    <3>2. m.copies = Nowhere \/ \E f \in left : f.table = "mirror" /\ f.match = m.match
      BY <1>1, <1>10 DEF CopiesFit
    <3>3. QED
      BY <3>1, <3>2
  <2>3. QED
    BY <1>5, <2>2
<1>16. CopiesFit(mirror, fl, mirrorNext["mirror"])
  <2>1. \A g \in new : g.table = "routing"
    BY <1>4, RoutingShapes
  <2>2. \A f \in fl : f.table # "routing" => f \in mirrorFlow
    BY <1>10, <1>11, <2>1 DEF PutInto
  <2>3. \A f \in mirrorFlow : f.table # "routing" => f \in fl
    BY <1>10, <1>11, <2>1, PlaceFields DEF PutInto
  <2>4. QED
    BY <1>1, <2>2, <2>3, VfcSameCopies
<1>17. AskedFit(mirrorRequest', mirrorAddress, rs, mirror, fl)
  BY <1>5 DEF AskedFit
<1>18. /\ \A r \in rs : Vias(r) /\ r.id < mirrorNext["route"]
       /\ \A r, s \in rs : r.id = s.id => r = s
  BY <1>1, <1>9
<1>19. QED
  BY <1>1, <1>2, <1>5, <1>13, <1>14, <1>15, <1>16, <1>17, <1>18 DEF VfcInv

(* A mirror goes with its flow, and no other mirror with it.                 *)
LEMMA VfcDeleteMirrorKeeps ==
    ASSUME RowsLeadOut, VfcInv, Vfc!DeleteRows, mirrorRequest.kind = "mirror"
    PROVE  VfcInv'
<1>1. /\ mirrorNext \in [{"address", "route", "mirror"} -> Nat \ {0}]
      /\ AddressesApart("vfc", mirrorAddress, mirrorNext["address"])
      /\ RoutesFit("vfc", mirrorRoute)
      /\ RoutingFit("vfc", mirrorAddress, mirrorRoute, mirrorFlow)
      /\ \A r \in mirrorRoute : Vias(r) /\ r.id < mirrorNext["route"]
      /\ \A r, s \in mirrorRoute : r.id = s.id => r = s
      /\ CopiesFit(mirror, mirrorFlow, mirrorNext["mirror"])
      /\ AskedFit(mirrorRequest, mirrorAddress, mirrorRoute, mirror, mirrorFlow)
  BY DEF VfcInv
<1>2. PICK asked, fl, ms : /\ asked = mirrorRequest.flows /\ fl = mirrorFlow' /\ ms = mirror'
  OBVIOUS
<1>3. PICK i \in 1 .. FirstMirror + MaxIds - 1 :
          /\ asked # {}
          /\ \A f \in asked : f.table = "mirror" /\ f.cookie = 2000000 + i * 65536 /\ f.prio # 1
          /\ \A m \in mirror : m.id = i =>
                \E f \in mirrorFlow : /\ f.table = "mirror" /\ f.match = m.match
                                      /\ f.cookie = 2000000 + i * 65536
  BY <1>1, <1>2 DEF AskedFit, Vfc!Idle
<1>4. /\ fl \subseteq mirrorFlow
      /\ \A f \in fl : f.table # "mirror" \/ f.cookie # 2000000 + i * 65536
      /\ \A f \in mirrorFlow : f.table # "mirror" \/ f.cookie # 2000000 + i * 65536 => f \in fl
  <2>1. ~ \E f \in asked : f.prio = Vfc!DEFAULT_ROUTING
    BY <1>3 DEF Vfc!DEFAULT_ROUTING
  <2>2. fl = Vfc!With(Vfc!FlowsWithout(asked), {})
    BY <1>2, <2>1 DEF Vfc!DeleteRows
  <2>3. fl = Vfc!FlowsWithout(asked)
    BY <2>2 DEF Vfc!With, Vfc!FlowsWithout
  <2>4. QED
    BY <1>3, <2>3 DEF Vfc!FlowsWithout
<1>5. /\ mirrorRequest' = Vfc!Idle /\ UNCHANGED <<mirrorAddress, mirrorNext, mirrorRoute>>
      /\ ms = {[m EXCEPT !.copies = IF \E f \in fl : f.table = "mirror" /\ f.match = m.match
                                    THEN @ ELSE Nowhere] : m \in {k \in mirror : k.id \notin Vfc!Ids}}
  <2>1. ~ \E f \in asked : f.prio = Vfc!DEFAULT_ROUTING
    BY <1>3 DEF Vfc!DEFAULT_ROUTING
  <2>2. fl = Vfc!With(Vfc!FlowsWithout(asked), {})
    BY <1>2, <2>1 DEF Vfc!DeleteRows
  <2>3. fl = Vfc!FlowsWithout(asked)
    BY <2>2 DEF Vfc!With, Vfc!FlowsWithout
  <2>4. QED
    BY <1>2, <2>3 DEF Vfc!DeleteRows, Vfc!Kept
<1>6. i \in 0 .. 13 /\ \A x \in VfcStationRow : x.id \in 0 .. 13
  <2>1. FirstMirror \in 1 .. 14 /\ MaxIds \in 0 .. 13 /\ FirstMirror + MaxIds <= 14
    BY IdsFew DEF FewIds
  <2>2. QED
    BY <2>1 DEF VfcStationRow
<1>7. \A j : j \in Vfc!Ids <=> j = i
  <2>1. Vfc!CookieToId("mirror", 2000000 + i * 65536) = i
    BY <1>6, VfcDecodes
  <2>2. QED
    BY <1>2, <1>3, <2>1 DEF Vfc!Ids
<1>8. PICK up : up = [m \in mirror |-> [m EXCEPT !.copies =
                          IF \E f \in fl : f.table = "mirror" /\ f.match = m.match THEN @ ELSE Nowhere]]
  OBVIOUS
<1>9. /\ \A k \in ms : \E m \in mirror : m.id # i /\ k = up[m]
      /\ \A m \in mirror : m.id # i => up[m] \in ms
  BY <1>5, <1>7, <1>8
<1>10. mirror \subseteq VfcStationRow /\ RowsUnique(mirror)
  BY <1>1 DEF CopiesFit
<1>11. ASSUME NEW m \in mirror
       PROVE  /\ up[m] \in VfcStationRow /\ up[m].match = m.match /\ up[m].id = m.id
              /\ up[m].gateway = m.gateway
              /\ (\E f \in fl : f.table = "mirror" /\ f.match = m.match) => up[m].copies = m.copies
              /\ up[m].copies # Nowhere => \E f \in fl : f.table = "mirror" /\ f.match = m.match
  <2>1. m \in [match : Mirrors, id : 1 .. FirstMirror + MaxIds - 1, gateway : Stations,
               copies : Stations \cup {Nowhere}]
    BY <1>10 DEF VfcStationRow
  <2>2. QED
    BY <1>8, <2>1 DEF VfcStationRow
<1>12. CopiesFit(ms, fl, mirrorNext["mirror"])
  <2>1. /\ ms \subseteq VfcStationRow /\ RowsUnique(ms)
        /\ \A m \in ms : m.id < mirrorNext["mirror"]
        /\ \A m, k \in ms : m.id = k.id => m = k
    BY <1>1, <1>9, <1>10, <1>11 DEF RowsUnique, CopiesFit
  <2>2. Vfc!DefaultMirrorFlow \in fl
    <3>1. 2000000 # 2000000 + i * 65536
      BY <1>3
    <3>2. QED
      BY <1>1, <1>4, <3>1, VfcCopyShapes DEF CopiesFit
  <2>3. ASSUME NEW f \in fl, f.table # "routing", f # Vfc!DefaultMirrorFlow
        PROVE  \E x \in VfcStationRow :
                   f = Vfc!MirroringFlow(x) /\ CopiesFor(ms, x, mirrorNext["mirror"])
    <3>1. PICK x \in VfcStationRow :
              f = Vfc!MirroringFlow(x) /\ CopiesFor(mirror, x, mirrorNext["mirror"])
      BY <1>1, <1>4, <2>3 DEF CopiesFit
    <3>2. PICK m \in mirror : m.match = x.match /\ m.copies = x.gateway
      BY <3>1 DEF CopiesFor
    <3>3. f.table = "mirror" /\ f.match = m.match /\ f.prio = Vfc!RoutePriority(m.match)
      BY <3>1, <3>2, VfcCopyShapes
    <3>4. m.id # i
      <4>1. SUFFICES ASSUME m.id = i PROVE FALSE
        OBVIOUS
      <4>2. PICK g \in mirrorFlow : /\ g.table = "mirror" /\ g.match = m.match
                                    /\ g.cookie = 2000000 + i * 65536
        BY <1>3, <4>1
      <4>3. m.match # Everything
        BY <3>2, VfcCopyShapes DEF Everything, Mirror!Any
      <4>4. \E y \in VfcStationRow : g = Vfc!MirroringFlow(y)
        BY <1>1, <4>2, <4>3, VfcCopyShapes DEF CopiesFit
      <4>5. g.prio = Vfc!RoutePriority(m.match)
        BY <4>2, <4>4, VfcCopyShapes
      <4>6. f \in mirrorFlow /\ Place(f) = Place(g)
        BY <1>4, <3>3, <4>2, <4>5 DEF Place
      <4>7. f = g
        BY <1>1, <2>3, <4>6 DEF CopiesFit
      <4>8. QED
        BY <1>4, <4>2, <4>7
    <3>5. up[m] \in ms /\ up[m].match = x.match /\ up[m].copies = x.gateway
      BY <1>9, <1>11, <3>2, <3>3, <3>4
    <3>6. \A k \in ms : k.id = x.id => k.match = x.match
      BY <1>9, <1>11, <3>1 DEF CopiesFor
    <3>7. x.id < mirrorNext["mirror"]
      BY <3>1 DEF CopiesFor
    <3>8. QED
      BY <3>1, <3>5, <3>6, <3>7 DEF CopiesFor
  <2>4. \A m \in ms : m.copies # Nowhere => \E f \in fl : f.table = "mirror" /\ f.match = m.match
    BY <1>9, <1>11
  <2>5. \A f, g \in fl : f.table # "routing" /\ Place(f) = Place(g) => f = g
    BY <1>1, <1>4 DEF CopiesFit
  <2>6. QED
    BY <2>1, <2>2, <2>3, <2>4, <2>5 DEF CopiesFit
<1>13. RoutingFit("vfc", mirrorAddress, mirrorRoute, fl)
  <2>1. /\ \A f \in fl : f.table = "routing" => f \in mirrorFlow
        /\ \A f \in mirrorFlow : f.table = "routing" => f \in fl
    BY <1>4
  <2>2. QED
    BY <1>1, <2>1, SameRouting
<1>14. AskedFit(mirrorRequest', mirrorAddress, mirrorRoute, ms, fl)
  BY <1>5 DEF AskedFit
<1>15. QED
  BY <1>1, <1>2, <1>5, <1>12, <1>13, <1>14 DEF VfcInv

(* A gateway or a station is heard.                                          *)
LEMMA VfcArpKeeps ==
    ASSUME RowsLeadOut, VfcInv, NEW ip \in MirrorHosts, NEW reply \in BOOLEAN,
           Vfc!ArpIn(ip, reply)
    PROVE  VfcInv'
<1>1. /\ mirrorNext \in [{"address", "route", "mirror"} -> Nat \ {0}]
      /\ AddressesApart("vfc", mirrorAddress, mirrorNext["address"])
      /\ RoutesFit("vfc", mirrorRoute)
      /\ RoutingFit("vfc", mirrorAddress, mirrorRoute, mirrorFlow)
      /\ \A r \in mirrorRoute : Vias(r) /\ r.id < mirrorNext["route"]
      /\ \A r, s \in mirrorRoute : r.id = s.id => r = s
      /\ CopiesFit(mirror, mirrorFlow, mirrorNext["mirror"])
      /\ AskedFit(mirrorRequest, mirrorAddress, mirrorRoute, mirror, mirrorFlow)
  BY DEF VfcInv
<1>2. PICK over : over = {r \in mirrorRoute : r.gateway = ip /\ r.mac # ip}
  OBVIOUS
<1>3. PICK those \in SUBSET {m \in mirror : m.gateway = ip} :
          /\ mirrorRoute' = Vfc!UpdateMirroringTbl(Vfc!UpdateRoutingTbl(ip), those, ip)
          /\ mirror' = (mirror \ those) \cup {[m EXCEPT !.copies = ip] : m \in those}
          /\ mirrorFlow' = Vfc!With(mirrorFlow, {Vfc!RoutingFlow(r) : r \in over}
                                                \cup {Vfc!MirroringFlow(m) : m \in those})
          /\ UNCHANGED <<mirrorAddress, mirrorNext, mirrorRequest>>
  BY <1>2 DEF Vfc!ArpIn
<1>4. PICK new, fl, ms, rs :
          /\ new = {Vfc!RoutingFlow(r) : r \in over} \cup {Vfc!MirroringFlow(m) : m \in those}
          /\ fl = mirrorFlow' /\ ms = mirror' /\ rs = mirrorRoute'
  OBVIOUS
<1>5. PICK one : one = [r \in mirrorRoute |->
          IF r.gateway = ip THEN [r EXCEPT !.mac = ip, !.heard = TRUE] ELSE r]
  OBVIOUS
<1>6. PICK up : up = [r \in mirrorRoute |->
          IF \E m \in those : m.match = r.match THEN [one[r] EXCEPT !.mac = ip] ELSE one[r]]
  OBVIOUS
<1>7. mirrorRoute \subseteq RouteRows("vfc") /\ RowsUnique(mirrorRoute)
  BY <1>1 DEF RoutesFit
<1>8. ASSUME NEW r \in mirrorRoute
      PROVE  /\ up[r] \in RouteRows("vfc")
             /\ up[r].match = r.match /\ up[r].id = r.id /\ up[r].gateway = r.gateway
             /\ up[r].heard = IF r.gateway = ip THEN TRUE ELSE r.heard
             /\ up[r].mac \in {ip, r.mac} /\ one[r].match = r.match
  <2>1. r \in [match : MirrorRoutes, id : 1 .. MaxIds, gateway : MirrorGateways,
               mac : Stations \cup MirrorGateways \cup {Nowhere}, heard : BOOLEAN]
    BY <1>7 DEF RouteRows
  <2>2. (\E m \in those : m.match = r.match) => ip \in Stations
    BY <1>1, <1>3 DEF CopiesFit, VfcStationRow
  <2>3. r.gateway = ip => ip \in MirrorGateways
    BY <2>1
  <2>4. /\ one[r] \in [match : MirrorRoutes, id : 1 .. MaxIds, gateway : MirrorGateways,
                       mac : Stations \cup MirrorGateways \cup {Nowhere}, heard : BOOLEAN]
        /\ one[r].match = r.match /\ one[r].id = r.id /\ one[r].gateway = r.gateway
        /\ one[r].heard = IF r.gateway = ip THEN TRUE ELSE r.heard
        /\ one[r].mac \in {ip, r.mac}
    BY <1>5, <2>1, <2>3
  <2>5. QED
    BY <1>6, <2>2, <2>4 DEF RouteRows
<1>9. rs = {up[r] : r \in mirrorRoute}
  <2> DEFINE After(s) == IF \E m \in those : m.match = s.match THEN [s EXCEPT !.mac = ip] ELSE s
  <2>1. Vfc!UpdateRoutingTbl(ip) = {one[r] : r \in mirrorRoute}
    BY <1>5 DEF Vfc!UpdateRoutingTbl
  <2>2. rs = {After(s) : s \in {one[r] : r \in mirrorRoute}}
    BY <1>3, <1>4, <2>1 DEF Vfc!UpdateMirroringTbl
  <2>3. ASSUME NEW r \in mirrorRoute PROVE up[r] = After(one[r])
    <3>1. one[r].match = r.match
      BY <1>8
    <3>2. up[r] = IF \E m \in those : m.match = r.match THEN [one[r] EXCEPT !.mac = ip] ELSE one[r]
      BY <1>6
    <3>3. CASE \E m \in those : m.match = r.match
      BY <3>1, <3>2, <3>3
    <3>4. CASE ~ \E m \in those : m.match = r.match
      BY <3>1, <3>2, <3>4
    <3>5. QED
      BY <3>3, <3>4
  <2> HIDE DEF After
  <2>4. QED
    BY <2>2, <2>3
<1>10. PutInto(mirrorFlow, new, fl)
  BY <1>3, <1>4, Puts
<1>11. PICK to : to = [m \in mirror |-> IF m \in those THEN [m EXCEPT !.copies = ip] ELSE m]
  OBVIOUS
<1>12. mirror \subseteq VfcStationRow /\ RowsUnique(mirror)
  BY <1>1 DEF CopiesFit
<1>13. ASSUME NEW m \in mirror
       PROVE  /\ to[m] \in VfcStationRow /\ to[m].match = m.match /\ to[m].id = m.id
              /\ m \in those => to[m].copies = ip
              /\ m \notin those => to[m] = m
  <2>1. m \in [match : Mirrors, id : 1 .. FirstMirror + MaxIds - 1, gateway : Stations,
               copies : Stations \cup {Nowhere}]
    BY <1>12 DEF VfcStationRow
  <2>2. m \in those => ip \in Stations
    BY <1>3, <2>1
  <2>3. QED
    BY <1>11, <2>1, <2>2 DEF VfcStationRow
<1>14. /\ \A k \in ms : \E m \in mirror : k = to[m]
       /\ \A m \in mirror : to[m] \in ms
  BY <1>3, <1>4, <1>11
<1>15. /\ \A g \in new : g.table # "routing" => \E m \in those : g = Vfc!MirroringFlow(m)
       /\ \A m \in those : Vfc!MirroringFlow(m) \in new
       /\ \A m \in those : m \in mirror /\ m.gateway = ip
       /\ \A g \in new : g.table = "routing" => \E r \in over : g = Vfc!RoutingFlow(r)
  <2>1. \A r : Vfc!RoutingFlow(r).table = "routing"
    BY DEF Vfc!RoutingFlow, Vfc!Flow
  <2>2. \A m : Vfc!MirroringFlow(m).table = "mirror"
    BY DEF Vfc!MirroringFlow, Vfc!Flow
  <2>3. QED
    BY <1>3, <1>4, <2>1, <2>2
<1>16. RoutesFit("vfc", rs) /\ RoutingFit("vfc", mirrorAddress, rs, fl)
  <2>1. ASSUME NEW r \in mirrorRoute, r.gateway = ip
        PROVE  Vfc!RoutingFlow(r) = RouteAt("vfc", up[r])
    <3>1. Vfc!RoutingFlow(r) = Vfc!RoutingFlow(up[r])
      BY <1>8 DEF Vfc!RoutingFlow
    <3>2. QED
      BY <1>8, <2>1, <3>1, VfcFlows
  <2>2. \A g \in new : g.table = "routing" => \E r \in mirrorRoute : g = RouteAt("vfc", up[r])
    BY <1>2, <1>15, <2>1
  <2>3. ASSUME NEW r \in mirrorRoute
        PROVE  RouteAt("vfc", up[r]) = RouteAt("vfc", r) \/ RouteAt("vfc", up[r]) \in new
    <3>1. CASE r \in over
      BY <1>2, <1>4, <2>1, <3>1
    <3>2. CASE r \notin over
      <4>1. up[r].heard = r.heard
        <5>1. CASE r.gateway = ip
          <6>1. r.mac = r.gateway
            BY <1>2, <3>2, <5>1
          <6>2. r.heard
            BY <1>1, <6>1 DEF Vias
          <6>3. r.heard \in BOOLEAN
            BY <1>7 DEF RouteRows
          <6>4. QED
            BY <1>8, <5>1, <6>2, <6>3
        <5>2. CASE r.gateway # ip
          BY <1>8, <5>2
        <5>3. QED
          BY <5>1, <5>2
      <4>2. PICK u : u = up[r]
        OBVIOUS
      <4>3. u.heard = r.heard /\ u.match = r.match /\ u.id = r.id /\ u.gateway = r.gateway
        BY <1>8, <4>1, <4>2
      <4>4. RouteAction("vfc", u) = RouteAction("vfc", r)
        BY <4>3 DEF RouteAction, IsHeard
      <4>5. RouteAt("vfc", u) = RouteAt("vfc", r)
        BY <4>3, <4>4 DEF RouteAt
      <4>6. QED
        BY <4>2, <4>5
    <3>3. QED
      BY <3>1, <3>2
  <2>4. "vfc" \in Both /\ up \in [mirrorRoute -> RouteRows("vfc")]
    BY <1>6, <1>8 DEF Both
  <2>5. \A r \in mirrorRoute : up[r].match = r.match
    BY <1>8
  <2>6. /\ RoutingFit("vfc", mirrorAddress, mirrorRoute, mirrorFlow)
        /\ RoutesFit("vfc", mirrorRoute)
    BY <1>1
  <2>7. /\ RoutesFit("vfc", {up[r] : r \in mirrorRoute})
        /\ RoutingFit("vfc", mirrorAddress, {up[r] : r \in mirrorRoute}, fl)
    BY <1>10, <2>2, <2>3, <2>4, <2>5, <2>6, RoutesCompleted
  <2>8. QED
    BY <1>9, <2>7
<1>17. /\ \A r \in rs : Vias(r) /\ r.id < mirrorNext["route"]
       /\ \A r, s \in rs : r.id = s.id => r = s
  <2>1. ASSUME NEW r \in mirrorRoute PROVE Vias(up[r])
    <3>1. CASE r.gateway = ip
      BY <1>8, <3>1 DEF Vias
    <3>2. CASE r.gateway # ip
      <4>1. up[r].mac = up[r].gateway => r.mac = r.gateway
        BY <1>8, <3>2
      <4>2. Vias(r) /\ up[r].heard = r.heard
        BY <1>1, <1>8, <3>2
      <4>3. QED
        BY <4>1, <4>2 DEF Vias
    <3>3. QED
      BY <3>1, <3>2
  <2>2. \A r \in mirrorRoute : up[r].id < mirrorNext["route"]
    BY <1>1, <1>8
  <2>3. ASSUME NEW r \in mirrorRoute, NEW s \in mirrorRoute, up[r].id = up[s].id
        PROVE  up[r] = up[s]
    <3>1. up[r].id = r.id /\ up[s].id = s.id
      BY <1>8
    <3>2. r = s
      BY <1>1, <2>3, <3>1
    <3>3. QED
      BY <3>2
  <2>4. QED
    BY <1>9, <2>1, <2>2, <2>3
<1>18. ASSUME NEW f \in mirrorFlow, f.table # "routing"
       PROVE  \/ f \in fl /\ \A m \in those : Place(f) # Place(Vfc!MirroringFlow(m))
              \/ \E m \in those : Vfc!MirroringFlow(m) \in fl /\ Place(f) = Place(Vfc!MirroringFlow(m))
  BY <1>10, <1>15, <1>18, PlaceFields DEF PutInto
<1>19. CopiesFit(ms, fl, mirrorNext["mirror"])
  <2>1. /\ ms \subseteq VfcStationRow /\ RowsUnique(ms)
        /\ \A m \in ms : m.id < mirrorNext["mirror"]
        /\ \A m, k \in ms : m.id = k.id => m = k
    BY <1>1, <1>12, <1>13, <1>14 DEF RowsUnique, CopiesFit
  <2>2. Vfc!DefaultMirrorFlow \in fl
    <3>1. /\ Vfc!DefaultMirrorFlow \in mirrorFlow /\ Vfc!DefaultMirrorFlow.table # "routing"
          /\ Vfc!DefaultMirrorFlow.prio = 0
          /\ \A m \in those : Vfc!MirroringFlow(m).prio # 0
      BY <1>1, <1>12, <1>15, VfcCopyShapes DEF CopiesFit
    <3>2. QED
      BY <1>18, <3>1, PlaceFields
  <2>3. ASSUME NEW m \in those PROVE CopiesFor(ms, m, mirrorNext["mirror"])
    <3>1. m \in mirror /\ m.gateway = ip
      BY <1>15
    <3>2. m.id < mirrorNext["mirror"] /\ \A k \in mirror : k.id = m.id => k = m
      BY <1>1, <3>1 DEF CopiesFit
    <3>3. to[m] \in ms /\ to[m].match = m.match /\ to[m].copies = m.gateway
      BY <1>13, <1>14, <3>1
    <3>4. \A k \in ms : k.id = m.id => k.match = m.match
      BY <1>13, <1>14, <3>1, <3>2
    <3>5. QED
      BY <3>2, <3>3, <3>4 DEF CopiesFor
  <2>4. ASSUME NEW f \in fl, f.table # "routing", f # Vfc!DefaultMirrorFlow
        PROVE  \E x \in VfcStationRow :
                   f = Vfc!MirroringFlow(x) /\ CopiesFor(ms, x, mirrorNext["mirror"])
    <3>1. CASE f \in new
      BY <1>12, <1>15, <2>3, <2>4, <3>1
    <3>2. CASE f \in mirrorFlow /\ \A g \in new : Place(f) # Place(g)
      <4>1. PICK x \in VfcStationRow :
                f = Vfc!MirroringFlow(x) /\ CopiesFor(mirror, x, mirrorNext["mirror"])
        BY <1>1, <2>4, <3>2 DEF CopiesFit
      <4>2. PICK m \in mirror : m.match = x.match /\ m.copies = x.gateway
        BY <4>1 DEF CopiesFor
      <4>3. m \notin those
        <5>1. SUFFICES ASSUME m \in those PROVE FALSE
          OBVIOUS
        <5>2. Place(f) = Place(Vfc!MirroringFlow(m))
          BY <1>12, <4>1, <4>2, VfcCopyShapes DEF Place
        <5>3. QED
          BY <1>15, <3>2, <5>1, <5>2
      <4>4. m \in ms
        BY <1>13, <1>14, <4>3
      <4>5. \A k \in ms : k.id = x.id => k.match = x.match
        BY <1>13, <1>14, <4>1 DEF CopiesFor
      <4>6. x.id < mirrorNext["mirror"]
        BY <4>1 DEF CopiesFor
      <4>7. QED
        BY <4>1, <4>2, <4>4, <4>5, <4>6 DEF CopiesFor
    <3>3. QED
      BY <1>10, <3>1, <3>2 DEF PutInto
  <2>5. ASSUME NEW k \in ms, k.copies # Nowhere
        PROVE  \E f \in fl : f.table = "mirror" /\ f.match = k.match
    <3>1. PICK m \in mirror : k = to[m]
      BY <1>14
    <3>2. CASE m \in those
      <4>1. Vfc!MirroringFlow(m) \in fl
        BY <1>10, <1>15, <3>2 DEF PutInto
      <4>2. QED
        BY <1>12, <1>13, <3>1, <4>1, VfcCopyShapes
    <3>3. CASE m \notin those
      <4>1. PICK f \in mirrorFlow : f.table = "mirror" /\ f.match = m.match
        BY <1>1, <1>13, <2>5, <3>1, <3>3 DEF CopiesFit
      <4>2. QED
        BY <1>13, <1>18, <3>1, <4>1, PlaceFields
    <3>4. QED
      BY <3>2, <3>3
  <2>6. ASSUME NEW f \in fl, NEW g \in fl, f.table # "routing", Place(f) = Place(g)
        PROVE  f = g
    <3>1. g.table # "routing"
      BY <2>6, PlaceFields
    <3>2. \A m, k \in those :
              Place(Vfc!MirroringFlow(m)) = Place(Vfc!MirroringFlow(k)) => m = k
      BY <1>12, <1>15, VfcCopyShapes, PlaceFields DEF RowsUnique
    <3>3. CASE f \in new /\ g \in new
      BY <1>15, <2>6, <3>1, <3>2, <3>3
    <3>4. CASE f \in mirrorFlow /\ g \in mirrorFlow
      BY <1>1, <2>6, <3>4 DEF CopiesFit
    <3>5. QED
      BY <1>10, <2>6, <3>3, <3>4 DEF PutInto
  <2>7. QED
    BY <2>1, <2>2, <2>4, <2>5, <2>6 DEF CopiesFit
<1>20. AskedFit(mirrorRequest, mirrorAddress, rs, ms, fl)
  <2>1. CASE mirrorRequest = Vfc!Idle \/ mirrorRequest.kind = "address"
    BY <1>1, <2>1 DEF AskedFit
  <2>2. CASE mirrorRequest # Vfc!Idle /\ mirrorRequest.kind = "route"
    <3>1. PICK r \in mirrorRoute : \A f \in mirrorRequest.flows :
              /\ f.table = "routing" /\ f.cookie = 3000000 + r.id * 65536
              /\ f.prio = 1 <=> r.match = Everything
      BY <1>1, <2>2 DEF AskedFit
    <3>2. up[r] \in rs /\ up[r].id = r.id /\ up[r].match = r.match
      BY <1>8, <1>9
    <3>3. mirrorRequest.flows # {}
      BY <1>1, <2>2 DEF AskedFit
    <3>4. QED
      BY <2>2, <3>1, <3>2, <3>3 DEF AskedFit
  <2>3. CASE mirrorRequest # Vfc!Idle /\ mirrorRequest.kind = "mirror"
    <3>1. PICK i \in 1 .. FirstMirror + MaxIds - 1 :
              /\ \A f \in mirrorRequest.flows :
                    f.table = "mirror" /\ f.cookie = 2000000 + i * 65536 /\ f.prio # 1
              /\ \A m \in mirror : m.id = i =>
                    \E f \in mirrorFlow : /\ f.table = "mirror" /\ f.match = m.match
                                          /\ f.cookie = 2000000 + i * 65536
      BY <1>1, <2>3 DEF AskedFit
    <3>2. ASSUME NEW k \in ms, k.id = i
          PROVE  \E f \in fl : /\ f.table = "mirror" /\ f.match = k.match
                               /\ f.cookie = 2000000 + i * 65536
      <4>1. PICK m \in mirror : k = to[m]
        BY <1>14
      <4>2. m.id = i /\ k.match = m.match
        BY <1>13, <3>2, <4>1
      <4>3. PICK f \in mirrorFlow : /\ f.table = "mirror" /\ f.match = m.match
                                    /\ f.cookie = 2000000 + i * 65536
        BY <3>1, <4>2
      <4>4. CASE f \in fl
        BY <4>2, <4>3, <4>4
      <4>5. CASE \E h \in those : Vfc!MirroringFlow(h) \in fl /\ Place(f) = Place(Vfc!MirroringFlow(h))
        <5>1. PICK h \in those : Vfc!MirroringFlow(h) \in fl /\ Place(f) = Place(Vfc!MirroringFlow(h))
          BY <4>5
        <5>2. h \in mirror /\ h.match = m.match
          BY <1>12, <1>15, <4>3, <5>1, VfcCopyShapes, PlaceFields
        <5>3. h = m
          BY <1>12, <5>2 DEF RowsUnique
        <5>4. Vfc!MirroringFlow(m) \in fl
          BY <5>1, <5>3
        <5>5. QED
          BY <1>12, <4>2, <5>4, VfcCopyShapes
      <4>6. QED
        BY <1>18, <4>3, <4>4, <4>5
    <3>3. mirrorRequest.flows # {}
      BY <1>1, <2>3 DEF AskedFit
    <3>4. QED
      BY <2>3, <3>1, <3>2, <3>3 DEF AskedFit
  <2>4. QED
    BY <1>1, <2>1, <2>2, <2>3 DEF AskedFit
<1>21. QED
  BY <1>1, <1>3, <1>4, <1>16, <1>17, <1>19, <1>20 DEF VfcInv

(* Every step of the mirroring router of Chameleon.                           *)
LEMMA VfcStep ==
    ASSUME RowsLeadOut, VfcInv, [Vfc!Next]_mirrorVars
    PROVE  VfcInv'
<1>1. CASE Vfc!SetData
  BY <1>1, VfcSetAddressKeeps, VfcSetRouteKeeps, VfcSetMirrorKeeps DEF Vfc!SetData
<1>2. CASE Vfc!DeleteData
  BY <1>2, VfcAskKeeps, VfcDeleteAddressKeeps, VfcDeleteRouteKeeps, VfcDeleteMirrorKeeps
     DEF Vfc!DeleteData, Vfc!DeleteRows
<1>3. CASE \/ \E pkt \in MirrorPackets : Vfc!PacketIn(pkt)
           \/ \E ip \in mirrorWaiting : Vfc!Timeout(ip)
           \/ UNCHANGED mirrorVars
  <2>1. UNCHANGED <<mirrorAddress, mirrorRoute, mirror, mirrorFlow, mirrorNext, mirrorRequest>>
    BY <1>3 DEF Vfc!PacketIn, Vfc!Timeout, mirrorVars
  <2>2. QED
    BY <2>1 DEF VfcInv
<1>4. CASE \E ip \in MirrorHosts, reply \in BOOLEAN : Vfc!ArpIn(ip, reply)
  BY <1>4, VfcArpKeeps
<1>5. QED
  BY <1>1, <1>2, <1>3, <1>4 DEF Vfc!Next, Vfc!PacketInHandler

-----------------------------------------------------------------------------
(* What the switch does with a packet: the flows of the highest priority of  *)
(* a table decide, and mean the same in both modules.                        *)
BestOf(fl, name, pkt) ==
    {f \in fl : /\ f.table = name /\ Mirror!Matches(f.match, pkt)
                /\ \A g \in fl : g.table = name /\ Mirror!Matches(g.match, pkt) => g.prio <= f.prio}

ActionsOf(fl, name, pkt) == {f.action : f \in BestOf(fl, name, pkt)}

TopRows(rows, w, pkt) ==
    {r \in rows : /\ Mirror!Matches(r.match, pkt)
                  /\ \A q \in rows : Mirror!Matches(q.match, pkt) => w[q] <= w[r]}

RowActions(rows, w, act, d, pkt) ==
    IF TopRows(rows, w, pkt) = {} THEN {d.action} ELSE {act[r] : r \in TopRows(rows, w, pkt)}

(* The two routers mean the same by the flows that win.                       *)
LEMMA BestsAgree ==
    \A name, pkt : /\ Mirror!Best(name, pkt) = BestOf(mirrorFlow, name, pkt)
                   /\ Vfc!Best(name, pkt) = BestOf(mirrorFlow, name, pkt)
<1>1. ASSUME NEW name, NEW pkt
      PROVE  \A f : /\ f \in Mirror!Best(name, pkt) <=> f \in BestOf(mirrorFlow, name, pkt)
                    /\ f \in Vfc!Best(name, pkt) <=> f \in BestOf(mirrorFlow, name, pkt)
  BY SameIn DEF Mirror!Best, Vfc!Best, BestOf
<1>2. QED
  BY <1>1

\* One flow decides.
Decides(fl, name, pkt, best) ==
    /\ best \in fl /\ best.table = name /\ Mirror!Matches(best.match, pkt)
    /\ \A f \in fl : f.table = name /\ Mirror!Matches(f.match, pkt) =>
          f.prio <= best.prio /\ (best.prio <= f.prio => f.action = best.action)

(* A flow that outranks all others of its table decides alone.                *)
LEMMA OneDecides ==
    ASSUME NEW fl, NEW name, NEW pkt, NEW best, Decides(fl, name, pkt, best)
    PROVE  ActionsOf(fl, name, pkt) = {best.action}
<1>1. best \in BestOf(fl, name, pkt)
  BY DEF BestOf, Decides
<1>2. \A f \in BestOf(fl, name, pkt) : f.action = best.action
  BY DEF BestOf, Decides
<1>3. QED
  BY <1>1, <1>2 DEF ActionsOf

\* All rows that match have flows, of the priority w and the action act, and
\* every other flow is below them and no higher than d, which is there without.
RowsGovern(fl, name, pkt, rows, w, act, d) ==
    /\ \A r \in rows : Mirror!Matches(r.match, pkt) =>
          \E f \in fl : f.table = name /\ f.match = r.match /\ f.prio = w[r] /\ f.action = act[r]
    /\ (\A r \in rows : ~Mirror!Matches(r.match, pkt)) => d \in fl
    /\ d.table = name /\ Mirror!Matches(d.match, pkt)
    /\ \A f \in fl : f.table = name /\ Mirror!Matches(f.match, pkt) =>
          \/ \E r \in rows : Mirror!Matches(r.match, pkt) /\ f.prio = w[r] /\ f.action = act[r]
          \/ /\ f.prio <= d.prio /\ (d.prio <= f.prio => f.action = d.action)
             /\ f.prio \in Int
             /\ \A r \in rows : Mirror!Matches(r.match, pkt) => ~(w[r] <= f.prio)

(* If the priorities of flows are the weights of rows, the heaviest row decides.*)
LEMMA RowsDecide ==
    ASSUME NEW fl, NEW name, NEW pkt, NEW rows, NEW d, NEW n \in Nat,
           NEW w \in [rows -> 0 .. n], NEW act, RowsGovern(fl, name, pkt, rows, w, act, d)
    PROVE  ActionsOf(fl, name, pkt) = RowActions(rows, w, act, d, pkt)
<1>1. PICK matching : matching = {r \in rows : Mirror!Matches(r.match, pkt)}
  OBVIOUS
<1>2. CASE matching = {}
  <2>1. \A r \in rows : ~Mirror!Matches(r.match, pkt)
    BY <1>1, <1>2
  <2>2. TopRows(rows, w, pkt) = {}
    BY <2>1 DEF TopRows
  <2>3. Decides(fl, name, pkt, d)
    BY <2>1 DEF RowsGovern, Decides
  <2>4. QED
    BY <2>2, <2>3, OneDecides DEF RowActions
<1>3. CASE matching # {}
  <2>1. PICK some : some = {[prio |-> w[r], row |-> r] : r \in matching}
    OBVIOUS
  <2>2. some # {} /\ \A f \in some : f.prio \in 0 .. n
    <3>1. \A r \in matching : w[r] \in 0 .. n
      BY <1>1
    <3>2. ASSUME NEW f \in some PROVE f.prio \in 0 .. n
      <4>1. PICK r \in matching : f = [prio |-> w[r], row |-> r]
        BY <2>1
      <4>2. f.prio = w[r]
        BY <4>1
      <4>3. QED
        BY <3>1, <4>2
    <3>3. some # {}
      BY <1>3, <2>1
    <3>4. QED
      BY <3>2, <3>3
  <2>3. PICK f \in some : \A e \in some : e.prio <= f.prio
    BY <2>2, HighestFlow
  <2>4. PICK top \in matching : f = [prio |-> w[top], row |-> top]
    BY <2>1, <2>3
  <2>5. ASSUME NEW q \in matching PROVE w[q] <= w[top]
    <3>1. [prio |-> w[q], row |-> q] \in some
      BY <2>1
    <3>2. QED
      BY <2>3, <2>4, <3>1
  <2>6. top \in TopRows(rows, w, pkt)
    BY <1>1, <2>4, <2>5 DEF TopRows
  <2>7. \A r \in rows : w[r] \in Nat
    OBVIOUS
  <2>8. ASSUME NEW g \in BestOf(fl, name, pkt)
        PROVE  \E r \in TopRows(rows, w, pkt) : g.action = act[r]
    <3>1. /\ g \in fl /\ g.table = name /\ Mirror!Matches(g.match, pkt)
          /\ \A e \in fl : e.table = name /\ Mirror!Matches(e.match, pkt) => e.prio <= g.prio
      BY <2>8 DEF BestOf
    <3>2. \A r \in rows : Mirror!Matches(r.match, pkt) => w[r] <= g.prio
      BY <3>1 DEF RowsGovern
    <3>3. PICK r \in rows : Mirror!Matches(r.match, pkt) /\ g.prio = w[r] /\ g.action = act[r]
      BY <1>1, <2>4, <3>1, <3>2 DEF RowsGovern
    <3>4. r \in TopRows(rows, w, pkt)
      BY <3>2, <3>3 DEF TopRows
    <3>5. QED
      BY <3>3, <3>4
  <2>9. ASSUME NEW r \in TopRows(rows, w, pkt)
        PROVE  \E g \in BestOf(fl, name, pkt) : g.action = act[r]
    <3>1. /\ r \in rows /\ Mirror!Matches(r.match, pkt)
          /\ \A q \in rows : Mirror!Matches(q.match, pkt) => w[q] <= w[r]
      BY <2>9 DEF TopRows
    <3>2. PICK g \in fl : g.table = name /\ g.match = r.match /\ g.prio = w[r] /\ g.action = act[r]
      BY <3>1 DEF RowsGovern
    <3>3. ASSUME NEW e \in fl, e.table = name, Mirror!Matches(e.match, pkt) PROVE e.prio <= g.prio
      <4>1. CASE \E q \in rows : Mirror!Matches(q.match, pkt) /\ e.prio = w[q] /\ e.action = act[q]
        BY <3>1, <3>2, <4>1
      <4>2. CASE e.prio \in Int /\ ~(w[r] <= e.prio)
        BY <2>7, <3>1, <3>2, <4>2
      <4>3. e.prio \in Int \/ \E q \in rows : Mirror!Matches(q.match, pkt) /\ e.prio = w[q] /\ e.action = act[q]
        BY <3>3 DEF RowsGovern
      <4>4. QED
        BY <3>1, <3>3, <4>1, <4>2, <4>3 DEF RowsGovern
    <3>4. g \in BestOf(fl, name, pkt)
      BY <3>1, <3>2, <3>3 DEF BestOf
    <3>5. QED
      BY <3>2, <3>4
  <2>10. {g.action : g \in BestOf(fl, name, pkt)} = {act[r] : r \in TopRows(rows, w, pkt)}
    BY <2>8, <2>9
  <2>11. QED
    BY <2>6, <2>10 DEF ActionsOf, RowActions
<1>4. QED
  BY <1>2, <1>3

\* Networks, by what they hold.
LEMMA NetworksHold ==
    /\ \A ip \in Ips : Mirror!In(ip, Mirror!Any)
    /\ \A ip, j \in Ips : Mirror!In(ip, Mirror!HostNet(j)) <=> ip = j
    /\ \A ip, x : Mirror!In(ip, Mirror!Net(x)) <=> Mirror!In(ip, x)
    /\ \A src, dst, p : Mirror!Matches(Mirror!Between(src, dst), p) <=>
                         Mirror!In(p.src, src) /\ Mirror!In(p.dst, dst)
<1>1. /\ Flows!AnyNet = Mirror!Any /\ \A j : Flows!HostNet(j) = Mirror!HostNet(j)
  BY DEF Flows!AnyNet, Mirror!Any, Flows!HostNet, Mirror!HostNet
<1>2. \A ip, x : Mirror!In(ip, Mirror!Net(x)) <=> Mirror!In(ip, x)
  BY DEF Mirror!In, Mirror!Net
<1>3. \A src, dst, p : Mirror!Matches(Mirror!Between(src, dst), p) <=>
                       Mirror!In(p.src, src) /\ Mirror!In(p.dst, dst)
  BY DEF Mirror!Matches, Mirror!Between
<1>4. QED
  BY <1>1, <1>2, <1>3, Ends, SameIn

\* The flows of table 2 that a packet meets.
LEMMA RoutingMet ==
    ASSUME NEW v \in Both, NEW ads, NEW rs, NEW fl, NEW n, NEW pkt \in MirrorPackets,
           AddressesApart(v, ads, n), RoutingFit(v, ads, rs, fl),
           NEW f \in fl, f.table = "routing", Mirror!Matches(f.match, pkt)
    PROVE  \/ f.prio = 0
           \/ f = DropAt(v) /\ f.prio = 1 /\ f.action = <<"drop">> /\ NoneDefault(rs)
           \/ \E a \in ads : Mirror!In(pkt.dst, a) /\ f.prio = 2 /\ f.action = <<"controller">>
           \/ \E a \in ads : pkt.dst = a.gw /\ f.prio = 1005 + Span(v) /\ f.action = <<"controller">>
           \/ \E a \in ads : /\ Mirror!In(pkt.src, a) /\ Mirror!In(pkt.dst, a)
                             /\ f.prio = 4 + Span(v) /\ f.action = <<"normal">>
           \/ /\ v = "mirror" /\ f.prio = 3 + Span(v) /\ f.action = <<"out", pkt.dst>>
              /\ \E a \in ads : Mirror!In(pkt.dst, a) /\ f = HostAt(v, a, pkt.dst)
           \/ \E r \in rs : /\ f = RouteAt(v, r) /\ Mirror!Matches(r.match, pkt)
                            /\ f.prio = Weight(v, r.match) /\ f.action = RouteAction(v, r)
<1>1. pkt.src \in Ips /\ pkt.dst \in Ips /\ \A a \in ads : a.gw \in Ips
  BY MirrorsAssumption DEF AddressesApart, AddressRow
<1>3. ASSUME NEW a \in ads, f = MacAt(v, a)
      PROVE  Mirror!In(pkt.dst, a) /\ f.prio = 2 /\ f.action = <<"controller">>
  BY <1>3, RoutingShapes, NetworksHold
<1>4. ASSUME NEW a \in ads, f = PortAt(v, a)
      PROVE  pkt.dst = a.gw /\ f.prio = 1005 + Span(v) /\ f.action = <<"controller">>
  BY <1>1, <1>4, RoutingShapes, NetworksHold
<1>5. ASSUME NEW a \in ads, f = InsideAt(v, a)
      PROVE  /\ Mirror!In(pkt.src, a) /\ Mirror!In(pkt.dst, a)
             /\ f.prio = 4 + Span(v) /\ f.action = <<"normal">>
  BY <1>5, RoutingShapes, NetworksHold
<1>6. ASSUME NEW a \in ads, NEW ip \in Ips, Mirror!In(ip, a), f = HostAt(v, a, ip)
      PROVE  ip = pkt.dst /\ f.prio = 3 + Span(v) /\ f.action = <<"out", pkt.dst>>
  <2>1. f.match = Mirror!Between(Mirror!Any, Mirror!HostNet(ip))
    BY <1>6, RoutingShapes
  <2>2. Mirror!In(pkt.dst, Mirror!HostNet(ip))
    BY <2>1, NetworksHold
  <2>3. ip = pkt.dst
    BY <1>1, <2>2, NetworksHold
  <2>4. QED
    BY <1>6, <2>3, RoutingShapes
<1>7. ASSUME NEW r \in rs, f = RouteAt(v, r)
      PROVE  /\ Mirror!Matches(r.match, pkt) /\ f.prio = Weight(v, r.match)
             /\ f.action = RouteAction(v, r)
  BY <1>7, RoutingShapes
<1>8. \/ v = "mirror" /\ f = NormalTo
      \/ f = DropAt(v) /\ NoneDefault(rs)
      \/ \E a \in ads : f \in {MacAt(v, a), PortAt(v, a), InsideAt(v, a)}
      \/ v = "mirror" /\ \E a \in ads, ip \in Ips : Mirror!In(ip, a) /\ f = HostAt(v, a, ip)
      \/ \E r \in rs : f = RouteAt(v, r)
  BY DEF RoutingFit
<1>9. CASE f = NormalTo \/ (f = DropAt(v) /\ NoneDefault(rs))
  BY <1>9, RoutingShapes
<1>10. CASE \E a \in ads : f \in {MacAt(v, a), PortAt(v, a), InsideAt(v, a)}
  BY <1>3, <1>4, <1>5, <1>10
<1>11. CASE v = "mirror" /\ \E a \in ads, ip \in Ips : Mirror!In(ip, a) /\ f = HostAt(v, a, ip)
  BY <1>6, <1>11
<1>12. CASE \E r \in rs : f = RouteAt(v, r)
  BY <1>7, <1>12
<1>13. QED
  BY <1>8, <1>9, <1>10, <1>11, <1>12

(* Where a packet goes by the tables of the router.                          *)
LearntAt(v, ads, fl, ip) == v = "mirror" /\ \E a \in ads : HostAt(v, a, ip) \in fl

WeightsOf(v, rs) == [r \in rs |-> Weight(v, r.match)]

HopAt(v, ads, rs, fl, pkt) ==
    IF \E a \in ads : a.gw = pkt.dst THEN {<<"controller">>}
    ELSE IF \E a \in ads : Mirror!In(pkt.src, a) /\ Mirror!In(pkt.dst, a) THEN {<<"normal">>}
    ELSE IF \E a \in ads : Mirror!In(pkt.dst, a)
         THEN {IF LearntAt(v, ads, fl, pkt.dst) THEN <<"out", pkt.dst>> ELSE <<"controller">>}
    ELSE IF TopRows(rs, WeightsOf(v, rs), pkt) = {} THEN {<<"drop">>}
    ELSE {RouteAction(v, r) : r \in TopRows(rs, WeightsOf(v, rs), pkt)}

(* The flows of table 2 decide so.                                           *)
LEMMA HopsDecide ==
    ASSUME RowsLeadOut, NEW v \in Both, NEW ads, NEW rs, NEW fl, NEW n, NEW pkt \in MirrorPackets,
           AddressesApart(v, ads, n), RoutesFit(v, rs), RoutingFit(v, ads, rs, fl)
    PROVE  ActionsOf(fl, "routing", pkt) = HopAt(v, ads, rs, fl, pkt)
<1>1. /\ pkt.src \in Ips /\ pkt.dst \in Ips /\ Bits \in Nat /\ Span(v) \in Nat
      /\ \A a \in ads : a.gw \in Ips
  BY MirrorsAssumption, RowNumbers DEF AddressesApart, AddressRow
<1>2. \A r \in rs : /\ r.match \in MirrorRoutes
                    /\ Weight(v, r.match) \in {1} \cup (3 .. 2 + Span(v))
                    /\ Weight(v, r.match) = 1 <=> r.match.dst.len = 0
  BY RowNumbers DEF RoutesFit, RouteRows
<1>3. /\ Mirror!In(pkt.src, Mirror!Any) /\ Mirror!In(pkt.dst, Mirror!Any)
      /\ Mirror!In(pkt.dst, Mirror!HostNet(pkt.dst)) /\ Mirror!Matches(Everything, pkt)
  BY <1>1, NetworksHold DEF Mirror!Matches, Everything
<1>4. /\ \A a \in ads : MacAt(v, a) \in fl /\ PortAt(v, a) \in fl /\ InsideAt(v, a) \in fl
      /\ \A r \in rs : RouteAt(v, r) \in fl
      /\ NoneDefault(rs) => DropAt(v) \in fl
  BY DEF RoutingFit
<1>5. CASE \E a \in ads : a.gw = pkt.dst
  <2>1. PICK a \in ads : a.gw = pkt.dst
    BY <1>5
  <2>2. PICK best : best = PortAt(v, a)
    OBVIOUS
  <2>3. /\ best \in fl /\ best.table = "routing" /\ Mirror!Matches(best.match, pkt)
        /\ best.prio = 1005 + Span(v) /\ best.action = <<"controller">>
    BY <1>3, <1>4, <2>1, <2>2, RoutingShapes, NetworksHold
  <2>4. ASSUME NEW f \in fl, f.table = "routing", Mirror!Matches(f.match, pkt)
        PROVE  f.prio <= best.prio /\ (best.prio <= f.prio => f.action = best.action)
    BY <1>1, <1>2, <2>3, <2>4, RoutingMet
  <2>5. Decides(fl, "routing", pkt, best)
    BY <2>3, <2>4 DEF Decides
  <2>6. QED
    BY <1>5, <2>3, <2>5, OneDecides DEF HopAt
<1>6. ASSUME ~ \E a \in ads : a.gw = pkt.dst,
             \E a \in ads : Mirror!In(pkt.src, a) /\ Mirror!In(pkt.dst, a)
      PROVE  ActionsOf(fl, "routing", pkt) = HopAt(v, ads, rs, fl, pkt)
  <2>1. PICK a \in ads : Mirror!In(pkt.src, a) /\ Mirror!In(pkt.dst, a)
    BY <1>6
  <2>2. PICK best : best = InsideAt(v, a)
    OBVIOUS
  <2>3. /\ best \in fl /\ best.table = "routing" /\ Mirror!Matches(best.match, pkt)
        /\ best.prio = 4 + Span(v) /\ best.action = <<"normal">>
    BY <1>4, <2>1, <2>2, RoutingShapes, NetworksHold
  <2>4. ASSUME NEW f \in fl, f.table = "routing", Mirror!Matches(f.match, pkt)
        PROVE  f.prio <= best.prio /\ (best.prio <= f.prio => f.action = best.action)
    BY <1>1, <1>2, <1>6, <2>3, <2>4, RoutingMet
  <2>5. Decides(fl, "routing", pkt, best)
    BY <2>3, <2>4 DEF Decides
  <2>6. QED
    BY <1>6, <2>3, <2>5, OneDecides DEF HopAt
<1>7. ASSUME ~ \E a \in ads : a.gw = pkt.dst,
             ~ \E a \in ads : Mirror!In(pkt.src, a) /\ Mirror!In(pkt.dst, a),
             \E a \in ads : Mirror!In(pkt.dst, a)
      PROVE  ActionsOf(fl, "routing", pkt) = HopAt(v, ads, rs, fl, pkt)
  <2>1. PICK a \in ads : Mirror!In(pkt.dst, a)
    BY <1>7
  <2>2. PICK x \in AddressesOf(v) : x.start = a.start /\ x.len = a.len
    BY DEF AddressesApart
  <2>3. Mirror!In(pkt.dst, x)
    BY <2>1, <2>2 DEF Mirror!In
  <2>4. ASSUME NEW r \in rs, Mirror!Matches(r.match, pkt) PROVE Weight(v, r.match) = 1
    <3>1. r.match = Everything \/ LeadsOut(r.match, AddressesOf(v))
      BY <1>2 DEF RowsLeadOut, AddressesOf
    <3>2. ~LeadsOut(r.match, AddressesOf(v))
      BY <1>1, <2>3, <2>4 DEF LeadsOut, Mirror!Matches
    <3>3. r.match.dst.len = 0
      BY <3>1, <3>2 DEF Everything, Mirror!Any
    <3>4. QED
      BY <1>2, <3>3
  <2>5. CASE LearntAt(v, ads, fl, pkt.dst)
    <3>1. PICK b \in ads : HostAt(v, b, pkt.dst) \in fl
      BY <2>5 DEF LearntAt
    <3>2. PICK best : best = HostAt(v, b, pkt.dst)
      OBVIOUS
    <3>3. /\ best \in fl /\ best.table = "routing" /\ Mirror!Matches(best.match, pkt)
          /\ best.prio = 3 + Span(v) /\ best.action = <<"out", pkt.dst>>
      BY <1>3, <3>1, <3>2, RoutingShapes, NetworksHold
    <3>4. ASSUME NEW f \in fl, f.table = "routing", Mirror!Matches(f.match, pkt)
          PROVE  f.prio <= best.prio /\ (best.prio <= f.prio => f.action = best.action)
      BY <1>1, <1>2, <1>7, <3>3, <3>4, RoutingMet
    <3>5. Decides(fl, "routing", pkt, best)
      BY <3>3, <3>4 DEF Decides
    <3>6. QED
      BY <1>7, <2>5, <3>3, <3>5, OneDecides DEF HopAt
  <2>6. CASE ~LearntAt(v, ads, fl, pkt.dst)
    <3>1. PICK best : best = MacAt(v, a)
      OBVIOUS
    <3>2. /\ best \in fl /\ best.table = "routing" /\ Mirror!Matches(best.match, pkt)
          /\ best.prio = 2 /\ best.action = <<"controller">>
      BY <1>3, <1>4, <2>1, <3>1, RoutingShapes, NetworksHold
    <3>3. ASSUME NEW f \in fl, f.table = "routing", Mirror!Matches(f.match, pkt)
          PROVE  f.prio <= best.prio /\ (best.prio <= f.prio => f.action = best.action)
      <4>1. ~(v = "mirror" /\ \E b \in ads : f = HostAt(v, b, pkt.dst))
        BY <2>6, <3>3 DEF LearntAt
      <4>2. QED
        BY <1>1, <1>7, <2>4, <3>2, <3>3, <4>1, RoutingMet
    <3>4. Decides(fl, "routing", pkt, best)
      BY <3>2, <3>3 DEF Decides
    <3>5. QED
      BY <1>7, <2>6, <3>2, <3>4, OneDecides DEF HopAt
  <2>7. QED
    BY <2>5, <2>6
<1>8. ASSUME ~ \E a \in ads : a.gw = pkt.dst, ~ \E a \in ads : Mirror!In(pkt.dst, a)
      PROVE  ActionsOf(fl, "routing", pkt) = HopAt(v, ads, rs, fl, pkt)
  <2>1. PICK w, act : /\ w = WeightsOf(v, rs) /\ act = [r \in rs |-> RouteAction(v, r)]
    OBVIOUS
  <2>2. \A r \in rs : w[r] = Weight(v, r.match) /\ act[r] = RouteAction(v, r)
    BY <2>1 DEF WeightsOf
  <2>3. w \in [rs -> 0 .. 2 + Span(v)] /\ 2 + Span(v) \in Nat
    BY <1>1, <1>2, <2>1 DEF WeightsOf
  <2>4. PICK d : d = DropAt(v)
    OBVIOUS
  <2>5. /\ d.table = "routing" /\ d.prio = 1 /\ d.action = <<"drop">>
        /\ Mirror!Matches(d.match, pkt)
    BY <1>3, <2>4, RoutingShapes
  <2>6. ASSUME NEW r \in rs, Mirror!Matches(r.match, pkt)
        PROVE  \E f \in fl : /\ f.table = "routing" /\ f.match = r.match
                             /\ f.prio = w[r] /\ f.action = act[r]
    BY <1>4, <2>2, RoutingShapes
  <2>7. (\A r \in rs : ~Mirror!Matches(r.match, pkt)) => d \in fl
    BY <1>3, <1>4, <2>4 DEF NoneDefault
  <2>8. ASSUME NEW f \in fl, f.table = "routing", Mirror!Matches(f.match, pkt)
        PROVE  \/ \E r \in rs : Mirror!Matches(r.match, pkt) /\ f.prio = w[r] /\ f.action = act[r]
               \/ /\ f.prio <= d.prio /\ (d.prio <= f.prio => f.action = d.action)
                  /\ f.prio \in Int
                  /\ \A r \in rs : Mirror!Matches(r.match, pkt) => ~(w[r] <= f.prio)
    <3>1. \/ f.prio = 0
          \/ f.prio = 1 /\ f.action = <<"drop">> /\ NoneDefault(rs)
          \/ \E r \in rs : /\ Mirror!Matches(r.match, pkt)
                           /\ f.prio = Weight(v, r.match) /\ f.action = RouteAction(v, r)
      BY <1>8, <2>8, RoutingMet
    <3>2. CASE f.prio = 0
      BY <1>2, <2>2, <2>5, <3>2
    <3>3. CASE f.prio = 1 /\ f.action = <<"drop">> /\ NoneDefault(rs)
      <4>1. ASSUME NEW r \in rs PROVE w[r] \in Nat /\ w[r] >= 3
        <5>1. r.match # Everything
          BY <3>3 DEF NoneDefault
        <5>2. r.match.dst.len # 0
          BY <1>2, <5>1 DEF RowsLeadOut
        <5>3. QED
          BY <1>1, <1>2, <2>2, <5>2
      <4>2. QED
        BY <2>5, <3>3, <4>1
    <3>4. CASE \E r \in rs : /\ Mirror!Matches(r.match, pkt)
                             /\ f.prio = Weight(v, r.match) /\ f.action = RouteAction(v, r)
      BY <2>2, <3>4
    <3>5. QED
      BY <3>1, <3>2, <3>3, <3>4
  <2>9. RowsGovern(fl, "routing", pkt, rs, w, act, d)
    BY <2>5, <2>6, <2>7, <2>8 DEF RowsGovern
  <2>10. ActionsOf(fl, "routing", pkt) = RowActions(rs, w, act, d, pkt)
    BY <2>3, <2>9, RowsDecide
  <2>11. {act[r] : r \in TopRows(rs, w, pkt)} = {RouteAction(v, r) : r \in TopRows(rs, w, pkt)}
    <3>1. \A r \in TopRows(rs, w, pkt) : act[r] = RouteAction(v, r)
      BY <2>2 DEF TopRows
    <3>2. QED
      BY <3>1
  <2>12. QED
    BY <1>8, <2>1, <2>5, <2>10, <2>11 DEF HopAt, RowActions
<1>9. QED
  BY <1>5, <1>6, <1>7, <1>8

(* A packet for an internal network is under no mirror: it is not sent as    *)
(* switches do where it is copied.                                           *)
LEMMA CopiesLeadOut ==
    ASSUME RowsLeadOut, MirrorInv, NEW pkt \in MirrorPackets, NEW m \in mirror,
           Mirror!Matches(m.match, pkt)
    PROVE  <<"normal">> \notin Mirror!Hop(pkt)
<1>1. /\ AddressesApart("mirror", mirrorAddress, mirrorNext["address"]) /\ CopyFit(mirror, mirrorFlow)
  BY DEF MirrorInv
<1>2. m.match \in Mirrors /\ LeadsOut(m.match, Addresses) /\ pkt.dst \in Ips
  BY <1>1, MirrorsAssumption DEF CopyFit, StationRow, RowsLeadOut
<1>3. ASSUME NEW a \in mirrorAddress PROVE ~Mirror!In(pkt.dst, a)
  <2>1. PICK x \in Addresses : x.start = a.start /\ x.len = a.len
    BY <1>1 DEF AddressesApart, AddressesOf
  <2>2. ~Mirror!In(pkt.dst, x)
    BY <1>2 DEF LeadsOut, Mirror!Matches
  <2>3. QED
    BY <2>1, <2>2 DEF Mirror!In
<1>4. <<"normal">> # <<"controller">> /\ <<"normal">> # <<"drop">> /\ \A ip : <<"normal">> # <<"out", ip>>
  OBVIOUS
<1>5. QED
  BY <1>3, <1>4 DEF Mirror!Hop, Mirror!AddressOf

\* What the tables say of a packet is what was proved of their flows.
LEMMA MirrorHops ==
    ASSUME RowsLeadOut, MirrorInv, NEW pkt \in MirrorPackets
    PROVE  ActionsOf(mirrorFlow, "routing", pkt) = Mirror!Hop(pkt)
<1>1. /\ AddressesApart("mirror", mirrorAddress, mirrorNext["address"])
      /\ RoutesFit("mirror", mirrorRoute)
      /\ RoutingFit("mirror", mirrorAddress, mirrorRoute, mirrorFlow)
  BY DEF MirrorInv
<1>2. "mirror" \in Both
  BY DEF Both
<1>3. ActionsOf(mirrorFlow, "routing", pkt) =
          HopAt("mirror", mirrorAddress, mirrorRoute, mirrorFlow, pkt)
  BY <1>1, <1>2, HopsDecide
<1>4. PICK w : w = WeightsOf("mirror", mirrorRoute)
  OBVIOUS
<1>5. TopRows(mirrorRoute, w, pkt) = Mirror!Widest(mirrorRoute, pkt)
  <2>1. \A r \in mirrorRoute : /\ r.match.dst.len \in Nat
                               /\ w[r] = IF r.match.dst.len = 0 THEN 1 ELSE 2 + r.match.dst.len
    <3>1. \A r \in mirrorRoute : r.match \in MirrorRoutes
      BY <1>1 DEF RoutesFit, RouteRows
    <3>2. \A r \in mirrorRoute : r.match.dst.len \in Nat
      BY <1>2, <3>1, RowNumbers
    <3>3. \A r \in mirrorRoute :
              Weight("mirror", r.match) = IF r.match.dst.len = 0 THEN 1 ELSE 2 + r.match.dst.len
      BY <3>2 DEF Weight
    <3>4. QED
      BY <1>4, <3>2, <3>3 DEF WeightsOf
  <2>2. \A q, r \in mirrorRoute : w[q] <= w[r] <=> q.match.dst.len <= r.match.dst.len
    BY <2>1
  <2>3. \A r : r \in TopRows(mirrorRoute, w, pkt) <=> r \in Mirror!Widest(mirrorRoute, pkt)
    BY <2>2 DEF TopRows, Mirror!Widest
  <2>4. QED
    BY <2>3
<1>6. LearntAt("mirror", mirrorAddress, mirrorFlow, pkt.dst) <=> Mirror!Learnt(pkt.dst)
  <2>1. \A a \in mirrorAddress : Mirror!HostFlow(a, pkt.dst) = HostAt("mirror", a, pkt.dst)
    BY <1>1, MirrorFlows DEF AddressesApart
  <2>2. QED
    BY <2>1 DEF LearntAt, Mirror!Learnt
<1>7. {RouteAction("mirror", r) : r \in Mirror!Widest(mirrorRoute, pkt)} =
      {IF r.mac THEN <<"out", r.gateway>> ELSE <<"controller">> : r \in Mirror!Widest(mirrorRoute, pkt)}
  BY DEF RouteAction, IsHeard
<1>8. /\ pkt.dst \in Mirror!RouterPorts <=> \E a \in mirrorAddress : a.gw = pkt.dst
      /\ Mirror!AddressOf(pkt.dst) # {} <=> \E a \in mirrorAddress : Mirror!In(pkt.dst, a)
  BY DEF Mirror!RouterPorts, Mirror!AddressOf
<1>9. QED
  BY <1>3, <1>4, <1>5, <1>6, <1>7, <1>8 DEF HopAt, Mirror!Hop

(* Under the invariant the tables do what MirrorThenRoute says.               *)
LEMMA MirrorObeys == RowsLeadOut /\ MirrorInv => Mirror!MirrorThenRoute
<1>1. SUFFICES ASSUME RowsLeadOut, MirrorInv, NEW pkt \in MirrorPackets
               PROVE  Mirror!Outcomes(pkt) =
                        IF Mirror!Widest(mirror, pkt) = {} THEN {<<<<"goto">>, hop>> : hop \in Mirror!Hop(pkt)}
                        ELSE UNION {IF m.mac THEN {<<<<"copy", m.gateway>>, hop>> : hop \in Mirror!Hop(pkt)}
                                    ELSE {<<<<"goto">>, <<"controller">>>>} : m \in Mirror!Widest(mirror, pkt)}
  BY DEF Mirror!MirrorThenRoute
<1>2. CopyFit(mirror, mirrorFlow) /\ mirror \subseteq StationRow /\ pkt.src \in Ips /\ pkt.dst \in Ips
  <2>1. pkt.src \in Ips /\ pkt.dst \in Ips
    BY MirrorsAssumption
  <2>2. CopyFit(mirror, mirrorFlow)
    BY <1>1 DEF MirrorInv
  <2>3. QED
    BY <2>1, <2>2 DEF CopyFit
<1>3. PICK act : act = [m \in mirror |-> CopyFlow(m).action]
  OBVIOUS
<1>4. PICK w : w = [m \in mirror |-> 2 + m.match.dst.len]
  OBVIOUS
<1>5. \A m \in mirror : m.match.dst.len \in Nat /\ w[m] = 2 + m.match.dst.len /\ w[m] \in 0 .. 2 + Bits
  <2>1. \A m \in mirror : m.match \in Mirrors
    BY <1>2 DEF StationRow
  <2>2. "mirror" \in Both
    BY DEF Both
  <2>3. Bits \in Nat /\ \A m \in mirror : m.match.dst.len \in 0 .. Bits
    BY <2>1, <2>2, RowNumbers
  <2>4. QED
    BY <1>4, <2>3
<1>6. w \in [mirror -> 0 .. 2 + Bits] /\ 2 + Bits \in Nat
  BY <1>4, <1>5, PowersAssumption
<1>7. TopRows(mirror, w, pkt) = Mirror!Widest(mirror, pkt)
  <2>1. \A q, m \in mirror : w[q] <= w[m] <=> q.match.dst.len <= m.match.dst.len
    BY <1>5
  <2>2. \A m : m \in TopRows(mirror, w, pkt) <=> m \in Mirror!Widest(mirror, pkt)
    BY <2>1 DEF TopRows, Mirror!Widest
  <2>3. QED
    BY <2>2
<1>8. PICK d : d = Mirror!DefaultMirrorFlow
  OBVIOUS
<1>9. RowsGovern(mirrorFlow, "mirror", pkt, mirror, w, act, d)
  <2>1. /\ d \in mirrorFlow /\ d.table = "mirror" /\ Mirror!Matches(d.match, pkt)
        /\ d.prio = 0 /\ d.action = <<"goto">>
    BY <1>1, <1>2, <1>8, CopyShapes, NetworksHold DEF CopyFit, Mirror!Matches, Everything
  <2>2. ASSUME NEW m \in mirror
        PROVE  \E f \in mirrorFlow : /\ f.table = "mirror" /\ f.match = m.match
                                     /\ f.prio = w[m] /\ f.action = act[m]
    <3>1. /\ CopyFlow(m) \in mirrorFlow /\ CopyFlow(m).table = "mirror"
          /\ CopyFlow(m).match = m.match /\ CopyFlow(m).prio = 2 + m.match.dst.len
      BY <1>1, <1>2, CopyShapes DEF CopyFit
    <3>2. QED
      BY <1>3, <1>5, <3>1
  <2>3. ASSUME NEW f \in mirrorFlow, f.table = "mirror", Mirror!Matches(f.match, pkt)
        PROVE  \/ \E m \in mirror : Mirror!Matches(m.match, pkt) /\ f.prio = w[m] /\ f.action = act[m]
               \/ /\ f.prio <= d.prio /\ (d.prio <= f.prio => f.action = d.action)
                  /\ f.prio \in Int
                  /\ \A m \in mirror : Mirror!Matches(m.match, pkt) => ~(w[m] <= f.prio)
    <3>1. f = d \/ \E m \in mirror : f = CopyFlow(m)
      BY <1>2, <1>8, <2>3 DEF CopyFit
    <3>2. CASE f = d
      BY <1>5, <2>1, <3>2
    <3>3. CASE \E m \in mirror : f = CopyFlow(m)
      <4>1. PICK m \in mirror : f = CopyFlow(m)
        BY <3>3
      <4>2. f.match = m.match /\ f.prio = 2 + m.match.dst.len
        BY <1>1, <1>2, <4>1, CopyShapes
      <4>3. QED
        BY <1>3, <1>5, <2>3, <4>1, <4>2
    <3>4. QED
      BY <3>1, <3>2, <3>3
  <2>4. QED
    BY <2>1, <2>2, <2>3 DEF RowsGovern
<1>10. ActionsOf(mirrorFlow, "mirror", pkt) = RowActions(mirror, w, act, d, pkt)
  BY <1>6, <1>9, RowsDecide
<1>11. PICK acts, hops : acts = ActionsOf(mirrorFlow, "mirror", pkt) /\ hops = Mirror!Hop(pkt)
  OBVIOUS
<1>12. hops = ActionsOf(mirrorFlow, "routing", pkt)
  BY <1>1, <1>11, MirrorHops
<1>13. \A out : out \in Mirror!Outcomes(pkt) <=>
          \E x \in acts :
              \/ x = <<"goto">> /\ \E hop \in hops : out = <<x, hop>>
              \/ x = <<"controller">> /\ out = <<<<"goto">>, <<"controller">>>>
              \/ /\ x # <<"goto">> /\ x # <<"controller">>
                 /\ \E hop \in hops :
                       out = <<x, IF hop = <<"normal">> THEN <<"out", x[2]>> ELSE hop>>
  <2>1. PICK best, next : /\ best = Mirror!Best("mirror", pkt) /\ next = Mirror!Best("routing", pkt)
    OBVIOUS
  <2>2. acts = {f.action : f \in best} /\ hops = {g.action : g \in next}
    BY <1>11, <1>12, <2>1, BestsAgree DEF ActionsOf
  <2>3. <<"controller">> # <<"goto">>
    OBVIOUS
  <2>4. \A out : out \in Mirror!Outcomes(pkt) <=> \E f \in best : out \in Mirror!OnwardFrom(f, pkt)
    BY <2>1 DEF Mirror!Outcomes
  <2>5. \A f, out : out \in Mirror!OnwardFrom(f, pkt) <=>
          \/ f.action = <<"goto">> /\ \E g \in next : out = <<f.action, g.action>>
          \/ f.action = <<"controller">> /\ out = <<<<"goto">>, <<"controller">>>>
          \/ /\ f.action # <<"goto">> /\ f.action # <<"controller">>
             /\ \E g \in next :
                   out = <<f.action, IF g.action = <<"normal">> THEN <<"out", f.action[2]>> ELSE g.action>>
    BY <2>1, <2>3 DEF Mirror!OnwardFrom
  <2>6. \A f \in best : f.action \in acts
    BY <2>2
  <2>7. \A g \in next : g.action \in hops
    BY <2>2
  <2>8. \A x \in acts : \E f \in best : x = f.action
    BY <2>2
  <2>9. \A hop \in hops : \E g \in next : hop = g.action
    BY <2>2
  <2>10. ASSUME NEW out \in Mirror!Outcomes(pkt)
         PROVE  \E x \in acts :
                   \/ x = <<"goto">> /\ \E hop \in hops : out = <<x, hop>>
                   \/ x = <<"controller">> /\ out = <<<<"goto">>, <<"controller">>>>
                   \/ /\ x # <<"goto">> /\ x # <<"controller">>
                      /\ \E hop \in hops :
                            out = <<x, IF hop = <<"normal">> THEN <<"out", x[2]>> ELSE hop>>
    <3>1. PICK f \in best : out \in Mirror!OnwardFrom(f, pkt)
      BY <2>4
    <3>2. PICK x \in acts : x = f.action
      BY <2>6
    <3>3. \/ x = <<"goto">> /\ \E g \in next : out = <<x, g.action>>
          \/ x = <<"controller">> /\ out = <<<<"goto">>, <<"controller">>>>
          \/ /\ x # <<"goto">> /\ x # <<"controller">>
             /\ \E g \in next :
                   out = <<x, IF g.action = <<"normal">> THEN <<"out", x[2]>> ELSE g.action>>
      BY <2>5, <3>1, <3>2
    <3>4. QED
      BY <2>7, <3>3
  <2>11. ASSUME NEW out, NEW x \in acts,
                \/ x = <<"goto">> /\ \E hop \in hops : out = <<x, hop>>
                \/ x = <<"controller">> /\ out = <<<<"goto">>, <<"controller">>>>
                \/ /\ x # <<"goto">> /\ x # <<"controller">>
                   /\ \E hop \in hops :
                         out = <<x, IF hop = <<"normal">> THEN <<"out", x[2]>> ELSE hop>>
         PROVE  out \in Mirror!Outcomes(pkt)
    <3>1. PICK f \in best : x = f.action
      BY <2>8
    <3>2. \/ x = <<"goto">> /\ \E g \in next : out = <<x, g.action>>
          \/ x = <<"controller">> /\ out = <<<<"goto">>, <<"controller">>>>
          \/ /\ x # <<"goto">> /\ x # <<"controller">>
             /\ \E g \in next :
                   out = <<x, IF g.action = <<"normal">> THEN <<"out", x[2]>> ELSE g.action>>
      BY <2>9, <2>11
    <3>3. out \in Mirror!OnwardFrom(f, pkt)
      BY <2>5, <3>1, <3>2
    <3>4. QED
      BY <2>4, <3>3
  <2>12. QED
    BY <2>10, <2>11
<1>14. CASE Mirror!Widest(mirror, pkt) = {}
  <2>1. acts = {<<"goto">>}
    BY <1>1, <1>7, <1>8, <1>10, <1>11, <1>14, CopyShapes DEF RowActions
  <2>2. <<"goto">> # <<"controller">>
    OBVIOUS
  <2>3. \A out : out \in Mirror!Outcomes(pkt) <=> \E hop \in hops : out = <<<<"goto">>, hop>>
    BY <1>13, <2>1, <2>2
  <2>4. QED
    BY <1>11, <1>14, <2>3
<1>15. CASE Mirror!Widest(mirror, pkt) # {}
  <2>1. PICK marked : marked = Mirror!Widest(mirror, pkt)
    OBVIOUS
  <2>2. \A m \in marked : m \in mirror /\ Mirror!Matches(m.match, pkt)
    BY <2>1 DEF Mirror!Widest
  <2>3. <<"normal">> \notin hops
    BY <1>1, <1>11, <1>15, <2>1, <2>2, CopiesLeadOut
  <2>4. \A m \in marked : act[m] = IF m.mac THEN <<"copy", m.gateway>> ELSE <<"controller">>
    BY <1>1, <1>2, <1>3, <2>2, CopyShapes
  <2>5. \A x : x \in acts <=> \E m \in marked : x = act[m]
    BY <1>7, <1>10, <1>11, <1>15, <2>1 DEF RowActions
  <2>6. /\ <<"controller">> # <<"goto">>
        /\ \A s : <<"copy", s>> # <<"goto">> /\ <<"copy", s>> # <<"controller">>
    OBVIOUS
  <2>7. \A out : out \in Mirror!Outcomes(pkt) <=>
            \E m \in marked : out \in IF m.mac THEN {<<<<"copy", m.gateway>>, hop>> : hop \in hops}
                                      ELSE {<<<<"goto">>, <<"controller">>>>}
    <3>1. ASSUME NEW out, out \in Mirror!Outcomes(pkt)
          PROVE  \E m \in marked : out \in IF m.mac THEN {<<<<"copy", m.gateway>>, hop>> : hop \in hops}
                                           ELSE {<<<<"goto">>, <<"controller">>>>}
      <4>1. PICK x \in acts :
              \/ x = <<"goto">> /\ \E hop \in hops : out = <<x, hop>>
              \/ x = <<"controller">> /\ out = <<<<"goto">>, <<"controller">>>>
              \/ /\ x # <<"goto">> /\ x # <<"controller">>
                 /\ \E hop \in hops :
                       out = <<x, IF hop = <<"normal">> THEN <<"out", x[2]>> ELSE hop>>
        BY <1>13, <3>1
      <4>2. PICK m \in marked : x = act[m]
        BY <2>5
      <4>3. CASE m.mac
        <5>1. x = <<"copy", m.gateway>>
          BY <2>4, <4>2, <4>3
        <5>2. PICK hop \in hops : out = <<x, IF hop = <<"normal">> THEN <<"out", x[2]>> ELSE hop>>
          BY <2>6, <4>1, <5>1
        <5>3. out = <<<<"copy", m.gateway>>, hop>>
          BY <2>3, <5>1, <5>2
        <5>4. QED
          BY <4>3, <5>3
      <4>4. CASE ~m.mac
        <5>1. x = <<"controller">>
          BY <2>4, <4>2, <4>4
        <5>2. out = <<<<"goto">>, <<"controller">>>>
          BY <2>6, <4>1, <5>1
        <5>3. QED
          BY <4>4, <5>2
      <4>5. QED
        BY <4>3, <4>4
    <3>2. ASSUME NEW out, NEW m \in marked,
                 out \in IF m.mac THEN {<<<<"copy", m.gateway>>, hop>> : hop \in hops}
                         ELSE {<<<<"goto">>, <<"controller">>>>}
          PROVE  out \in Mirror!Outcomes(pkt)
      <4>1. PICK x : x = act[m] /\ x \in acts
        BY <2>5
      <4>2. CASE m.mac
        <5>1. x = <<"copy", m.gateway>>
          BY <2>4, <4>1, <4>2
        <5>2. PICK hop \in hops : out = <<<<"copy", m.gateway>>, hop>>
          BY <3>2, <4>2
        <5>3. hop # <<"normal">>
          BY <2>3
        <5>4. out = <<x, IF hop = <<"normal">> THEN <<"out", x[2]>> ELSE hop>>
          BY <5>1, <5>2, <5>3
        <5>5. x # <<"goto">> /\ x # <<"controller">>
          BY <2>6, <5>1
        <5>6. QED
          BY <1>13, <4>1, <5>4, <5>5
      <4>3. CASE ~m.mac
        <5>1. x = <<"controller">> /\ out = <<<<"goto">>, <<"controller">>>>
          BY <2>4, <3>2, <4>1, <4>3
        <5>2. QED
          BY <1>13, <4>1, <5>1
      <4>4. QED
        BY <4>2, <4>3
    <3>3. QED
      BY <3>1, <3>2
  <2>8. QED
    BY <1>11, <1>15, <2>1, <2>7
<1>16. QED
  BY <1>14, <1>15

-----------------------------------------------------------------------------
(* The same of the router of Chameleon.                                      *)
LEMMA VfcHops ==
    ASSUME RowsLeadOut, VfcInv, NEW pkt \in MirrorPackets
    PROVE  ActionsOf(mirrorFlow, "routing", pkt) = Vfc!Hop(pkt)
<1>1. /\ AddressesApart("vfc", mirrorAddress, mirrorNext["address"])
      /\ RoutesFit("vfc", mirrorRoute)
      /\ RoutingFit("vfc", mirrorAddress, mirrorRoute, mirrorFlow)
  BY DEF VfcInv
<1>2. "vfc" \in Both /\ "vfc" # "mirror"
  BY DEF Both
<1>3. ActionsOf(mirrorFlow, "routing", pkt) =
          HopAt("vfc", mirrorAddress, mirrorRoute, mirrorFlow, pkt)
  BY <1>1, <1>2, HopsDecide
<1>4. PICK w : w = WeightsOf("vfc", mirrorRoute)
  OBVIOUS
<1>5. TopRows(mirrorRoute, w, pkt) = Vfc!Heaviest(mirrorRoute, pkt)
  <2>1. \A r \in mirrorRoute : w[r] = Vfc!RoutePriority(r.match)
    <3>1. \A r \in mirrorRoute : r.match \in MirrorRoutes
      BY <1>1 DEF RoutesFit, RouteRows
    <3>2. \A r \in mirrorRoute : r.match.dst.len \in Nat /\ r.match.src.len \in Nat
      BY <1>2, <3>1, RowNumbers
    <3>3. \A r \in mirrorRoute : Weight("vfc", r.match) = Vfc!RoutePriority(r.match)
      BY <3>2 DEF Weight, Vfc!RoutePriority, Vfc!DEFAULT_ROUTING, Vfc!STATIC_ROUTING
    <3>4. QED
      BY <1>4, <3>3 DEF WeightsOf
  <2>2. \A r : r \in TopRows(mirrorRoute, w, pkt) <=> r \in Vfc!Heaviest(mirrorRoute, pkt)
    BY <2>1, SameIn DEF TopRows, Vfc!Heaviest
  <2>3. QED
    BY <2>2
<1>6. ~LearntAt("vfc", mirrorAddress, mirrorFlow, pkt.dst)
  BY <1>2 DEF LearntAt
<1>7. {RouteAction("vfc", r) : r \in Vfc!Heaviest(mirrorRoute, pkt)} =
      {IF r.heard THEN <<"out", r.gateway>> ELSE <<"controller">> : r \in Vfc!Heaviest(mirrorRoute, pkt)}
  BY DEF RouteAction, IsHeard
<1>8. /\ pkt.dst \in Vfc!RouterPorts <=> \E a \in mirrorAddress : a.gw = pkt.dst
      /\ Vfc!AddressOf(pkt.dst) # {} <=> \E a \in mirrorAddress : Mirror!In(pkt.dst, a)
      /\ (\E a \in mirrorAddress : Vfc!In(pkt.src, a) /\ Vfc!In(pkt.dst, a)) <=>
            \E a \in mirrorAddress : Mirror!In(pkt.src, a) /\ Mirror!In(pkt.dst, a)
  BY SameIn DEF Vfc!RouterPorts, Vfc!AddressOf
<1>9. QED
  BY <1>3, <1>4, <1>5, <1>6, <1>7, <1>8 DEF HopAt, Vfc!Hop

(* The table of mirrors copies as the rules of the heaviest mirror say.       *)
LEMMA VfcCopies ==
    ASSUME RowsLeadOut, VfcInv, NEW pkt \in MirrorPackets
    PROVE  ActionsOf(mirrorFlow, "mirror", pkt) = Vfc!Copied(pkt)
<1>1. /\ CopiesFit(mirror, mirrorFlow, mirrorNext["mirror"])
      /\ mirror \subseteq VfcStationRow /\ RowsUnique(mirror)
  BY DEF VfcInv, CopiesFit
<1>2. pkt.src \in Ips /\ pkt.dst \in Ips
  BY MirrorsAssumption
<1>3. PICK rows : rows = {m \in mirror : m.copies # Nowhere}
  OBVIOUS
<1>4. PICK w : w = [m \in rows |-> Vfc!RoutePriority(m.match)]
  OBVIOUS
<1>5. PICK act : act = [m \in rows |-> <<"copy", m.copies>>]
  OBVIOUS
<1>6. \A m \in rows : /\ w[m] = Vfc!RoutePriority(m.match) /\ w[m] \in 3 .. 2 + 2 * Bits
                      /\ act[m] = <<"copy", m.copies>> /\ m.match # Everything
                      /\ m \in mirror /\ m.copies # Nowhere
  <2>1. \A m \in rows : m \in VfcStationRow
    BY <1>1, <1>3
  <2>2. \A m \in rows : Vfc!RoutePriority(m.match) \in 3 .. 2 + 2 * Bits /\ m.match.dst.len # 0
    <3>1. \A m \in VfcStationRow : /\ Vfc!MirroringFlow(m).prio = Vfc!RoutePriority(m.match)
                                   /\ Vfc!MirroringFlow(m).prio \in 3 .. 2 + 2 * Bits
                                   /\ m.match.dst.len # 0
      BY VfcCopyShapes
    <3>2. QED
      BY <2>1, <3>1
  <2>3. Everything.dst.len = 0
    BY DEF Everything, Mirror!Any
  <2>4. QED
    BY <1>3, <1>4, <1>5, <2>2, <2>3
<1>7. w \in [rows -> 0 .. 2 + 2 * Bits] /\ 2 + 2 * Bits \in Nat
  <2>1. Bits \in Nat
    BY PowersAssumption
  <2>2. \A m \in rows : w[m] \in 0 .. 2 + 2 * Bits
    BY <1>6, <2>1
  <2>3. QED
    BY <1>4, <2>1, <2>2
<1>8. PICK d : d = Vfc!DefaultMirrorFlow
  OBVIOUS
<1>9. /\ d \in mirrorFlow /\ d.table = "mirror" /\ Mirror!Matches(d.match, pkt)
      /\ d.prio = 0 /\ d.action = <<"goto">> /\ d.match = Everything
  BY <1>1, <1>2, <1>8, VfcCopyShapes, NetworksHold DEF CopiesFit, Mirror!Matches, Everything
<1>10. ASSUME NEW f \in mirrorFlow, f.table = "mirror", f # d
       PROVE  \E m \in rows : f.match = m.match /\ f.prio = w[m] /\ f.action = act[m]
  <2>1. PICK x \in VfcStationRow :
            f = Vfc!MirroringFlow(x) /\ CopiesFor(mirror, x, mirrorNext["mirror"])
    BY <1>1, <1>8, <1>10 DEF CopiesFit
  <2>2. PICK m \in mirror : m.match = x.match /\ m.copies = x.gateway
    BY <2>1 DEF CopiesFor
  <2>3. x.gateway # Nowhere
    BY MirrorsAssumption DEF VfcStationRow
  <2>4. m \in rows
    BY <1>3, <2>2, <2>3
  <2>5. /\ f.match = x.match /\ f.prio = Vfc!RoutePriority(x.match)
        /\ f.action = <<"copy", x.gateway>>
    BY <2>1, VfcCopyShapes
  <2>6. f.match = m.match /\ f.prio = w[m] /\ f.action = act[m]
    BY <1>6, <2>2, <2>4, <2>5
  <2>7. QED
    BY <2>4, <2>6
<1>11. RowsGovern(mirrorFlow, "mirror", pkt, rows, w, act, d)
  <2>1. ASSUME NEW m \in rows
        PROVE  \E f \in mirrorFlow : /\ f.table = "mirror" /\ f.match = m.match
                                     /\ f.prio = w[m] /\ f.action = act[m]
    <3>1. PICK f \in mirrorFlow : f.table = "mirror" /\ f.match = m.match
      BY <1>1, <1>6 DEF CopiesFit
    <3>2. f # d
      BY <1>6, <1>9, <3>1
    <3>3. PICK k \in rows : f.match = k.match /\ f.prio = w[k] /\ f.action = act[k]
      BY <1>10, <3>1, <3>2
    <3>4. k = m
      BY <1>1, <1>6, <3>1, <3>3 DEF RowsUnique
    <3>5. QED
      BY <3>1, <3>3, <3>4
  <2>2. ASSUME NEW f \in mirrorFlow, f.table = "mirror", Mirror!Matches(f.match, pkt)
        PROVE  \/ \E m \in rows : Mirror!Matches(m.match, pkt) /\ f.prio = w[m] /\ f.action = act[m]
               \/ /\ f.prio <= d.prio /\ (d.prio <= f.prio => f.action = d.action)
                  /\ f.prio \in Int
                  /\ \A m \in rows : Mirror!Matches(m.match, pkt) => ~(w[m] <= f.prio)
    <3>1. CASE f = d
      <4>1. \A m \in rows : ~(w[m] <= 0)
        BY <1>6
      <4>2. QED
        BY <1>9, <3>1, <4>1
    <3>2. CASE f # d
      <4>1. PICK m \in rows : f.match = m.match /\ f.prio = w[m] /\ f.action = act[m]
        BY <1>10, <2>2, <3>2
      <4>2. QED
        BY <2>2, <4>1
    <3>3. QED
      BY <3>1, <3>2
  <2>3. QED
    BY <1>9, <2>1, <2>2 DEF RowsGovern
<1>12. ActionsOf(mirrorFlow, "mirror", pkt) = RowActions(rows, w, act, d, pkt)
  BY <1>7, <1>11, RowsDecide
<1>13. TopRows(rows, w, pkt) = Vfc!Heaviest(rows, pkt)
  <2>1. \A m : m \in TopRows(rows, w, pkt) <=> m \in Vfc!Heaviest(rows, pkt)
    BY <1>6, SameIn DEF TopRows, Vfc!Heaviest
  <2>2. QED
    BY <2>1
<1>14. {act[m] : m \in TopRows(rows, w, pkt)} = {<<"copy", m.copies>> : m \in Vfc!Heaviest(rows, pkt)}
  <2>1. \A m \in TopRows(rows, w, pkt) : act[m] = <<"copy", m.copies>>
    BY <1>6 DEF TopRows
  <2>2. QED
    BY <1>13, <2>1
<1>15. QED
  BY <1>3, <1>9, <1>12, <1>13, <1>14 DEF RowActions, Vfc!Copied

(* Under the invariant the tables at Chameleon do what MirrorThenRoute says.  *)
LEMMA VfcObeys == RowsLeadOut /\ VfcInv => Vfc!MirrorThenRoute
<1>1. SUFFICES ASSUME RowsLeadOut, VfcInv, NEW pkt \in MirrorPackets
               PROVE  Vfc!Outcomes(pkt) = {Vfc!Onward(copy, hop) : copy \in Vfc!Copied(pkt),
                                                                   hop \in Vfc!Hop(pkt)}
  BY DEF Vfc!MirrorThenRoute
<1>2. PICK copies, hops : copies = Vfc!Copied(pkt) /\ hops = Vfc!Hop(pkt)
  OBVIOUS
<1>3. PICK best, next : best = Vfc!Best("mirror", pkt) /\ next = Vfc!Best("routing", pkt)
  OBVIOUS
<1>4. copies = {f.action : f \in best} /\ hops = {g.action : g \in next}
  BY <1>1, <1>2, <1>3, VfcCopies, VfcHops, BestsAgree DEF ActionsOf
<1>5. {Vfc!Onward(f.action, g.action) : f \in best, g \in next} =
      {Vfc!Onward(copy, hop) : copy \in copies, hop \in hops}
  <2>1. /\ \A f \in best : f.action \in copies
        /\ \A g \in next : g.action \in hops
        /\ \A copy \in copies : \E f \in best : copy = f.action
        /\ \A hop \in hops : \E g \in next : hop = g.action
    BY <1>4
  <2>2. ASSUME NEW out \in {Vfc!Onward(f.action, g.action) : f \in best, g \in next}
        PROVE  out \in {Vfc!Onward(copy, hop) : copy \in copies, hop \in hops}
    <3>1. PICK f \in best, g \in next : out = Vfc!Onward(f.action, g.action)
      OBVIOUS
    <3>2. QED
      BY <2>1, <3>1
  <2>3. ASSUME NEW out \in {Vfc!Onward(copy, hop) : copy \in copies, hop \in hops}
        PROVE  out \in {Vfc!Onward(f.action, g.action) : f \in best, g \in next}
    <3>1. PICK copy \in copies, hop \in hops : out = Vfc!Onward(copy, hop)
      OBVIOUS
    <3>2. PICK f \in best, g \in next : copy = f.action /\ hop = g.action
      BY <2>1
    <3>3. QED
      BY <3>1, <3>2
  <2>4. QED
    BY <2>2, <2>3
<1>6. QED
  BY <1>2, <1>3, <1>5 DEF Vfc!Outcomes

(* A packet for an internal network goes to its address or to its hosts, one  *)
(* that leaves follows a heaviest route, and it is copied as the rules of its *)
(* heaviest mirror say, at both mirroring routers: as long as routes and      *)
(* mirrors lead out of the internal networks, and there are so few ids that   *)
(* cookies tell the kinds of rows apart.                                      *)
THEOREM MirrorsThenRoutes ==
    ASSUME RowsLeadOut
    PROVE  Spec => []MirrorThenRoute
<1> DEFINE Inv == /\ part = "mirror" => MirrorInv
                  /\ part = "vfc" => VfcInv
<1>1. Init => Inv
  BY MirrorStarts, VfcStarts, RowsLeadOut DEF Init, MirrorInit
<1>2. Inv /\ [Next]_vars => Inv'
  BY Separate, MirrorStep, VfcStep, RowsLeadOut
<1>3. Inv => MirrorThenRoute
  BY MirrorObeys, VfcObeys, RowsLeadOut DEF MirrorThenRoute
<1>4. QED
  BY <1>1, <1>2, <1>3, PTL DEF Spec
=============================================================================
