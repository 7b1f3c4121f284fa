----------------------------- MODULE IngressRouter -----------------------------
(***************************************************************************)
(* The three tables of a switch at the edge (ingress_router.py): a packet  *)
(* passes the filters, is mirrored, and is routed.  Rows of the three      *)
(* kinds give their flows cookies with different offsets, and a deletion   *)
(* finds its flows among all flows of the switch by decoding cookies.      *)
(*                                                                         *)
(* The router of VLAN 0, with an address that every gateway is in, and one *)
(* client, which waits for the answer to each request.  A prefix is        *)
(* [start, len]; len 0 stands for a field that is not matched.  Statistics *)
(* are those of OpenFlow 1.2, of all tables; under 1.3 the application     *)
(* asks for table 0 alone, and only filters could be found and deleted.    *)
(***************************************************************************)
EXTENDS Integers, FiniteSets

CONSTANTS
    Bits,         \* bits of an IP address
    AnyPort,      \* -1: a filter of every port
    Filters,      \* matches of filters: [port, src, dst]
    Routes,       \* matches of routes: [port: AnyPort, src, dst]
    Mirrors,      \* matches of mirrors
    Gateways,     \* addresses of gateways
    Stations,     \* the gateways that mirrors copy to
    Packets,      \* bound: the packets of the exploration: [port, src, dst]
    FirstMirror,  \* the mirror_id of the first mirror
    Wipes,        \* whether clients delete {"route_id": "all"} and the like
    MaxIds        \* bound: filters, routes and mirrors that are posted

VARIABLES
    filters,      \* filter_tbl: [match, id, accept]
    routes,       \* routing_tbl: [match, id, gateway, mac]
    mirrors,      \* mirroring_tbl: [match, id, gateway]
    known,        \* gateways whose MAC and port are in ip_mac and mac_port
    flow,         \* the flows of the switch
    next,         \* per kind, the id of the next row
    request       \* a deletion that has the flows it will delete

vars == <<filters, routes, mirrors, known, flow, next, request>>

Kinds == {"filter", "mirror", "route"}
NoMac == 0
EveryPacket == [port |-> AnyPort, src |-> [start |-> 0, len |-> 0], dst |-> [start |-> 0, len |-> 0]]

In(ip, net) == ip - (ip % 2 ^ (Bits - net.len)) = net.start

Matches(match, pkt) ==
    /\ match.port \in {AnyPort, pkt.port}
    /\ In(pkt.src, match.src) /\ In(pkt.dst, match.dst)

-----------------------------------------------------------------------------
(* Cookies: FILTER_COOKIE_OFFSET and its like, and COOKIE_SHIFT_ROUTEID.     *)
Offset == [filter |-> 1000000, mirror |-> 2000000, route |-> 3000000]
Shift == 65536

IdToCookie(kind, id) == id * Shift + Offset[kind]

\* (cookie - offset & UINT32_MAX) >> 16
CookieToId(kind, cookie) == ((cookie - Offset[kind]) \div Shift) % Shift

-----------------------------------------------------------------------------
(* Flows.  Priorities count the bits that are matched, of source and         *)
(* destination together; a port does not count.                              *)
DEFAULT_FLOW == 0
DEFAULT_ROUTING == 1
STATIC_ROUTING == 2

\* A mutation: only the destination counts.
FilterPriorityOfDst(match) == STATIC_ROUTING + match.dst.len

FilterPriority(match) == STATIC_ROUTING + match.src.len + match.dst.len

RoutePriority(match) ==
    IF match.src.len + match.dst.len = 0 THEN DEFAULT_ROUTING ELSE FilterPriority(match)

Flow(kind, id, prio, match, action) ==
    [table |-> kind, cookie |-> IdToCookie(kind, id), prio |-> prio, match |-> match,
     action |-> action]

With(flows, new) ==
    {f \in flows : \A g \in new :
        <<f.table, f.prio, f.match>> # <<g.table, g.prio, g.match>>} \cup new

FilterFlow(f) ==
    Flow("filter", f.id, FilterPriority(f.match), f.match,
         IF f.accept THEN <<"goto">> ELSE <<"drop">>)
PacketInFlow(r) == Flow("route", r.id, RoutePriority(r.match), r.match, <<"controller">>)
RoutingFlow(r) == Flow("route", r.id, RoutePriority(r.match), r.match, <<"out", r.gateway>>)
MirrorFlow(m) == Flow("mirror", m.id, RoutePriority(m.match), m.match, <<"copy", m.gateway>>)

DefaultFilterFlow == Flow("filter", 0, DEFAULT_FLOW, EveryPacket, <<"goto">>)
DefaultMirrorFlow == Flow("mirror", 0, DEFAULT_FLOW, EveryPacket, <<"goto">>)
DropFlow == Flow("route", 0, DEFAULT_ROUTING, EveryPacket, <<"drop">>)

-----------------------------------------------------------------------------
Idle == [kind |-> "none", flows |-> {}]
Without(rows, match) == {r \in rows : r.match # match}
Counted(kind) == next' = [next EXCEPT ![kind] = @ + 1]

(* A filter that is posted again keeps its id, with the new verdict: it is   *)
(* never found to exist.                                                     *)
SetFilter(match, accept) ==
    LET old == {f \in filters : f.match = match}
        new == [match |-> match, accept |-> accept,
                id |-> IF old = {} THEN next["filter"] ELSE (CHOOSE f \in old : TRUE).id] IN
    /\ request = Idle /\ new.id <= MaxIds
    /\ filters' = Without(filters, match) \cup {new}
    /\ flow' = With(flow, {FilterFlow(new)})
    /\ IF old = {} THEN Counted("filter") ELSE UNCHANGED next
    /\ UNCHANGED <<routes, mirrors, known, request>>

(* A route replaces the one of the same match, under a new id.  It is in use *)
(* at once, with the others over the gateway, when the gateway is known.     *)
SetRoute(match, gw) ==
    LET new == [match |-> match, id |-> next["route"], gateway |-> gw,
                mac |-> IF gw \in known THEN gw ELSE NoMac]
        others == Without(routes, match)
        over == {r \in others : gw \in known /\ r.gateway = gw /\ r.mac # gw} IN
    /\ request = Idle /\ new.id <= MaxIds
    /\ routes' = (others \ over) \cup {new} \cup {[r EXCEPT !.mac = gw] : r \in over}
    /\ flow' = With(flow, IF gw \in known THEN {RoutingFlow(r) : r \in over \cup {new}}
                                          ELSE {PacketInFlow(new)})
    /\ Counted("route")
    /\ UNCHANGED <<filters, mirrors, known, request>>

SetMirror(match, gw) ==
    LET new == [match |-> match, id |-> next["mirror"], gateway |-> gw] IN
    /\ request = Idle /\ new.id < FirstMirror + MaxIds
    /\ mirrors' = Without(mirrors, match) \cup {new}
    /\ Counted("mirror")
    /\ UNCHANGED <<filters, routes, known, flow, request>>

(* An ARP packet of a gateway.  Routes over it are completed.  A mirror over *)
(* it is entered as a MAC of the route that matches the same packets; where  *)
(* there is none, KeyError ends the handler, after some of the mirrors.      *)
UpdateRoutingTbl(gw) ==
    {IF r.gateway = gw THEN [r EXCEPT !.mac = gw] ELSE r : r \in routes}

UpdateMirroringTbl(rows, done, gw) ==
    {IF \E m \in done : m.match = r.match THEN [r EXCEPT !.mac = gw] ELSE r : r \in rows}

(* The gateway is remembered when it asks for, or answers, the router itself. *)
ArpIn(gw, toRouter) ==
    LET over == {r \in routes : r.gateway = gw /\ r.mac # gw}
        copies == {m \in mirrors : m.gateway = gw}
        sound == {m \in copies : \E r \in routes : r.match = m.match} IN
    \E done \in IF sound = copies THEN {copies} ELSE SUBSET sound :
        /\ routes' = UpdateMirroringTbl(UpdateRoutingTbl(gw), done, gw)
        /\ flow' = With(flow, {RoutingFlow(r) : r \in over} \cup {MirrorFlow(m) : m \in done})
        /\ known' = IF sound = copies /\ toRouter THEN known \cup {gw} ELSE known
        /\ UNCHANGED <<filters, mirrors, next, request>>

-----------------------------------------------------------------------------
(* Deletions: by id, or of all flows whose cookie does not decode to 0.      *)
(* Filters by id are not: _delete_fltr reads a name that is not defined.     *)
Chosen(kind, id, f) ==
    LET found == CookieToId(kind, f.cookie) IN IF id = 0 THEN found # 0 ELSE found = id

\* The switch answers with its flows, or with some of them within the wait.
AskDelete(kind, id) ==
    /\ request = Idle
    /\ id = 0 => Wipes
    /\ \E some \in SUBSET {f \in flow : Chosen(kind, id, f)} :
          /\ some # {}
          /\ request' = [kind |-> kind, flows |-> some]
    /\ UNCHANGED <<filters, routes, mirrors, known, flow, next>>

FlowsWithout(flows) ==
    {f \in flow : \A g \in flows : g.cookie # f.cookie \/ g.table # f.table}

Delete ==
    LET ids == {CookieToId(request.kind, f.cookie) : f \in request.flows}
        Rest(kind, rows) == IF request.kind = kind THEN {r \in rows : r.id \notin ids} ELSE rows
        drops == request.kind # "filter" /\ \E f \in request.flows : f.prio = DEFAULT_ROUTING IN
    /\ request # Idle
    /\ flow' = With(FlowsWithout(request.flows), IF drops THEN {DropFlow} ELSE {})
    /\ filters' = Rest("filter", filters)
    /\ mirrors' = Rest("mirror", mirrors)
    /\ routes' = Rest("route", routes)
    /\ request' = Idle
    /\ UNCHANGED <<known, next>>

-----------------------------------------------------------------------------
Init ==
    /\ filters = {} /\ routes = {} /\ mirrors = {} /\ known = {}
    /\ flow = {DefaultFilterFlow, DefaultMirrorFlow, DropFlow}
    /\ next = [k \in Kinds |-> IF k = "mirror" THEN FirstMirror ELSE 1]
    /\ request = Idle

Next ==
    \/ \E match \in Filters, accept \in BOOLEAN : SetFilter(match, accept)
    \/ \E match \in Routes, gw \in Gateways : SetRoute(match, gw)
    \/ \E match \in Mirrors, gw \in Stations : SetMirror(match, gw)
    \/ \E gw \in Gateways, toRouter \in BOOLEAN : ArpIn(gw, toRouter)
    \/ \E r \in routes : AskDelete("route", r.id)
    \/ \E m \in mirrors : AskDelete("mirror", m.id)
    \/ \E kind \in Kinds : AskDelete(kind, 0)
    \/ Delete

Spec == Init /\ [][Next]_vars

-----------------------------------------------------------------------------
(* The flows that may decide about a packet in a table.                      *)
Best(table, pkt) ==
    LET matching == {f \in flow : f.table = table /\ Matches(f.match, pkt)} IN
    {f \in matching : \A g \in matching : g.prio <= f.prio}

(* What the switch may do with a packet; a table without a flow for it drops. *)
Verdicts(table, pkt) ==
    LET best == Best(table, pkt) IN
    IF best = {} THEN {<<"drop">>} ELSE {f.action : f \in best}

Outcomes(pkt) ==
    LET filtered == Verdicts("filter", pkt)
        mirrored == Verdicts("mirror", pkt) IN
    (IF <<"drop">> \in filtered \cup mirrored THEN {<<"drop">>} ELSE {})
    \cup
    (IF <<"goto">> \in filtered /\ mirrored # {<<"drop">>} THEN Verdicts("route", pkt) ELSE {})

(* What the tables of the router say.                                        *)
Heaviest(rows, pkt) ==
    LET Weight(r) == r.match.src.len + r.match.dst.len
        matching == {r \in rows : Matches(r.match, pkt)} IN
    {r \in matching : \A q \in matching : Weight(q) <= Weight(r)}

Accepted(pkt) == LET best == Heaviest(filters, pkt) IN best = {} \/ \E f \in best : f.accept
Refused(pkt) == \E f \in Heaviest(filters, pkt) : ~f.accept

(* A packet that the filters refuse goes nowhere; one that they accept goes   *)
(* to the gateway of its route, to the controller while that is not known, or *)
(* is dropped for want of a route.                                            *)
FilterThenRoute ==
    \A pkt \in Packets : \A out \in Outcomes(pkt) :
        \/ Refused(pkt) /\ out = <<"drop">>
        \/ /\ Accepted(pkt)
           /\ LET best == Heaviest(routes, pkt) IN
              IF best = {} THEN out = <<"drop">>
              ELSE \E r \in best : out \in {<<"controller">>, <<"out", r.gateway>>}
=============================================================================
