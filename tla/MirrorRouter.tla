----------------------------- MODULE MirrorRouter ------------------------------
(***************************************************************************)
(* The router that the deployed controller runs beside the QoS application *)
(* (sdnctrl/rest_router_mirror.py).  Table 0 of the switch is the QoS      *)
(* application's, which passes every packet to table 1; there packets are  *)
(* copied to mirror stations, and table 2 routes them.                     *)
(*                                                                         *)
(* Statistics are asked of table 0 only, so a deletion sees the flows of   *)
(* the QoS application and takes their cookies for its own: an address can *)
(* be deleted when there is a QoS rule with its number, a route never.     *)
(*                                                                         *)
(* The router of VLAN 0, and one client, which always posts a source (a    *)
(* request without one names a default that is not defined, and fails).    *)
(* MACs are named by the IP that has them; a station keeps its MAC.        *)
(***************************************************************************)
EXTENDS Integers, FiniteSets

CONSTANTS
    Bits,        \* bits of an IP address
    Addresses,   \* what may be posted: [start, len, gw], gw the router's own IP
    Routes,      \* matches of routes: [src, dst], prefixes
    Mirrors,     \* matches of mirrors
    Gateways,    \* the gateways of routes
    Stations,    \* where mirrors send their copies
    Hosts,       \* IPs that answer and send ARP
    Packets,     \* bound: the packets of the exploration: [src, dst]
    QosIds,      \* the rules of the QoS application, by their ids
    MaxWaiting,  \* MAX_SUSPENDPACKETS
    MaxIds       \* bound: addresses, routes and mirrors that are posted

VARIABLES
    address,     \* address_data: [start, len, gw, id]
    route,       \* routing_tbl: [match, id, gateway, mac], mac whether it is known
    mirror,      \* mirroring_tbl
    flow,        \* the flows of tables 1 and 2
    next,        \* address_id and the two route_ids
    waiting      \* destinations of the packets in packet_buffer

vars == <<address, route, mirror, flow, next, waiting>>

Any == [start |-> 0, len |-> 0]
HostNet(ip) == [start |-> ip, len |-> Bits]
Net(a) == [start |-> a.start, len |-> a.len]

ApplyMask(ip, len) == ip - (ip % 2 ^ (Bits - len))
In(ip, net) == ApplyMask(ip, net.len) = net.start
Between(src, dst) == [src |-> src, dst |-> dst]
Matches(match, pkt) == In(pkt.src, match.src) /\ In(pkt.dst, match.dst)

-----------------------------------------------------------------------------
(* Priorities: only the destination of a route counts, and one for any       *)
(* destination has the priority of the flow that drops.                      *)
NORMAL == 0
DEFAULT_ROUTING == 1
MAC_LEARNING == 2
STATIC_ROUTING == 2
IMPLICIT_ROUTING == 3
L2_SWITCHING == 4
IP_HANDLING == 5

Priority(type) ==
    type + (IF type = IP_HANDLING THEN 1000 ELSE 0)
         + (IF type > STATIC_ROUTING THEN Bits ELSE 0)

RoutePriority(match) ==
    IF match.dst.len = 0 THEN DEFAULT_ROUTING ELSE STATIC_ROUTING + match.dst.len

(* Cookies, in VLAN 0: the id of an address; a route's or mirror's, shifted. *)
Shift == 65536
RouteCookie(id) == id * Shift
CookieToRoute(cookie) == cookie \div Shift

-----------------------------------------------------------------------------
(* Flows.  One that is added replaces that of the same match and priority.   *)
Flow(table, cookie, prio, match, action) ==
    [table |-> table, cookie |-> cookie, prio |-> prio, match |-> match, action |-> action]

With(flows, new) ==
    {f \in flows : \A g \in new :
        <<f.table, f.prio, f.match>> # <<g.table, g.prio, g.match>>} \cup new

Mirroring(cookie, prio, match, action) == Flow("mirror", cookie, prio, match, action)
Routing(cookie, prio, match, action) == Flow("routing", cookie, prio, match, action)

DefaultMirrorFlow == Mirroring(0, 0, Between(Any, Any), <<"goto">>)
NormalFlow == Routing(0, NORMAL, Between(Any, Any), <<"normal">>)
DropFlow == Routing(0, DEFAULT_ROUTING, Between(Any, Any), <<"drop">>)

AddressFlows(a) ==
    {Routing(a.id, Priority(MAC_LEARNING), Between(Any, Net(a)), <<"controller">>),
     Routing(a.id, Priority(IP_HANDLING), Between(Any, HostNet(a.gw)), <<"controller">>),
     Routing(a.id, Priority(L2_SWITCHING), Between(Net(a), Net(a)), <<"normal">>)}

PacketInFlow(r) ==
    Routing(RouteCookie(r.id), RoutePriority(r.match), r.match, <<"controller">>)
RoutingFlow(r) ==
    Routing(RouteCookie(r.id), RoutePriority(r.match), r.match, <<"out", r.gateway>>)
MirrorPacketInFlow(m) ==
    Mirroring(RouteCookie(m.id), RoutePriority(m.match), m.match, <<"controller">>)
MirroringFlow(m) ==
    Mirroring(RouteCookie(m.id), RoutePriority(m.match), m.match, <<"copy", m.gateway>>)
HostFlow(a, ip) ==
    Routing(a.id, Priority(IMPLICIT_ROUTING), Between(Any, HostNet(ip)), <<"out", ip>>)

-----------------------------------------------------------------------------
AddressOf(ip) == {a \in address : In(ip, a)}
RouterPorts == {a.gw : a \in address}
GatewaysOf(rows) == {r.gateway : r \in rows}
Counted(kind) == next[kind] <= MaxIds /\ next' = [next EXCEPT ![kind] = @ + 1]

SetAddress(a) ==
    LET new == [start |-> a.start, len |-> a.len, gw |-> a.gw, id |-> next["address"]] IN
    /\ \A b \in address : ~In(a.gw, b) /\ ~In(b.gw, a)
    /\ Counted("address")
    /\ address' = address \cup {new}
    /\ flow' = With(flow, AddressFlows(new))
    /\ UNCHANGED <<route, mirror, waiting>>

(* A row is entered under its match, over the one that was there, and its    *)
(* MAC has to be heard again.                                                *)
NewRow(kind, match, gw) == [match |-> match, id |-> next[kind], gateway |-> gw, mac |-> FALSE]
Entered(rows, new) == {r \in rows : r.match # new.match} \cup {new}

Reachable(gw) == AddressOf(gw) # {} /\ gw \notin RouterPorts

SetRoute(match, gw) ==
    LET new == NewRow("route", match, gw) IN
    /\ Reachable(gw)
    /\ Counted("route")
    /\ route' = Entered(route, new)
    /\ flow' = With(flow, {PacketInFlow(new)})
    /\ UNCHANGED <<address, mirror, waiting>>

\* A mutation: the flow of a new mirror goes where all others go.
SetMirrorInRouting(match, station) ==
    LET new == NewRow("mirror", match, station) IN
    /\ Reachable(station)
    /\ Counted("mirror")
    /\ mirror' = Entered(mirror, new)
    /\ flow' = With(flow, {PacketInFlow(new)})
    /\ UNCHANGED <<address, route, waiting>>

SetMirror(match, station) ==
    LET new == NewRow("mirror", match, station) IN
    /\ Reachable(station)
    /\ Counted("mirror")
    /\ mirror' = Entered(mirror, new)
    /\ flow' = With(flow, {MirrorPacketInFlow(new)})
    /\ UNCHANGED <<address, route, waiting>>

-----------------------------------------------------------------------------
(* The cookies that an answer of table 0 shows: the QoS application's        *)
(* default flow and its rules.  An answer that is late shows none of them,   *)
(* and then a deletion does nothing.                                         *)
Shown == {0} \cup QosIds

\* Addresses with the gateway of a route in them are skipped; a mirror does not count.
Skipped(id) == \E g \in GatewaysOf(route) : \E a \in AddressOf(g) : a.id = id

FlowsWithout(cookies) == {f \in flow : f.table = "mirror" \/ f.cookie \notin cookies}

DeleteAddress(id) ==
    LET gone == {a \in address : a.id = id} IN
    /\ id \in Shown /\ ~Skipped(id)
    /\ address' = address \ gone
    /\ flow' = FlowsWithout({id})
    /\ waiting' = {ip \in waiting : \A a \in gone : ~In(ip, a)}
    /\ UNCHANGED <<route, mirror, next>>

DeleteRoute(id) ==
    LET found == {c \in Shown : CookieToRoute(c) = id} IN
    /\ route' = {r \in route : found = {} \/ r.id # id}
    /\ flow' = FlowsWithout(found)
    /\ UNCHANGED <<address, mirror, next, waiting>>

-----------------------------------------------------------------------------
(* What the switch may do with a packet.  A flow that copies it also gives   *)
(* it the MAC of the station, by which a flow for internal networks then     *)
(* forwards it.                                                              *)
Best(table, pkt) ==
    LET matching == {f \in flow : f.table = table /\ Matches(f.match, pkt)} IN
    {f \in matching : \A g \in matching : g.prio <= f.prio}

OnwardFrom(f, pkt) ==
    IF f.action = <<"goto">> THEN {<<f.action, g.action>> : g \in Best("routing", pkt)}
    ELSE IF f.action = <<"controller">> THEN {<<<<"goto">>, f.action>>}
    ELSE {<<f.action, IF g.action = <<"normal">> THEN <<"out", f.action[2]>> ELSE g.action>> :
             g \in Best("routing", pkt)}

(* Pairs: whether and where it is copied, and where it goes.                 *)
Outcomes(pkt) == UNION {OnwardFrom(f, pkt) : f \in Best("mirror", pkt)}

(* A packet at the controller waits for the MAC of a host, or of the gateway *)
(* of the longest route to its destination from whatever source.  The        *)
(* default route is looked up under a name that no row has.                  *)
LongestTo(ip) ==
    {r \in route : /\ r.match.dst.len > 0 /\ In(ip, r.match.dst)
                   /\ \A q \in route : In(ip, q.match.dst) => q.match.dst.len <= r.match.dst.len}

PacketIn(pkt) ==
    /\ \E out \in Outcomes(pkt) : out[2] = <<"controller">>
    /\ pkt.dst \notin RouterPorts /\ pkt.dst \notin waiting
    /\ Cardinality(waiting) < MaxWaiting
    /\ AddressOf(pkt.dst) # {} \/ \E r \in LongestTo(pkt.dst) : AddressOf(r.gateway) # {}
    /\ waiting' = waiting \cup {pkt.dst}
    /\ UNCHANGED <<address, route, mirror, flow, next>>

Timeout(ip) ==
    /\ waiting' = waiting \ {ip}
    /\ UNCHANGED <<address, route, mirror, flow, next>>

-----------------------------------------------------------------------------
(* An ARP packet of ip: the routes over it are completed; or else, if there  *)
(* are none, the mirrors to it; or else the host is learnt.  A reply to the  *)
(* router releases what waits for this very ip, through all tables again.    *)
Heard(rows, ip) == {IF r.gateway = ip THEN [r EXCEPT !.mac = TRUE] ELSE r : r \in rows}
Unheard(rows, ip) == {r \in rows : r.gateway = ip /\ ~r.mac}

Released(ip, reply) == waiting' = IF reply THEN waiting \ {ip} ELSE waiting

UpdateRoutingTbl(ip) ==
    /\ ip \in GatewaysOf(route)
    /\ route' = Heard(route, ip)
    /\ flow' = With(flow, {RoutingFlow(r) : r \in Unheard(route, ip)})
    /\ UNCHANGED mirror

UpdateMirroringTbl(ip) ==
    /\ ip \in GatewaysOf(mirror) \ GatewaysOf(route)
    /\ mirror' = Heard(mirror, ip)
    /\ flow' = With(flow, {MirroringFlow(m) : m \in Unheard(mirror, ip)})
    /\ UNCHANGED route

LearningHostMac(ip) ==
    /\ ip \notin GatewaysOf(mirror) \cup GatewaysOf(route)
    /\ flow' = With(flow, {HostFlow(a, ip) : a \in AddressOf(ip)})
    /\ UNCHANGED <<route, mirror>>

ArpIn(ip, reply) ==
    /\ AddressOf(ip) # {}
    /\ UpdateRoutingTbl(ip) \/ UpdateMirroringTbl(ip) \/ LearningHostMac(ip)
    /\ Released(ip, reply)
    /\ UNCHANGED <<address, next>>

(* A flow of a host that was not used for a while goes.                      *)
IdleTimeout(ip) ==
    LET idle == {f \in flow : f.prio = Priority(IMPLICIT_ROUTING) /\ f.match.dst = HostNet(ip)} IN
    /\ idle # {}
    /\ flow' = flow \ idle
    /\ UNCHANGED <<address, route, mirror, next, waiting>>

-----------------------------------------------------------------------------
Init ==
    /\ address = {} /\ route = {} /\ mirror = {} /\ waiting = {}
    /\ flow = {DefaultMirrorFlow, NormalFlow, DropFlow}
    /\ next = [address |-> 1, route |-> 1, mirror |-> 1]

SetData ==
    \/ \E a \in Addresses : SetAddress(a)
    \/ \E match \in Routes, gw \in Gateways : SetRoute(match, gw)
    \/ \E match \in Mirrors, station \in Stations : SetMirror(match, station)

DeleteData ==
    \/ \E a \in address : DeleteAddress(a.id)
    \/ \E r \in route : DeleteRoute(r.id)

PacketInHandler ==
    \/ \E pkt \in Packets : PacketIn(pkt)
    \/ \E ip \in Hosts, reply \in BOOLEAN : ArpIn(ip, reply)

Next ==
    \/ SetData \/ DeleteData \/ PacketInHandler
    \/ \E ip \in waiting : Timeout(ip)
    \/ \E ip \in Hosts : IdleTimeout(ip)

Spec == Init /\ [][Next]_vars

-----------------------------------------------------------------------------
(* What the tables of the router say of a packet.                            *)
Widest(rows, pkt) ==
    LET matching == {r \in rows : Matches(r.match, pkt)} IN
    {r \in matching : \A q \in matching : q.match.dst.len <= r.match.dst.len}

Learnt(ip) == \E a \in address : HostFlow(a, ip) \in flow

Hop(pkt) ==
    IF pkt.dst \in RouterPorts THEN {<<"controller">>}
    ELSE IF \E a \in address : In(pkt.src, a) /\ In(pkt.dst, a) THEN {<<"normal">>}
    ELSE IF AddressOf(pkt.dst) # {}
         THEN {IF Learnt(pkt.dst) THEN <<"out", pkt.dst>> ELSE <<"controller">>}
    ELSE IF Widest(route, pkt) = {} THEN {<<"drop">>}
    ELSE {IF r.mac THEN <<"out", r.gateway>> ELSE <<"controller">> : r \in Widest(route, pkt)}

(* A packet under a mirror is copied to its station, once that is known, and *)
(* goes where it would go without the mirror; until then it goes to the      *)
(* controller.  All others are not copied and go where the routes say.       *)
MirrorThenRoute ==
    \A pkt \in Packets :
        LET marked == Widest(mirror, pkt) IN
        Outcomes(pkt) =
            IF marked = {} THEN {<<<<"goto">>, hop>> : hop \in Hop(pkt)}
            ELSE UNION {IF m.mac THEN {<<<<"copy", m.gateway>>, hop>> : hop \in Hop(pkt)}
                        ELSE {<<<<"goto">>, <<"controller">>>>} : m \in marked}
=============================================================================
