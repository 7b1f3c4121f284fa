---------------------------- MODULE VfcMirrorRouter ----------------------------
(***************************************************************************)
(* The mirroring router for switches of Chameleon (vfc_router_mirror.py).  *)
(* Table 1 copies packets to stations, table 2 routes them; there is no    *)
(* table for QoS.  The three kinds of ids are told apart by offsets of     *)
(* their cookies, and a deletion, which sees the flows of all tables,      *)
(* decodes them: each deletes the flows of one cookie and table.           *)
(*                                                                         *)
(* A mirror that is posted has no flow yet.  When its station is heard,    *)
(* the application looks for a route of the same match, to enter the MAC   *)
(* there; without one it fails, and the mirror never copies anything.      *)
(* Hosts of internal networks are not learnt.                              *)
(*                                                                         *)
(* The router of VLAN 0 and one client, which waits for the answer to each *)
(* request.  MACs are named by the IP that has them.                       *)
(***************************************************************************)
EXTENDS Integers, FiniteSets

CONSTANTS
    Bits,        \* bits of an IP address
    Addresses,   \* what may be posted: [start, len, gw], gw the router's own IP
    Routes,      \* matches of routes: [src, dst], prefixes
    Mirrors,     \* matches of mirrors, with a destination
    Gateways,    \* the gateways of routes
    Stations,    \* where mirrors send their copies
    Nowhere,     \* no MAC, or no station: none of them
    Hosts,       \* IPs that answer and send ARP
    Packets,     \* bound: the packets of the exploration: [src, dst]
    FirstMirror, \* the mirror_id of the first mirror
    Wipes,       \* whether clients delete {"route_id": "all"} and the like
    MaxWaiting,  \* MAX_SUSPENDPACKETS
    MaxIds       \* bound: addresses, routes and mirrors that are posted

VARIABLES
    address,     \* address_data: [start, len, gw, id]
    route,       \* routing_tbl: [match, id, gateway, mac], and, as history, whether
                 \* the gateway was heard since
    mirror,      \* mirroring_tbl: [match, id, gateway], and, as history, to whom its
                 \* packets are copied
    flow,        \* the flows of both tables
    next,        \* address_id and the two route_ids
    waiting,     \* destinations of the packets in packet_buffer
    request      \* a deletion: its kind, and the flows that it will delete

vars == <<address, route, mirror, flow, next, waiting, request>>

Any == [start |-> 0, len |-> 0]
HostNet(ip) == [start |-> ip, len |-> Bits]
Net(a) == [start |-> a.start, len |-> a.len]

ApplyMask(ip, len) == ip - (ip % 2 ^ (Bits - len))
In(ip, net) == ApplyMask(ip, net.len) = net.start
Between(src, dst) == [src |-> src, dst |-> dst]
Matches(match, pkt) == In(pkt.src, match.src) /\ In(pkt.dst, match.dst)

-----------------------------------------------------------------------------
(* Priorities count the bits of source and destination; a route for any      *)
(* destination has the priority of the flow that drops.                      *)
DEFAULT_ROUTING == 1
MAC_LEARNING == 2
STATIC_ROUTING == 2
L2_SWITCHING == 4
IP_HANDLING == 5

Priority(type) ==
    type + (IF type = IP_HANDLING THEN 1000 ELSE 0)
         + (IF type > STATIC_ROUTING THEN 2 * Bits ELSE 0)

RoutePriority(match) ==
    IF match.dst.len = 0 THEN DEFAULT_ROUTING
                         ELSE STATIC_ROUTING + match.dst.len + match.src.len

(* Cookies, in VLAN 0.  They are decoded as unsigned numbers of 32 bits, of  *)
(* which the upper 16 are the id of a route or mirror; an address has all 32 *)
(* (a number below 0 stands for one that is too large to be an id).          *)
Kinds == {"address", "route", "mirror"}
Shift == 65536
Offset == [address |-> 3000000, route |-> 3000000, mirror |-> 2000000]

IdToCookie(kind, id) == Offset[kind] + (IF kind = "address" THEN id ELSE id * Shift)
CookieToId(kind, cookie) ==
    IF kind = "address" THEN cookie - Offset[kind]
                        ELSE ((cookie - Offset[kind]) \div Shift) % Shift

-----------------------------------------------------------------------------
(* Flows.  One that is added replaces that of the same match and priority.   *)
Flow(table, cookie, prio, match, action) ==
    [table |-> table, cookie |-> cookie, prio |-> prio, match |-> match, action |-> action]

With(flows, new) ==
    {f \in flows : \A g \in new :
        <<f.table, f.prio, f.match>> # <<g.table, g.prio, g.match>>} \cup new

DefaultMirrorFlow == Flow("mirror", Offset.mirror, 0, Between(Any, Any), <<"goto">>)
DropFlow == Flow("routing", Offset.route, DEFAULT_ROUTING, Between(Any, Any), <<"drop">>)

AddressFlow(a, prio, match, action) ==
    Flow("routing", IdToCookie("address", a.id), prio, match, action)
AddressFlows(a) ==
    {AddressFlow(a, Priority(MAC_LEARNING), Between(Any, Net(a)), <<"controller">>),
     AddressFlow(a, Priority(IP_HANDLING), Between(Any, HostNet(a.gw)), <<"controller">>),
     AddressFlow(a, Priority(L2_SWITCHING), Between(Net(a), Net(a)), <<"normal">>)}

PacketInFlow(r) ==
    Flow("routing", IdToCookie("route", r.id), RoutePriority(r.match), r.match, <<"controller">>)
RoutingFlow(r) ==
    Flow("routing", IdToCookie("route", r.id), RoutePriority(r.match), r.match, <<"out", r.gateway>>)
MirroringFlow(m) ==
    Flow("mirror", IdToCookie("mirror", m.id), RoutePriority(m.match), m.match, <<"copy", m.gateway>>)

-----------------------------------------------------------------------------
Idle == [kind |-> "none", flows |-> {}]
AddressOf(ip) == {a \in address : In(ip, a)}
RouterPorts == {a.gw : a \in address}
GatewaysOf(rows) == {r.gateway : r \in rows}
Counted(kind) ==
    /\ request = Idle /\ next[kind] < MaxIds + (IF kind = "mirror" THEN FirstMirror ELSE 1)
    /\ next' = [next EXCEPT ![kind] = @ + 1]
Without(rows, match) == {r \in rows : r.match # match}
Reachable(gw) == AddressOf(gw) # {} /\ gw \notin RouterPorts

\* An address is refused when it overlaps another.
AddAddress(new) ==
    /\ \A b \in address : ~In(new.gw, b) /\ ~In(b.gw, new)
    /\ address' = address \cup {new}

SetAddress(a) ==
    LET new == [start |-> a.start, len |-> a.len, gw |-> a.gw, id |-> next["address"]] IN
    /\ AddAddress(new)
    /\ Counted("address")
    /\ flow' = With(flow, AddressFlows(new))
    /\ UNCHANGED <<route, mirror, waiting, request>>

SetRoute(match, gw) ==
    LET new == [match |-> match, id |-> next["route"], gateway |-> gw, mac |-> Nowhere,
                heard |-> FALSE] IN
    /\ Reachable(gw)
    /\ Counted("route")
    /\ route' = Without(route, match) \cup {new}
    /\ flow' = With(flow, {PacketInFlow(new)})
    /\ UNCHANGED <<address, mirror, waiting, request>>

(* The flow of a mirror that is replaced stays until the new station is      *)
(* heard.                                                                    *)
SetMirror(match, station) ==
    LET old == {m.copies : m \in mirror \ Without(mirror, match)}
        new == [match |-> match, id |-> next["mirror"], gateway |-> station,
                copies |-> IF old = {} THEN Nowhere ELSE CHOOSE s \in old : TRUE] IN
    /\ Reachable(station)
    /\ Counted("mirror")
    /\ mirror' = Without(mirror, match) \cup {new}
    /\ UNCHANGED <<address, route, flow, waiting, request>>

-----------------------------------------------------------------------------
(* Deletions: by id, or of all whose cookie decodes to an id.  The switch    *)
(* answers with its flows, or with some of them within the wait.             *)
Chosen(kind, id, f) ==
    LET found == CookieToId(kind, f.cookie) IN
    IF id # 0 THEN found = id
    ELSE IF kind = "address" THEN found \in 1 .. Shift - 1 ELSE found # 0

\* Addresses with the gateway of a route in them are skipped; a mirror does not count.
Skipped(f) ==
    \E gw \in GatewaysOf(route) : \E a \in AddressOf(gw) : a.id = CookieToId("address", f.cookie)

AskDelete(kind, id) ==
    LET found == {f \in flow : Chosen(kind, id, f) /\ (kind = "address" => ~Skipped(f))} IN
    /\ request = Idle
    /\ id = 0 => Wipes
    /\ \E some \in (SUBSET found) \ {{}} : request' = [kind |-> kind, flows |-> some]
    /\ UNCHANGED <<address, route, mirror, flow, next, waiting>>

FlowsWithout(flows) ==
    {f \in flow : \A g \in flows : g.cookie # f.cookie \/ g.table # f.table}

Ids == {CookieToId(request.kind, f.cookie) : f \in request.flows}
Kept(kind, rows) == IF request.kind = kind THEN {r \in rows : r.id \notin Ids} ELSE rows

WaitingOutside(nets) == {ip \in waiting : \A a \in nets : ~In(ip, a)}

DeleteAddressData ==
    /\ request.kind = "address"
    /\ address' = Kept("address", address)
    /\ waiting' = WaitingOutside(address \ Kept("address", address))
    /\ flow' = FlowsWithout(request.flows)
    /\ request' = Idle
    /\ UNCHANGED <<route, mirror, next>>

(* _delete_routing_data and _delete_mirroring_data.  The flow that drops is  *)
(* set again when a flow of its priority goes; if that is of a mirror of all *)
(* packets, it takes the place of the default route.                         *)
DeleteRows ==
    LET drops == \E f \in request.flows : f.prio = DEFAULT_ROUTING
        kept == FlowsWithout(request.flows) IN
    /\ request.kind \in {"route", "mirror"}
    /\ route' = Kept("route", route)
    /\ mirror' = {[m EXCEPT !.copies = IF \E f \in kept : f.table = "mirror" /\ f.match = m.match
                                       THEN @ ELSE Nowhere] : m \in Kept("mirror", mirror)}
    /\ flow' = With(kept, IF drops THEN {DropFlow} ELSE {})
    /\ request' = Idle
    /\ UNCHANGED <<address, next, waiting>>

-----------------------------------------------------------------------------
(* What the switch may do with a packet.  A flow that copies it also gives   *)
(* it the MAC of the station, by which a flow for internal networks then     *)
(* forwards it.                                                              *)
Best(table, pkt) ==
    LET matching == {f \in flow : f.table = table /\ Matches(f.match, pkt)} IN
    {f \in matching : \A g \in matching : g.prio <= f.prio}

Onward(copy, hop) == <<copy, IF copy # <<"goto">> /\ hop = <<"normal">> THEN <<"out", copy[2]>> ELSE hop>>

(* Pairs: whether and where it is copied, and where it goes.                 *)
Outcomes(pkt) ==
    {Onward(f.action, g.action) : f \in Best("mirror", pkt), g \in Best("routing", pkt)}

(* A packet at the controller waits for the MAC of a host, or of the gateway *)
(* of the longest route to its destination from whatever source.  The        *)
(* default route is looked up under a name that no row has.                  *)
LongestTo(ip) ==
    {r \in route : /\ r.match.dst.len > 0 /\ In(ip, r.match.dst)
                   /\ \A q \in route : In(ip, q.match.dst) => q.match.dst.len <= r.match.dst.len}

PacketIn(pkt) ==
    /\ \E out \in Outcomes(pkt) : out[2] = <<"controller">>
    /\ pkt.dst \notin RouterPorts /\ pkt.dst \notin waiting
    /\ Cardinality(waiting) < MaxWaiting
    /\ AddressOf(pkt.dst) # {} \/ \E r \in LongestTo(pkt.dst) : AddressOf(r.gateway) # {}
    /\ waiting' = waiting \cup {pkt.dst}
    /\ UNCHANGED <<address, route, mirror, flow, next, request>>

Timeout(ip) ==
    /\ waiting' = waiting \ {ip}
    /\ UNCHANGED <<address, route, mirror, flow, next, request>>

-----------------------------------------------------------------------------
(* An ARP packet of ip.  The routes over it are completed.  The mirrors to   *)
(* it get their flows, and the routes of the same matches its MAC; where     *)
(* there is no such route, KeyError ends the handler, after some of the      *)
(* mirrors.  A reply to the router releases what waits for this very ip.     *)
UpdateRoutingTbl(ip) ==
    {IF r.gateway = ip THEN [r EXCEPT !.mac = ip, !.heard = TRUE] ELSE r : r \in route}

UpdateMirroringTbl(rows, done, ip) ==
    {IF \E m \in done : m.match = r.match THEN [r EXCEPT !.mac = ip] ELSE r : r \in rows}

ArpIn(ip, reply) ==
    LET over == {r \in route : r.gateway = ip /\ r.mac # ip}
        copies == {m \in mirror : m.gateway = ip}
        sound == {m \in copies : \E r \in route : r.match = m.match} IN
    /\ AddressOf(ip) # {}
    /\ \E done \in IF sound = copies THEN {copies} ELSE SUBSET sound :
        /\ route' = UpdateMirroringTbl(UpdateRoutingTbl(ip), done, ip)
        /\ mirror' = (mirror \ done) \cup {[m EXCEPT !.copies = ip] : m \in done}
        /\ flow' = With(flow, {RoutingFlow(r) : r \in over} \cup {MirroringFlow(m) : m \in done})
        /\ waiting' = IF reply /\ sound = copies THEN waiting \ {ip} ELSE waiting
        /\ UNCHANGED <<address, next, request>>

-----------------------------------------------------------------------------
Init ==
    /\ address = {} /\ route = {} /\ mirror = {} /\ waiting = {}
    /\ flow = {DefaultMirrorFlow, DropFlow}
    /\ next = [k \in Kinds |-> IF k = "mirror" THEN FirstMirror ELSE 1]
    /\ request = Idle

SetData ==
    \/ \E a \in Addresses : SetAddress(a)
    \/ \E match \in Routes, gw \in Gateways : SetRoute(match, gw)
    \/ \E match \in Mirrors, station \in Stations : SetMirror(match, station)

DeleteData ==
    \/ \E kind \in Kinds, id \in 0 .. FirstMirror + MaxIds : AskDelete(kind, id)
    \/ DeleteAddressData \/ DeleteRows

PacketInHandler ==
    \/ \E pkt \in Packets : PacketIn(pkt)
    \/ \E ip \in Hosts, reply \in BOOLEAN : ArpIn(ip, reply)

Next ==
    \/ SetData \/ DeleteData \/ PacketInHandler
    \/ \E ip \in waiting : Timeout(ip)

Spec == Init /\ [][Next]_vars

-----------------------------------------------------------------------------
(* What the tables of the router say of a packet.                            *)
Heaviest(rows, pkt) ==
    LET matching == {r \in rows : Matches(r.match, pkt)} IN
    {r \in matching : \A q \in matching : RoutePriority(q.match) <= RoutePriority(r.match)}

Hop(pkt) ==
    IF pkt.dst \in RouterPorts THEN {<<"controller">>}
    ELSE IF \E a \in address : In(pkt.src, a) /\ In(pkt.dst, a) THEN {<<"normal">>}
    ELSE IF AddressOf(pkt.dst) # {} THEN {<<"controller">>}
    ELSE IF Heaviest(route, pkt) = {} THEN {<<"drop">>}
    ELSE {IF r.heard THEN <<"out", r.gateway>> ELSE <<"controller">> : r \in Heaviest(route, pkt)}

Copied(pkt) ==
    LET marked == Heaviest({m \in mirror : m.copies # Nowhere}, pkt) IN
    IF marked = {} THEN {<<"goto">>} ELSE {<<"copy", m.copies>> : m \in marked}

(* A packet goes where its route says, once the gateway was heard since the   *)
(* route was posted; and it is copied to the station that was heard last for  *)
(* a mirror of its match, until that mirror is deleted.  Neither table, and   *)
(* no deletion, spoils what the other has in the switch.                      *)
MirrorThenRoute ==
    \A pkt \in Packets :
        Outcomes(pkt) = {Onward(copy, hop) : copy \in Copied(pkt), hop \in Hop(pkt)}
=============================================================================
