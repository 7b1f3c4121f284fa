----------------------------- MODULE RouterFlows ------------------------------
(***************************************************************************)
(* What a switch does with packets, under the flows that the router        *)
(* application of the deployed controller sets (sdnctrl/rest_router.py):   *)
(* the priorities of flows, the flows of addresses, of hosts that were     *)
(* learnt from ARP and of routes, and the packets that wait for a MAC.     *)
(*                                                                         *)
(* Addresses and routes of one VLAN are posted and deleted by one client,  *)
(* so a row can stand for its identifier.  MACs are named by the IP that   *)
(* has them, and a gateway or host keeps its MAC and port.                 *)
(***************************************************************************)
EXTENDS Integers, FiniteSets

CONSTANTS
    Bits,        \* bits of an IP address
    Addresses,   \* what may be posted: [start, len, gw], gw the router's own IP
    Routes,      \* what may be posted: [start, len, gateway]; len 0: the default route
    Hosts,       \* the IPs that answer and send ARP
    Packets,     \* bound: the packets of the exploration, <<source, destination>>
    MaxWaiting   \* MAX_SUSPENDPACKETS

VARIABLES
    address,     \* address_data
    route,       \* routing_tbl
    macs,        \* routes whose gateway_mac is set
    flow,        \* the flows of the switch
    waiting,     \* destinations of the packets in packet_buffer
    request      \* a deletion that waits for, or has, the flows of the switch

vars == <<address, route, macs, flow, waiting, request>>

AnyNet == [start |-> 0, len |-> 0]
Net(x) == [start |-> x.start, len |-> x.len]
HostNet(ip) == [start |-> ip, len |-> Bits]

ApplyMask(ip, len) == ip - (ip % 2 ^ (Bits - len))
In(ip, net) == ApplyMask(ip, net.len) = net.start

\* The widest prefix, as far as priorities are concerned.
NetmaskShift == Bits

NORMAL == 0
ARP_HANDLING == 1
DEFAULT_ROUTING == 1
MAC_LEARNING == 2
STATIC_ROUTING == 2
IMPLICIT_ROUTING == 3
L2_SWITCHING == 4
IP_HANDLING == 5

(* Priorities for VLAN 0; the shift of IP_HANDLING puts it above all others. *)
Priority(type) ==
    type + (IF type = IP_HANDLING THEN 1000 ELSE 0)
         + (IF type > STATIC_ROUTING THEN NetmaskShift ELSE 0)

RoutePriority(r) == IF r.len = 0 THEN DEFAULT_ROUTING ELSE STATIC_ROUTING + r.len

-----------------------------------------------------------------------------
(* Cookies: of an address, of a route.                                       *)
CookieOf(row) == <<row.start, row.len, "gw" \in DOMAIN row>>

(* Flows.  A flow that is added replaces the one of the same match and       *)
(* priority.                                                                 *)
Flow(cookie, prio, src, dst, action) ==
    [cookie |-> cookie, prio |-> prio, src |-> src, dst |-> dst, action |-> action]

With(flows, new) ==
    {f \in flows : \A g \in new : <<f.prio, f.src, f.dst>> # <<g.prio, g.src, g.dst>>} \cup new

NormalFlow == Flow(<<"router">>, NORMAL, AnyNet, AnyNet, <<"normal">>)
DropFlow == Flow(<<"router">>, DEFAULT_ROUTING, AnyNet, AnyNet, <<"drop">>)

ToController(row, prio, dst) == Flow(CookieOf(row), prio, AnyNet, dst, <<"controller">>)

AddressFlows(a) ==
    {ToController(a, Priority(MAC_LEARNING), Net(a)),
     ToController(a, Priority(IP_HANDLING), HostNet(a.gw)),
     Flow(CookieOf(a), Priority(L2_SWITCHING), Net(a), Net(a), <<"normal">>)}

PacketInFlow(r) == ToController(r, RoutePriority(r), Net(r))
RoutingFlow(r) == Flow(CookieOf(r), RoutePriority(r), AnyNet, Net(r), <<"out", r.gateway>>)
HostFlow(a, ip) ==
    Flow(CookieOf(a), Priority(IMPLICIT_ROUTING), AnyNet, HostNet(ip), <<"out", ip>>)

(* What the switch does with a packet: the flow of the highest priority.     *)
Best(src, dst) ==
    LET matching == {f \in flow : In(src, f.src) /\ In(dst, f.dst)} IN
    {f \in matching : \A g \in matching : g.prio <= f.prio}

-----------------------------------------------------------------------------
AddressOf(ip) == {a \in address : In(ip, a)}
RouterPorts == {a.gw : a \in address}
GatewaysOf(rows) == {r.gateway : r \in rows}

Idle == [what |-> "none", rows |-> {}]

(* An address is refused when it overlaps another, a route when there is one *)
(* of its destination.                                                       *)
AddAddress(a) ==
    /\ \A b \in address : ~In(a.gw, b) /\ ~In(b.gw, a)
    /\ address' = address \cup {a}

AddRoute(r) ==
    /\ \A q \in route : Net(q) # Net(r)
    /\ route' = route \cup {r}

SetAddress(a) ==
    /\ request = Idle /\ a \notin address
    /\ AddAddress(a)
    /\ flow' = With(flow, AddressFlows(a))
    /\ UNCHANGED <<route, macs, waiting, request>>

SetRoute(r) ==
    /\ request = Idle /\ r \notin route
    /\ AddressOf(r.gateway) # {} /\ r.gateway \notin RouterPorts
    /\ AddRoute(r)
    /\ flow' = With(flow, {PacketInFlow(r)})
    /\ UNCHANGED <<address, macs, waiting, request>>

(* A deletion asks for the flows of the switch; rows lists what it will      *)
(* delete.  Addresses with a gateway in them are skipped.                    *)
Related(a) == \E g \in GatewaysOf(route) : In(g, a)

AskDelete(what, rows) ==
    /\ request = Idle /\ rows # {}
    /\ request' = [what |-> what,
                   rows |-> IF what = "route" THEN rows ELSE {a \in rows : ~Related(a)}]
    /\ UNCHANGED <<address, route, macs, flow, waiting>>

FlowsWithout(rows) == {f \in flow : \A x \in rows : f.cookie # CookieOf(x)}
WaitingWithout(rows) == {ip \in waiting : \A a \in rows : ~In(ip, a)}

DeleteAddresses ==
    /\ request.what = "address"
    /\ address' = address \ request.rows
    /\ flow' = FlowsWithout(request.rows)
    /\ waiting' = WaitingWithout(request.rows)
    /\ request' = Idle
    /\ UNCHANGED <<route, macs>>

\* A mutation: the default route takes the flow that drops with it.
DeleteRoutesBare ==
    /\ request.what = "route"
    /\ route' = route \ request.rows
    /\ macs' = macs \ request.rows
    /\ flow' = FlowsWithout(request.rows)
    /\ request' = Idle
    /\ UNCHANGED <<address, waiting>>

(* The flow of a default route that goes leaves the flow that drops.         *)
DeleteRoutes ==
    /\ request.what = "route"
    /\ route' = route \ request.rows
    /\ macs' = macs \ request.rows
    /\ flow' = With(FlowsWithout(request.rows),
                    IF \E r \in request.rows : r.len = 0 THEN {DropFlow} ELSE {})
    /\ request' = Idle
    /\ UNCHANGED <<address, waiting>>

-----------------------------------------------------------------------------
(* A packet that the switch hands to the controller and that is not for the  *)
(* router itself waits, and an ARP request goes out: for a host, or for the  *)
(* gateway of the longest route.                                             *)
Longer(r, q) == r.len > q.len
LongestRoute(ip) == {r \in route : In(ip, r) /\ \A q \in route \ {r} : In(ip, q) => Longer(r, q)}

PacketIn(src, dst) ==
    /\ \E f \in Best(src, dst) : f.action = <<"controller">>
    /\ dst \notin RouterPorts /\ dst \notin waiting
    /\ Cardinality(waiting) < MaxWaiting
    /\ AddressOf(dst) # {} \/ \E r \in LongestRoute(dst) : AddressOf(r.gateway) # {}
    /\ waiting' = waiting \cup {dst}
    /\ UNCHANGED <<address, route, macs, flow, request>>

Timeout(ip) ==
    /\ waiting' = waiting \ {ip}
    /\ UNCHANGED <<address, route, macs, flow, request>>

(* An ARP packet of host or gateway ip: the routes over it get its MAC, or   *)
(* else the host is learnt.  A reply to the router releases what waits for   *)
(* this very ip, which goes through the table again.                         *)
UpdateRoutingTbl(ip) ==
    LET new == {r \in route : r.gateway = ip} \ macs IN
    /\ ip \in GatewaysOf(route)
    /\ macs' = macs \cup new
    /\ flow' = With(flow, {RoutingFlow(r) : r \in new})

LearningHostMac(ip) ==
    /\ ip \notin GatewaysOf(route)
    /\ flow' = With(flow, {HostFlow(a, ip) : a \in AddressOf(ip)})
    /\ UNCHANGED macs

ArpIn(ip, reply) ==
    /\ AddressOf(ip) # {}
    /\ UpdateRoutingTbl(ip) \/ LearningHostMac(ip)
    /\ waiting' = IF reply THEN waiting \ {ip} ELSE waiting
    /\ UNCHANGED <<address, route, request>>

(* A flow of a host that was not used for a while goes.                      *)
IdleTimeout(ip) ==
    /\ \E f \in flow : f.prio = Priority(IMPLICIT_ROUTING) /\ f.dst = HostNet(ip)
    /\ flow' = {f \in flow : f.prio # Priority(IMPLICIT_ROUTING) \/ f.dst # HostNet(ip)}
    /\ UNCHANGED <<address, route, macs, waiting, request>>

-----------------------------------------------------------------------------
(* What the controller answers itself to a packet that came from the MAC of  *)
(* neighbour mac: an ICMP message that goes back the way the packet came.    *)
(* Errors are sent as the router's IP in the network of the sender or, when  *)
(* the sender is in none, of the gateway with that MAC.                      *)
SendIcmp(type, from, pkt, mac) == [type |-> type, from |-> from, to |-> pkt[1], mac |-> mac]

SendPortIp(src, mac) ==
    LET through == {r.gateway : r \in {q \in macs : q.gateway = mac}} IN
    IF AddressOf(src) # {} THEN {a.gw : a \in AddressOf(src)}
                           ELSE {a.gw : a \in UNION {AddressOf(gw) : gw \in through}}

IcmpReply(pkt, mac) == {SendIcmp("echo reply", pkt[2], pkt, mac)}
TcpUdpReply(pkt, mac) == {SendIcmp("port unreachable", pkt[2], pkt, mac)}
InvalidTtlReply(pkt, mac) ==
    {SendIcmp("time exceeded", ip, pkt, mac) : ip \in SendPortIp(pkt[1], mac)}

\* When the wait for the MAC of the destination ends.
IcmpUnreachError(pkt, mac) ==
    {SendIcmp("host unreachable", ip, pkt, mac) : ip \in SendPortIp(pkt[1], mac)}

\* All that may come back.
Replies(pkt, mac) ==
    InvalidTtlReply(pkt, mac) \cup
    IF pkt[2] \in RouterPorts THEN IcmpReply(pkt, mac) \cup TcpUdpReply(pkt, mac)
                              ELSE IcmpUnreachError(pkt, mac)

-----------------------------------------------------------------------------
Init ==
    /\ address = {} /\ route = {} /\ macs = {}
    /\ flow = {NormalFlow, DropFlow}
    /\ waiting = {}
    /\ request = Idle

Next ==
    \/ \E a \in Addresses : SetAddress(a)
    \/ \E r \in Routes : SetRoute(r)
    \/ AskDelete("address", address) \/ AskDelete("route", route)
    \/ \E a \in address : AskDelete("address", {a})
    \/ \E r \in route : AskDelete("route", {r})
    \/ DeleteAddresses \/ DeleteRoutes
    \/ \E ip \in waiting : Timeout(ip)
    \/ \E ip \in Hosts : IdleTimeout(ip) \/ ArpIn(ip, TRUE) \/ ArpIn(ip, FALSE)
    \/ \E pkt \in Packets : PacketIn(pkt[1], pkt[2])

Spec == Init /\ [][Next]_vars

-----------------------------------------------------------------------------
(* Where the router's tables say that a packet goes.                         *)
Learnt(ip) == \E a \in address : HostFlow(a, ip) \in flow

Destiny(src, dst) ==
    IF dst \in RouterPorts THEN <<"controller">>
    ELSE IF \E a \in address : In(src, a) /\ In(dst, a) THEN <<"normal">>
    ELSE IF AddressOf(dst) # {} THEN (IF Learnt(dst) THEN <<"out", dst>> ELSE <<"controller">>)
    ELSE IF LongestRoute(dst) = {} THEN <<"drop">>
    ELSE LET r == CHOOSE r \in LongestRoute(dst) : TRUE IN
         IF r \in macs THEN <<"out", r.gateway>> ELSE <<"controller">>

(* The switch does with every packet what the tables say.                    *)
RightHop ==
    \A pkt \in Packets :
        {f.action : f \in Best(pkt[1], pkt[2])} = {Destiny(pkt[1], pkt[2])}

(* Whoever can send a packet through the router: a host of an internal        *)
(* network, or a gateway whose MAC is known for what comes from outside.      *)
Neighbours(src) ==
    IF AddressOf(src) # {} THEN {src} ELSE GatewaysOf(macs)

(* Every neighbour is answered: an echo request or another packet for the     *)
(* router from the IP it was for; and it is told of a packet that expires or  *)
(* cannot be delivered, from the router's IP in its own network, although     *)
(* addresses, routes and MACs come and go by themselves.                      *)
Answered ==
    \A pkt \in Packets : \A mac \in Neighbours(pkt[1]) :
        LET replies == Replies(pkt, mac) IN
        /\ {x.type : x \in replies} = {"time exceeded"} \cup
              IF pkt[2] \in RouterPorts THEN {"echo reply", "port unreachable"}
                                        ELSE {"host unreachable"}
        /\ \A x \in replies :
              IF x.type \in {"echo reply", "port unreachable"} THEN x.from = pkt[2]
              ELSE \E a \in AddressOf(mac) : x.from = a.gw
=============================================================================
