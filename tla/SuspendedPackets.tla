--------------------------- MODULE SuspendedPackets ---------------------------
(***************************************************************************)
(* The packets that wait in a router (rest_router_mirror.py): one that has *)
(* no route waits for a route, which the SDX manager is asked for; one     *)
(* whose next hop has no known MAC waits for an ARP reply.  Each packet    *)
(* has a greenlet with a timer.  A reply, and a route over a gateway that  *)
(* is known, take the packets for the gateway out of the buffer, one by    *)
(* one, and then send them: to take one out, its timer is killed, and the  *)
(* other greenlets have their turn.  An address that is deleted takes the  *)
(* packets for its network out in the same way, and drops them.            *)
(*                                                                         *)
(* A prefix is the set of the packets that it matches.  The order of the   *)
(* packets in the buffer is left open: nothing depends on it but which of  *)
(* them are taken out first.  The router has one address, and all gateways *)
(* are in its network; REST requests come one at a time.                   *)
(***************************************************************************)
EXTENDS Naturals, Sequences, FiniteSets

CONSTANTS
    Packet,      \* the packets that come in
    Local,       \* those for a host of the internal network
    Inner,       \* of these, the ones that also come from it
    Gateway,     \* neighbours of the router; HostOf[p] is one for p in Inner
    HostOf,
    Routes,      \* what may be posted: [packets, gateway, prio]
    MaxPosts,    \* bound: routes and addresses that are posted
    MaxWaiting   \* MAX_SUSPENDPACKETS

VARIABLES
    table,       \* routing_tbl: rows [route, id, mac]
    listed,      \* packet_buffer.routes: rows by decreasing priority
    known,       \* gateways in ip_mac and mac_port
    posts,       \* routes and addresses posted so far
    address,     \* whether the address is in address_data, and whether a request is
    closing,     \* deleting it and takes its packets out
    place,       \* per packet: where it is
    buffer,      \* packet_buffer
    todo,        \* per greenlet that releases packets: how often each is to be taken out
    done,        \* those that it has taken out
    outcome      \* per packet: how often it was sent on or reported unreachable

vars == <<table, listed, known, posts, address, closing, place, buffer, todo, done, outcome>>
network == <<address, closing>>
work == <<todo, done>>

Greenlet == {"arp", "rest"}   \* packet_in_handler of the application; a REST request
Nothing == [p \in Packet |-> 0]
Idle(g) == todo[g] = Nothing /\ done[g] = {} /\ (g = "rest" => ~closing)

-----------------------------------------------------------------------------
(* The route that a packet is for: the one of the highest priority.          *)
RouteOf(p) ==
    LET matching == {r \in table : p \in r.route.packets} IN
    {r \in matching : \A q \in matching : q.route.prio <= r.route.prio}

\* Inside the network the switch forwards by itself, as long as the address is there.
InUse(p) == IF p \in Inner THEN address ELSE \E r \in RouteOf(p) : r.mac

(* add_route_data: sorted by decreasing priority, later routes after earlier *)
(* ones.                                                                     *)
Listed(row) ==
    LET before == SelectSeq(listed, LAMBDA r : r.route.prio >= row.route.prio)
        after == SelectSeq(listed, LAMBDA r : r.route.prio < row.route.prio) IN
    before \o <<row>> \o after

(* SuspendPacketList.get_data: a packet for gw itself, or one whose first    *)
(* routes lead over gw; once for each of these.                              *)
ForGateway(list, gw) ==
    LET Matching(p) == SelectSeq(list, LAMBDA r : p \in r.route.packets)
        Others(s) == {i \in DOMAIN s : s[i].route.gateway # gw}
        Times(p) ==
            IF p \in Inner /\ HostOf[p] = gw THEN 1
            ELSE Cardinality({i \in DOMAIN Matching(p) : \A j \in Others(Matching(p)) : i < j}) IN
    [p \in Packet |-> IF p \in buffer THEN Times(p) ELSE 0]

(* The rows over gw get its MAC.                                             *)
Completed(rows, gw) ==
    {IF r.route.gateway = gw THEN [r EXCEPT !.mac = TRUE] ELSE r : r \in rows}

-----------------------------------------------------------------------------
(* _packetin_to_node: for a packet that no flow sent out when it came; the   *)
(* flows may have changed since.  With no route, the SDX manager is asked,   *)
(* unless a packet like this one waits already.                              *)
PacketIn(p) ==
    /\ place[p] = "switch" /\ posts > 0
    /\ IF Cardinality(buffer) < MaxWaiting
       THEN buffer' = buffer \cup {p} /\ place' = [place EXCEPT ![p] = "buffer"]
       ELSE place' = [place EXCEPT ![p] = "dropped"] /\ UNCHANGED buffer
    /\ UNCHANGED <<table, listed, known, posts, work, outcome, network>>

Forward(p) ==
    /\ place[p] = "switch" /\ InUse(p)
    /\ place' = [place EXCEPT ![p] = "out"]
    /\ outcome' = [outcome EXCEPT ![p] = @ + 1]
    /\ UNCHANGED <<table, listed, known, posts, buffer, work, network>>

(* _set_routing_data.  A row of the same prefix is replaced in the table,    *)
(* not in the list.                                                          *)
PostRoute(r) ==
    LET row == [route |-> r, id |-> posts + 1, mac |-> FALSE]
        rows == {q \in table : q.route.packets # r.packets} \cup {row} IN
    /\ Idle("rest") /\ address /\ posts < MaxPosts
    /\ posts' = posts + 1
    /\ listed' = Listed(row)
    /\ IF r.gateway \in known
       THEN /\ table' = Completed(rows, r.gateway)
            /\ todo' = [todo EXCEPT !["rest"] = ForGateway(listed', r.gateway)]
       ELSE table' = rows /\ UNCHANGED todo
    /\ UNCHANGED <<known, place, buffer, done, outcome, network>>

(* _delete_routing_data, after the flows of the switch were read.            *)
DeleteRoute(row) ==
    /\ Idle("rest")
    /\ table' = table \ {row}
    /\ listed' = SelectSeq(listed, LAMBDA r : r.id # row.id)
    /\ UNCHANGED <<known, posts, place, buffer, work, outcome, network>>

SetAddress ==
    /\ Idle("rest") /\ ~address /\ posts < MaxPosts
    /\ posts' = posts + 1 /\ address' = TRUE
    /\ UNCHANGED <<table, listed, known, closing, place, buffer, work, outcome>>

(* _delete_address_data, after the flows were read; not while there is a     *)
(* route over a gateway in the network (_chk_addr_relation_route).           *)
ChkAddrRelationRoute == table # {}

DeleteAddress ==
    /\ Idle("rest") /\ address /\ ~ChkAddrRelationRoute
    /\ closing' = TRUE
    /\ todo' = [todo EXCEPT !["rest"] = [p \in Packet |-> IF p \in buffer \cap Local THEN 1 ELSE 0]]
    /\ UNCHANGED <<table, listed, known, posts, address, place, buffer, done, outcome>>

AddressDeleted ==
    /\ closing /\ todo["rest"] = Nothing
    /\ address' = FALSE /\ closing' = FALSE
    /\ place' = [p \in Packet |-> IF p \in done["rest"] THEN "dropped" ELSE place[p]]
    /\ done' = [done EXCEPT !["rest"] = {}]
    /\ UNCHANGED <<table, listed, known, posts, buffer, todo, outcome>>

(* _packetin_arp, of a gateway or host whose MAC and port do not change: a   *)
(* reply to the router (or a request, that only makes the sender known).     *)
ArpIn(gw, reply) ==
    /\ Idle("arp") /\ address
    /\ known' = known \cup {gw}
    /\ table' = Completed(table, gw)
    /\ todo' = IF reply THEN [todo EXCEPT !["arp"] = ForGateway(listed, gw)] ELSE todo
    /\ UNCHANGED <<listed, posts, place, buffer, done, outcome, network>>

\* A mutation: a packet is taken out that is not there any more.
TakeOutUnseen(g, p) ==
    /\ todo[g][p] > 0
    /\ buffer' = buffer \ {p}
    /\ todo' = [todo EXCEPT ![g][p] = @ - 1]
    /\ done' = [done EXCEPT ![g] = @ \cup {p}]
    /\ place' = [place EXCEPT ![p] = "taken"]
    /\ UNCHANGED <<table, listed, known, posts, outcome, network>>

(* SuspendPacketList.delete.  A packet that is not in the buffer any more is *)
(* a ValueError, which ends the handler: what it took out before is lost,    *)
(* and an address whose flow has been deleted stays in address_data.         *)
TakeOut(g, p) ==
    /\ todo[g][p] > 0 /\ p \in buffer
    /\ buffer' = buffer \ {p}
    /\ todo' = [todo EXCEPT ![g][p] = @ - 1]
    /\ done' = [done EXCEPT ![g] = @ \cup {p}]
    /\ place' = [place EXCEPT ![p] = "taken"]
    /\ UNCHANGED <<table, listed, known, posts, outcome, network>>

TakeOutFails(g, p) ==
    /\ todo[g][p] > 0 /\ p \notin buffer
    /\ closing' = (closing /\ g # "rest")
    /\ todo' = [todo EXCEPT ![g] = Nothing]
    /\ done' = [done EXCEPT ![g] = {}]
    /\ place' = [q \in Packet |-> IF q \in done[g] THEN "lost" ELSE place[q]]
    /\ UNCHANGED <<table, listed, known, posts, address, buffer, outcome>>

(* The packets go to the flow table again.                                   *)
Send(g) ==
    /\ todo[g] = Nothing /\ done[g] # {} /\ ~(closing /\ g = "rest")
    /\ place' = [p \in Packet |-> IF p \in done[g] THEN "switch" ELSE place[p]]
    /\ done' = [done EXCEPT ![g] = {}]
    /\ UNCHANGED <<table, listed, known, posts, buffer, todo, outcome, network>>

(* wait_arp_reply_timer, wait_route_reply_timer: the sender gets an ICMP     *)
(* error.                                                                    *)
Timeout(p) ==
    /\ p \in buffer
    /\ buffer' = buffer \ {p}
    /\ place' = [place EXCEPT ![p] = "refused"]
    /\ outcome' = [outcome EXCEPT ![p] = @ + 1]
    /\ UNCHANGED <<table, listed, known, posts, work, network>>

-----------------------------------------------------------------------------
Init ==
    /\ table = {} /\ listed = <<>> /\ known = {} /\ posts = 0
    /\ address = FALSE /\ closing = FALSE
    /\ place = [p \in Packet |-> "switch"]
    /\ buffer = {}
    /\ todo = [g \in Greenlet |-> Nothing]
    /\ done = [g \in Greenlet |-> {}]
    /\ outcome = [p \in Packet |-> 0]

Next ==
    \/ \E p \in Packet : PacketIn(p) \/ Forward(p) \/ Timeout(p)
    \/ \E r \in Routes : PostRoute(r)
    \/ \E row \in table : DeleteRoute(row)
    \/ SetAddress \/ DeleteAddress \/ AddressDeleted
    \/ \E gw \in Gateway : ArpIn(gw, TRUE) \/ ArpIn(gw, FALSE)
    \/ \E g \in Greenlet, p \in Packet : TakeOut(g, p) \/ TakeOutFails(g, p)
    \/ \E g \in Greenlet : Send(g)

Spec == Init /\ [][Next]_vars

-----------------------------------------------------------------------------
(* A packet that waited is sent on once or reported unreachable once, never   *)
(* both, whichever greenlets were after it.                                   *)
OneOutcome == \A p \in Packet : outcome[p] <= 1

(* "ARP reply to router port -> suspend packets forward": a packet taken out  *)
(* of the buffer is not lost.                                                 *)
NothingLost == \A p \in Packet : place[p] # "lost"
=============================================================================
