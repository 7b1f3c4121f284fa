----------------------------- MODULE GatewayWatch ------------------------------
(***************************************************************************)
(* How a router finds its gateways (vfc_router_mirror.py): ARP requests go *)
(* out of every port when a route is posted, when a packet needs it, and   *)
(* in a round that repeats for ever.  What a gateway says sets the flows   *)
(* of its routes.  Requests and replies get lost and arrive late, gateways *)
(* are plugged in, unplugged and replaced, ports come and go.              *)
(*                                                                         *)
(* Each gateway has one route, inside an address of the router.            *)
(***************************************************************************)
EXTENDS Naturals

CONSTANTS
    Gateway,     \* the IPs of the gateways
    Port,        \* the ports of the switch, without the local one
    Nic,         \* MACs that a gateway may have
    Absent,      \* no NIC, no port, no route: none of the above
    Socket,      \* per NIC: the ports it may be plugged into, in turn
    MaxChanges   \* bound: changes of gateways, ports and routes

VARIABLES
    nic,         \* per gateway: the NIC that answers for it
    plug,        \* per gateway: its port
    up,          \* the ports that the switch has
    portData,    \* port_data: the ports that the router knows
    mac,         \* per gateway: the MAC its route has, Absent if the route is not posted
    flow,        \* per gateway: what the flow of the route does
    asked,       \* ARP requests under way: <<gateway, port>>
    said,        \* ARP packets of gateways under way: <<gateway, NIC, port>>
    changes

vars == <<nic, plug, up, portData, mac, flow, asked, said, changes>>
wire == <<asked, said>>
world == <<nic, plug, up>>

NoMac == <<"none">>
Controller == <<"controller">>
Out(n, p) == <<"out", n, p>>
Posted == {g \in Gateway : mac[g] # Absent}

(* send_arp_request, from all ports but the one a packet came in by.         *)
Requests(gateways, except) == gateways \X (portData \ {except})

Change == changes < MaxChanges /\ changes' = changes + 1

-----------------------------------------------------------------------------
SetRoute(g) ==
    /\ Change /\ mac[g] = Absent
    /\ mac' = [mac EXCEPT ![g] = NoMac]
    /\ flow' = [flow EXCEPT ![g] = Controller]
    /\ asked' = asked \cup Requests({g}, Absent)
    /\ UNCHANGED <<world, portData, said>>

DeleteRoute(g) ==
    /\ Change /\ mac[g] # Absent
    /\ mac' = [mac EXCEPT ![g] = Absent]
    /\ flow' = [flow EXCEPT ![g] = Absent]
    /\ UNCHANGED <<world, portData, wire>>

SendArpAllGw == asked' = asked \cup Requests(Posted, Absent)

CyclicUpdate ==
    /\ SendArpAllGw
    /\ UNCHANGED <<world, portData, mac, flow, said, changes>>

(* A packet for the route comes to the controller, by port p.                *)
PacketIn(g, p) ==
    /\ flow[g] = Controller /\ p \in up
    /\ asked' = asked \cup Requests({g}, p)
    /\ UNCHANGED <<world, portData, mac, flow, said, changes>>

\* A mutation: a MAC that is known is not replaced.
ArpInFirst(g, n, p) ==
    /\ <<g, n, p>> \in said
    /\ said' = said \ {<<g, n, p>>}
    /\ IF mac[g] = NoMac
       THEN mac' = [mac EXCEPT ![g] = n] /\ flow' = [flow EXCEPT ![g] = Out(n, p)]
       ELSE UNCHANGED <<mac, flow>>
    /\ UNCHANGED <<world, portData, asked, changes>>

(* _packetin_arp: an ARP packet of a gateway, request or reply.  A MAC that  *)
(* the route has already changes nothing.                                    *)
ArpIn(g, n, p) ==
    /\ <<g, n, p>> \in said
    /\ said' = said \ {<<g, n, p>>}
    /\ IF mac[g] \notin {Absent, n}
       THEN mac' = [mac EXCEPT ![g] = n] /\ flow' = [flow EXCEPT ![g] = Out(n, p)]
       ELSE UNCHANGED <<mac, flow>>
    /\ UNCHANGED <<world, portData, asked, changes>>

(* The spanning tree tells that ports have changed: the router takes the     *)
(* ports that the switch has now.                                            *)
PortData == up
Update == portData' = PortData
UpdateRouter ==
    /\ portData # PortData
    /\ Update
    /\ UNCHANGED <<world, mac, flow, wire, changes>>

-----------------------------------------------------------------------------
(* The network.                                                              *)
Present(g) == nic[g] # Absent /\ plug[g] \in up

Answer(g) ==
    /\ Present(g) /\ <<g, plug[g]>> \in asked
    /\ asked' = asked \ {<<g, plug[g]>>}
    /\ said' = said \cup {<<g, nic[g], plug[g]>>}
    /\ UNCHANGED <<world, portData, mac, flow, changes>>

Ask(g) ==
    /\ Present(g)
    /\ said' = said \cup {<<g, nic[g], plug[g]>>}
    /\ UNCHANGED <<world, portData, mac, flow, asked, changes>>

Lose ==
    /\ \/ \E m \in asked : asked' = asked \ {m} /\ UNCHANGED said
       \/ \E m \in said : said' = said \ {m} /\ UNCHANGED asked
    /\ UNCHANGED <<world, portData, mac, flow, changes>>

Plug(g, n, p) ==
    /\ Change /\ nic[g] = Absent
    /\ n # Absent /\ \A h \in Gateway : nic[h] # n
    /\ p \in Socket[n]
    /\ nic' = [nic EXCEPT ![g] = n] /\ plug' = [plug EXCEPT ![g] = p]
    /\ UNCHANGED <<up, portData, mac, flow, wire>>

Unplug(g) ==
    /\ Change /\ nic[g] # Absent
    /\ nic' = [nic EXCEPT ![g] = Absent]
    /\ UNCHANGED <<plug, up, portData, mac, flow, wire>>

(* A NIC is replaced by another.                                             *)
Replace(g, n, p) ==
    /\ Change /\ nic[g] # Absent /\ nic[g] # n /\ p \in Socket[n]
    /\ \A h \in Gateway : nic[h] # n
    /\ nic' = [nic EXCEPT ![g] = n] /\ plug' = [plug EXCEPT ![g] = p]
    /\ UNCHANGED <<up, portData, mac, flow, wire>>

PortChange(p) ==
    /\ Change
    /\ up' = IF p \in up THEN up \ {p} ELSE up \cup {p}
    /\ UNCHANGED <<nic, plug, portData, mac, flow, wire>>

-----------------------------------------------------------------------------
Init ==
    /\ nic = [g \in Gateway |-> Absent] /\ plug = [g \in Gateway |-> Absent]
    /\ up = Port /\ portData = Port
    /\ mac = [g \in Gateway |-> Absent] /\ flow = [g \in Gateway |-> Absent]
    /\ asked = {} /\ said = {}
    /\ changes = 0

Router ==
    \/ \E g \in Gateway : SetRoute(g) \/ DeleteRoute(g)
    \/ CyclicUpdate
    \/ UpdateRouter
    \/ \E g \in Gateway, p \in Port : PacketIn(g, p)
    \/ \E g \in Gateway, n \in Nic, p \in Port : ArpIn(g, n, p)

Network ==
    \/ \E g \in Gateway : Answer(g) \/ Ask(g) \/ Unplug(g)
    \/ \E g \in Gateway, n \in Nic, p \in Port : Plug(g, n, p) \/ Replace(g, n, p)
    \/ \E p \in Port : PortChange(p)
    \/ Lose

Next == Router \/ Network

(* The round and the events of ports go on; a gateway that is asked again    *)
(* and again answers, and one of many answers arrives.                       *)
Fairness ==
    /\ WF_vars(CyclicUpdate) /\ WF_vars(UpdateRouter)
    /\ \A g \in Gateway :
        SF_vars(Answer(g)) /\ SF_vars(\E n \in Nic, p \in Port : ArpIn(g, n, p))

Spec == Init /\ [][Next]_vars /\ Fairness

-----------------------------------------------------------------------------
(* Once gateways, ports and routes stay as they are, each route comes to send *)
(* its packets to the gateway, where it is.                                   *)
Reached == \A g \in Posted : Present(g) => flow[g] = Out(nic[g], plug[g])
EventuallyReached == <>[]Reached
=============================================================================
