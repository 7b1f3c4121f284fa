----------------------------- MODULE Applications -----------------------------
(***************************************************************************)
(* The applications of a switch and the books of a manager side by side.   *)
(* They are independent of each other: each part has its own variables,    *)
(* and one part moves in a behaviour, so that their states add up and are  *)
(* not multiplied.  The rules of the QoS application and its configuration *)
(* are two parts that share the switch; the two mirroring routers, which    *)
(* keep the same tables, are two parts that share the variables.           *)
(***************************************************************************)
EXTENDS Integers

CONSTANTS
    Packet, Local, Inner, Gateway, HostOf, PacketRoutes, MaxPosts, MaxSuspended,
    Vlan, NoVlan, Busy, VlanClient, MaxRouters, MaxIds,
    Match, NoValue, Addr, NoAddr, MaxId, MaxRules, MaxEvents,
    Bits, Addresses, FlowRoutes, FlowHosts, FlowPackets, MaxWaiting,
    Host, Port, Nowhere, AnySource, MaxMoves, MaxTold,
    MirrorRoutes, Mirrors, MirrorGateways, Stations, MirrorHosts, MirrorPackets, QosIds, VfcAddresses,
    IngressBits, AnyPort, Filters, IngressRoutes, IngressMirrors, IngressGateways,
    IngressStations, IngressPackets, FirstMirror,
    Switch, Client, Version, Offers, AskedBy, MaxParts, MaxXid,
    Customer, Reserve, GatewayFor, Prefix, None, MaxNotices,
    Router, Thread, NoThread, MaxFaces, MaxDepth,
    SliceRouter, SliceCustomer, RouterOf, NetOf, Chameleon, MaskNumber, FirstIp, FirstOctet,
    InSlice, MaxLinks, MaxStops

ASSUME NoVlanAssumption == NoVlan \in Vlan

\* Requests are for VLANs.
ASSUME BusyAssumption == Busy \subseteq Vlan

\* The bounds on statistics requests are numbers.
ASSUME MaxXidAssumption == MaxXid \in [Switch -> Nat]

\* A reservation's request names a gateway.
ASSUME GatewayAssumption == GatewayFor \in [Reserve -> Gateway] /\ None \notin Gateway

\* A stitch is at a router.
ASSUME RestartAssumption ==
    /\ FirstIp \in Nat \ {0} /\ MaxLinks \in Nat
    /\ RouterOf \in [SliceCustomer -> SliceRouter]

VARIABLES
    part,        \* the part that moves
    \* SuspendedPackets
    table, listed, known, posts, address, closing, place, buffer, todo, done, outcome,
    \* VlanRouters
    router, vlanTable, connected, vlanFlow, vlanRequest,
    \* RouterFlows
    interface, route, macs, flow, waiting, deletion,
    \* LearningSwitch
    app, plug, moves, mac_to_port, learntFlow, ready, told,
    \* IngressRouter
    filters, routes, mirrors, heard, ingressFlow, ingressNext, ingressRequest,
    \* MirrorRouter, VfcMirrorRouter
    mirrorAddress, mirrorRoute, mirror, mirrorFlow, mirrorNext, mirrorWaiting, mirrorRequest,
    \* QosRules
    joined, vlanList, rules, conf, events, ovs, queues, request,
    \* RestRequests
    routers, xid, waiters, msgs, stream, client,
    \* CustomerStitches
    nodes, net, accepted, at, owner, ofGateway, ofCustomer, routed, notices,
    \* SliceLinks
    busy, holder, depth, faces, leaving, expected, spoilt, leaked,
    \* SdxRestart
    slice, stitched, stage, links, curip, usedip, undoable, configs, job, addressed, switches,
    stops

-----------------------------------------------------------------------------
Suspended == INSTANCE SuspendedPackets WITH Routes <- PacketRoutes, MaxWaiting <- MaxSuspended

Vlans == INSTANCE VlanRouters WITH
    Client <- VlanClient, table <- vlanTable, flow <- vlanFlow, client <- vlanRequest

Flows == INSTANCE RouterFlows WITH
    Routes <- FlowRoutes, Hosts <- FlowHosts, Packets <- FlowPackets,
    address <- interface, request <- deletion

Learning == INSTANCE LearningSwitch WITH Any <- AnySource, flow <- learntFlow

Ingress == INSTANCE IngressRouter WITH
    Bits <- IngressBits, Routes <- IngressRoutes, Mirrors <- IngressMirrors,
    Gateways <- IngressGateways, Stations <- IngressStations, Packets <- IngressPackets,
    Wipes <- FALSE, known <- heard, flow <- ingressFlow, next <- ingressNext,
    request <- ingressRequest

Mirror == INSTANCE MirrorRouter WITH
    Routes <- MirrorRoutes, Gateways <- MirrorGateways, Hosts <- MirrorHosts,
    Packets <- MirrorPackets, address <- mirrorAddress, route <- mirrorRoute,
    flow <- mirrorFlow, next <- mirrorNext, waiting <- mirrorWaiting

Vfc == INSTANCE VfcMirrorRouter WITH
    Addresses <- VfcAddresses, Routes <- MirrorRoutes, Gateways <- MirrorGateways,
    Hosts <- MirrorHosts, Packets <- MirrorPackets, Wipes <- FALSE,
    address <- mirrorAddress, route <- mirrorRoute, flow <- mirrorFlow, next <- mirrorNext,
    waiting <- mirrorWaiting, request <- mirrorRequest

Qos == INSTANCE QosRules WITH Deleter <- VlanClient

Rest == INSTANCE RestRequests

Stitches == INSTANCE CustomerStitches

Links == INSTANCE SliceLinks

Restart == INSTANCE SdxRestart WITH
    Router <- SliceRouter, Customer <- SliceCustomer, todo <- configs, table <- addressed,
    joined <- switches

\* The numbers of protocols are values.
ASSUME NoValueAssumption ==
    \A f \in DOMAIN Qos!Convert : \A n \in DOMAIN Qos!Convert[f] : Qos!Convert[f][n] # NoValue

\* Networks have whole masks and lie among the IPs; an address has the router's
\* IP inside.  The facts about powers of two are arithmetic, and the provers
\* need them.
Ips == 0 .. 2 ^ Bits - 1

ASSUME PowersAssumption ==
    Bits \in Nat /\ \A n \in 0 .. Bits : 2 ^ n \in Nat \ {0} /\ 2 ^ (n + 1) = 2 * 2 ^ n

ASSUME FlowsAssumption ==
    /\ Addresses \subseteq [start : Ips, len : 0 .. Bits, gw : Ips]
    /\ FlowRoutes \subseteq [start : Ips, len : 0 .. Bits, gateway : Ips]
    /\ \A x \in Addresses : Flows!In(x.gw, x)
    /\ \A x \in FlowRoutes : Flows!In(x.start, x)
    /\ FlowHosts \subseteq Ips /\ FlowPackets \subseteq Ips \X Ips

\* The same of the ingress router: its filters, routes and mirrors are of whole
\* networks, and a route is of packets of any port.
IngressIps == 0 .. 2 ^ IngressBits - 1
IngressNets ==
    {n \in [start : IngressIps, len : 0 .. IngressBits] : Ingress!In(n.start, n)}

ASSUME IngressAssumption ==
    /\ IngressBits \in Nat /\ 2 ^ IngressBits \in Nat \ {0}
    /\ \A m \in Filters \cup IngressMirrors : m.src \in IngressNets /\ m.dst \in IngressNets
    /\ IngressRoutes \subseteq [port : {AnyPort}, src : IngressNets, dst : IngressNets]
    /\ \A p \in IngressPackets : p.src \in IngressIps /\ p.dst \in IngressIps

\* The same of the mirroring routers, which are told where to copy to.
Networks == {n \in [start : Ips, len : 0 .. Bits] : Mirror!In(n.start, n)}

ASSUME MirrorsAssumption ==
    /\ VfcAddresses \subseteq [start : Ips, len : 0 .. Bits, gw : Ips]
    /\ \A x \in VfcAddresses : Mirror!In(x.gw, x)
    /\ MirrorRoutes \cup Mirrors \subseteq [src : Networks, dst : Networks]
    /\ MirrorHosts \subseteq Ips /\ MirrorPackets \subseteq [src : Ips, dst : Ips]
    /\ Nowhere \notin MirrorGateways \cup Stations

Parts ==
    {"suspended", "vlans", "flows", "learning", "ingress", "mirror", "vfc", "qos", "conf",
     "rest", "stitches", "links", "restart"}

suspendedVars ==
    <<table, listed, known, posts, address, closing, place, buffer, todo, done, outcome>>
vlanVars == <<router, vlanTable, connected, vlanFlow, vlanRequest>>
flowVars == <<interface, route, macs, flow, waiting, deletion>>
learningVars == <<app, plug, moves, mac_to_port, learntFlow, ready, told>>
ingressVars == <<filters, routes, mirrors, heard, ingressFlow, ingressNext, ingressRequest>>
mirrorVars ==
    <<mirrorAddress, mirrorRoute, mirror, mirrorFlow, mirrorNext, mirrorWaiting, mirrorRequest>>
qosVars == <<joined, vlanList, rules, conf, events, ovs, queues, request>>
restVars == <<routers, xid, waiters, msgs, stream, client>>
stitchVars == <<nodes, net, accepted, at, owner, ofGateway, ofCustomer, routed, notices>>
linkVars == <<busy, holder, depth, faces, leaving, expected, spoilt, leaked>>
restartVars ==
    <<slice, stitched, stage, links, curip, usedip, undoable, configs, job, addressed,
      switches, stops>>

vars ==
    <<part, suspendedVars, vlanVars, flowVars, learningVars, ingressVars, mirrorVars, qosVars,
      restVars, stitchVars, linkVars, restartVars>>

\* Which application and where the hosts are matters to their own part only.
LearningInit ==
    /\ Learning!Init
    /\ part # "learning" =>
          app = "ryu" /\ plug = [n \in Host |-> CHOOSE p \in Port : TRUE]

MirrorInit ==
    \/ part # "vfc" /\ Mirror!Init /\ mirrorRequest = Vfc!Idle
    \/ part = "vfc" /\ Vfc!Init

Init ==
    /\ part \in Parts
    /\ Suspended!Init /\ Vlans!Init /\ Flows!Init /\ Ingress!Init /\ MirrorInit /\ Qos!Init
    /\ LearningInit /\ Rest!Init /\ Stitches!Init /\ Links!Init /\ Restart!Init

Moves ==
    \/ part = "suspended" /\ Suspended!Next
    \/ part = "vlans" /\ Vlans!Next
    \/ part = "flows" /\ Flows!Next
    \/ part = "learning" /\ Learning!Next
    \/ part = "ingress" /\ Ingress!Next
    \/ part = "mirror" /\ Mirror!Next /\ UNCHANGED mirrorRequest
    \/ part = "vfc" /\ Vfc!Next
    \/ part = "qos" /\ (Qos!Switches \/ Qos!Rules)
    \/ part = "conf" /\ (Qos!Switches \/ Qos!Configuration)
    \/ part = "rest" /\ Rest!Next
    \/ part = "stitches" /\ Stitches!Next
    \/ part = "links" /\ Links!Next
    \/ part = "restart" /\ Restart!Next

Next ==
    /\ Moves
    /\ UNCHANGED part
    /\ part # "suspended" => UNCHANGED suspendedVars
    /\ part # "vlans" => UNCHANGED vlanVars
    /\ part # "flows" => UNCHANGED flowVars
    /\ part # "learning" => UNCHANGED learningVars
    /\ part # "ingress" => UNCHANGED ingressVars
    /\ part \notin {"mirror", "vfc"} => UNCHANGED mirrorVars
    /\ part \notin {"qos", "conf"} => UNCHANGED qosVars
    /\ part # "rest" => UNCHANGED restVars
    /\ part # "stitches" => UNCHANGED stitchVars
    /\ part # "links" => UNCHANGED linkVars
    /\ part # "restart" => UNCHANGED restartVars

Spec == Init /\ [][Next]_vars

-----------------------------------------------------------------------------
(* The properties of the modules, as they are stated and explained there, of *)
(* the part that moves.                                                      *)
OneOutcome == part = "suspended" => Suspended!OneOutcome
Served == part = "vlans" => Vlans!Served
LeadsToHost == part = "learning" => Learning!LeadsToHost
Answered == part = "flows" => Flows!Answered
RightHop == LeadsToHost /\ Answered /\ (part = "flows" => Flows!RightHop)
FilterThenRoute == part = "ingress" => Ingress!FilterThenRoute
MirrorThenRoute ==
    /\ part = "mirror" => Mirror!MirrorThenRoute
    /\ part = "vfc" => Vfc!MirrorThenRoute
UniqueIds == part \in {"qos", "conf"} => Qos!UniqueIds
OwnAnswer == part = "rest" => Rest!OwnAnswer
Revocable == part = "stitches" => Stitches!Revocable
UndoneForgotten ==
    [][part = "stitches" =>
        \A k \in DOMAIN nodes, r \in Reserve : Stitches!Undone(k, r) => Stitches!Gone(r)]_vars
HangsAfterFailure == part = "links" => Links!HangsAfterFailure
AddressesFit == part = "restart" => Restart!AddressesFit
=============================================================================
