---------------------------- MODULE MCApplications ----------------------------
(***************************************************************************)
(* A small instance of every part of Applications.                         *)
(***************************************************************************)
EXTENDS Applications

CONSTANTS p1, p2, p3, g, h, v0, v1, c, d, s1, s2, q1, q2

-----------------------------------------------------------------------------
(* Two gateways; p1 has a route over each of them, p3 is for the host g.     *)
MCHostOf == [p \in {p3} |-> g]
MCPacketRoutes ==
    {[packets |-> {p1, p2}, gateway |-> g, prio |-> 1],
     [packets |-> {p1}, gateway |-> h, prio |-> 2]}

-----------------------------------------------------------------------------
(* Two internal networks; a route over a host of each, and a default route.  *)
Network(start, len) == [start |-> start, len |-> len]

MCAddresses == {[start |-> 0, len |-> 2, gw |-> 1], [start |-> 4, len |-> 3, gw |-> 5]}
MCFlowRoutes ==
    {[start |-> 8, len |-> 1, gateway |-> 2], [start |-> 12, len |-> 2, gateway |-> 4],
     [start |-> 0, len |-> 0, gateway |-> 2]}
MCFlowPackets == ({3} \X {1, 2, 4, 9, 13}) \cup ({13} \X {1, 2, 3, 4, 9})

-----------------------------------------------------------------------------
(* Filters of a destination, of a port, and of a source and a destination;   *)
(* routes for a destination and for the rest; a mirror of the destination.   *)
Fields(port, src, dst) == [port |-> port, src |-> src, dst |-> dst]
Any == Network(0, 0)

MCFilters ==
    {Fields(0, Any, Network(4, 1)), Fields(1, Any, Any), Fields(0, Network(6, 2), Network(4, 1))}
MCIngressRoutes == {Fields(0, Any, Network(4, 1)), Fields(0, Any, Any)}
MCIngressMirrors == {Fields(0, Any, Network(4, 1))}
MCIngressPackets == {Fields(1, 2, 5), Fields(1, 6, 5), Fields(1, 2, 3)}

-----------------------------------------------------------------------------
(* The two internal networks of the flows; a route of one of them and a      *)
(* default route; a mirror of one of them and one of all sources; a station  *)
(* that is also the gateway, and one that is a host; a QoS rule with the     *)
(* number of the second address.                                             *)
Pkt(src, dst) == [src |-> src, dst |-> dst]

MCMirrorRoutes == {Pkt(Network(4, 3), Network(8, 1)), Pkt(Any, Any)}
MCMirrors == {Pkt(Network(4, 3), Network(8, 1)), Pkt(Any, Network(8, 2))}
MCMirrorPackets == {Pkt(4, 9), Pkt(4, 13), Pkt(2, 9), Pkt(4, 3), Pkt(2, 1)}

\* The other mirroring router has the network with the gateway and the stations.
MCVfcAddresses == {[start |-> 0, len |-> 2, gw |-> 1]}

-----------------------------------------------------------------------------
(* QoS rules: a match with a field without a value and the same without the  *)
(* field; the latter with two priorities; and one that is refused.           *)
MCMatch ==
    {[prio |-> 1, match |-> [nw_dst |-> "net"]],
     [prio |-> 1, match |-> [nw_dst |-> "net", ip_dscp |-> "0"]],
     [prio |-> 2, match |-> [nw_dst |-> "net"]],
     [prio |-> 1, match |-> [nw_dst |-> "net", nw_proto |-> "ICMPv6"]]}

-----------------------------------------------------------------------------
(* One of the two switches is asked for statistics, twice, by whichever of   *)
(* the three applications: c asks the router and the QoS application, d the  *)
(* REST service of OpenFlow, once with an answer of one message.  Nobody     *)
(* offers what meters are.                                                   *)
Ask(service, path) == [service |-> service, path |-> path]

MCMaxXid == [s \in {s1, s2} |-> IF s = s1 THEN 2 ELSE 0]
MCVersion == [s \in {s1, s2} |-> 4]
MCOffers == [n \in {4} |-> {"flow", "queueconfig"}]
MCAskedBy ==
    [k \in {c, d} |-> IF k = c THEN {Ask("router", "flow"), Ask("qos", "flow")}
                      ELSE {Ask("stats", "flowdesc"), Ask("stats", "queueconfig")}]

(* A gateway each for the two customers to begin with.                       *)
MCGatewayFor == [r \in {q1, q2} |-> IF r = q1 THEN g ELSE h]

(* Three routers, one with the stitches of three customers; the number that  *)
(* is read from the names of stitches is among those of links.               *)
MCRouterOf == [k \in {c, d, h} |-> s1]
MCNetOf == [k \in {c, d, h} |-> IF k = c THEN 21 ELSE IF k = d THEN 22 ELSE 23]

=============================================================================
