---------------------------- MODULE SwitchRouter -----------------------------
(***************************************************************************)
(* One VlanRouter of the Ryu application (rest_router.py): the routes of a *)
(* switch, the flows it has put into the switch for them, and the packets  *)
(* it holds back until it knows where to send them.                        *)
(*                                                                         *)
(* Greenlets take turns where they block, and nowhere else: the packet-in  *)
(* handler (one event at a time), the handlers of REST requests, and one   *)
(* timer per suspended packet.  They block while they wait for the SDX     *)
(* controller or for the flow statistics of the switch, and each time they *)
(* kill a timer.                                                           *)
(*                                                                         *)
(* The flows of addresses, ICMP answers and the default route are left     *)
(* out; the queue to the switch is taken to have room, and route_id to     *)
(* stay below 2^16, where it would spill into the VLAN's bits of a cookie. *)
(***************************************************************************)
EXTENDS Naturals, Sequences, FiniteSets, SequencesExt

CONSTANTS
  IpPrefixes,    \* records of the ips in a prefix and its mask length
  AnySource,     \* a route without a source
  Keys,          \* the <destination, source> pairs that routes are posted for
  Networks,      \* sets of addresses, those of the addresses of the router
  Gateways,      \* addresses of neighbouring routers
  Macs,
  Unknown,       \* gateway_mac None; as a flow, "send the packet to me"
  Packets,       \* records with an id, a src and a dst
  Clients,       \* greenlets of REST requests
  Handler,       \* the greenlet that handles packet-in events
  MaxSuspended,  \* MAX_SUSPENDPACKETS
  MaxRoutes,     \* bound: how often a route is posted
  MaxAddresses   \* bound: how often an address is posted

ASSUME UnknownAssumption == Unknown \notin Macs

VARIABLES
  table,        \* routing_tbl: per key, the route's id, gateway and its MAC
  flows,        \* in the switch: per key, the cookie's route id and a MAC
  nextId,       \* RoutingTable.route_id
  known,        \* packet_buffer.routes, a list that Before orders
  ipMac,        \* ip_mac of neighbours (mac_ip is its inverse)
  addresses,    \* address_data: the id of the address, per network
  nextAddress,  \* AddressData.address_id
  buffer,       \* packet_buffer: the suspended packets
  task,         \* what each greenlet is in the middle of
  fresh,        \* packets the switch has not sent to the controller yet
  forwarded,    \* packets that were sent back to the switch
  unreachable   \* packets whose timer went off

routeVars == <<table, flows, nextId, known, ipMac>>
packetVars == <<fresh, forwarded, unreachable>>
addressVars == <<addresses, nextAddress>>
vars == <<table, flows, nextId, known, ipMac, addresses, nextAddress, buffer, task,
          fresh, forwarded, unreachable>>

Greenlets == Clients \cup {Handler}

Idle == [kind |-> "idle"]

\* A greenlet that takes the packets of a list out of the buffer, and then
\* forwards them or deletes an address; the first at of them are out.
Releasing(packets, at) == [kind |-> "release", list |-> packets, at |-> at]
Discarding(id, packets, at) ==
  [kind |-> "discard", id |-> id, list |-> packets, at |-> at]

Init ==
  /\ table = [k \in {} |-> Unknown]
  /\ flows = [k \in {} |-> Unknown]
  /\ nextId = 1
  /\ known = {}
  /\ ipMac = [g \in {} |-> Unknown]
  /\ addresses = [n \in {} |-> 0]
  /\ nextAddress = 1
  /\ buffer = <<>>
  /\ task = [t \in Greenlets |-> Idle]
  /\ fresh = Packets
  /\ forwarded = {}
  /\ unreachable = {}

\* AddressData: the networks that contain an address, and one network more.
NetworkOf(ip) == {n \in DOMAIN addresses : ip \in n}

Registered(n) ==
  [m \in DOMAIN addresses \cup {n} |-> IF m = n THEN nextAddress ELSE addresses[m]]

(***************************************************************************)
(* Flows.  A route's flow has its key as match and priority, so that a     *)
(* flow that is set again replaces the old one with its cookie.  It sends  *)
(* the packets to the controller until the MAC of the gateway is known.    *)
(***************************************************************************)
PacketInFlow(id) == [id |-> id, mac |-> Unknown]

RoutingFlow(id, mac) == [id |-> id, mac |-> mac]

WithFlow(k, flow) ==
  [j \in DOMAIN flows \cup {k} |-> IF j = k THEN flow ELSE flows[j]]

\* Flows are deleted by cookie, rows of the routing table by identifier.
FlowsWithout(ids) == [k \in {j \in DOMAIN flows : flows[j].id \notin ids} |-> flows[k]]

RowsWithout(ids) == [k \in {j \in DOMAIN table : table[j].id \notin ids} |-> table[k]]

(***************************************************************************)
(* Routes.                                                                 *)
(***************************************************************************)
Priority(k) == k.dst.mask + IF k.src = AnySource THEN 0 ELSE k.src.mask

\* add_route_data appends and sorts by decreasing priority, which keeps the order
\* of equals.
Before(q, route) ==
  \/ Priority(q.key) > Priority(route.key)
  \/ Priority(q.key) = Priority(route.key) /\ q.id < route.id

KnownWithout(ids) == {route \in known : route.id \notin ids}

\* A mutation: a MAC that was learnt is never replaced.
WithMacOnce(routes, g, mac) ==
  [k \in DOMAIN routes |->
     IF routes[k].gateway = g /\ routes[k].mac = Unknown
     THEN [routes[k] EXCEPT !.mac = mac] ELSE routes[k]]

\* __update_routing_tbl: the routes of gateway g get its MAC, and their flows.
WithMac(routes, g, mac) ==
  [k \in DOMAIN routes |->
     IF routes[k].gateway = g THEN [routes[k] EXCEPT !.mac = mac] ELSE routes[k]]

FlowsWithMac(old, routes, g, mac) ==
  [k \in DOMAIN old \cup {k \in DOMAIN routes : routes[k].gateway = g} |->
     IF k \in DOMAIN routes /\ routes[k].gateway = g /\ routes[k].mac # mac
     THEN RoutingFlow(routes[k].id, mac)
     ELSE old[k]]

(***************************************************************************)
(* Which suspended packets an answer of gateway g releases (get_data).     *)
(* The routes that match a packet are walked down until one has another    *)
(* gateway, and each before it lists the packet once more.  The source of  *)
(* a route without one is the number 0, which no text of an address is.    *)
(***************************************************************************)
Matches(k, p) ==
  /\ k.src # AnySource
  /\ p.src \in k.src.ips
  /\ p.dst \in k.dst.ips

TimesListed(routes, p, g) ==
  LET matching == {route \in routes : Matches(route.key, p)}
      other    == {route \in matching : route.gateway # g}
  IN  IF p.dst = g THEN 1
      ELSE Cardinality({route \in matching \ other : \A q \in other : Before(route, q)})

\* The packets of the buffer in their order, each as often as it is listed.
Listed(times) ==
  FlattenSeq([i \in DOMAIN buffer |-> [j \in 1 .. times[i] |-> buffer[i]]])

Waiting(routes, g) ==
  Listed([i \in DOMAIN buffer |-> TimesListed(routes, buffer[i], g)])

\* _send_suspended_packets and delete(del_addr) begin: greenlet t takes out
\* the first packet of the list and blocks on the kill of its timer.
Begin(t, packets, work) ==
  IF packets = <<>>
  THEN task' = [task EXCEPT ![t] = Idle] /\ UNCHANGED buffer
  ELSE /\ task' = [task EXCEPT ![t] = work]
       /\ buffer' = RemoveFirst(buffer, packets[1])

(***************************************************************************)
(* A POST of a route (_set_routing_data).  The gateway has to be in a      *)
(* registered network.                                                     *)
(***************************************************************************)
AddRoute(t, k, g) ==
  /\ task[t] = Idle
  /\ nextId <= MaxRoutes
  /\ NetworkOf(g) # {}
  /\ nextId' = nextId + 1
  /\ known' = known \cup {[key |-> k, id |-> nextId, gateway |-> g]}
  /\ LET added  == [id |-> nextId, gateway |-> g, mac |-> Unknown]
         routes == [j \in DOMAIN table \cup {k} |-> IF j = k THEN added ELSE table[j]]
     IN  \/ /\ g \notin DOMAIN ipMac
            /\ table' = routes
            /\ flows' = WithFlow(k, PacketInFlow(nextId))
            /\ UNCHANGED <<buffer, task>>
         \/ /\ g \in DOMAIN ipMac
            /\ table' = WithMac(routes, g, ipMac[g])
            /\ flows' = FlowsWithMac(flows, routes, g, ipMac[g])
            /\ Begin(t, Waiting(known', g), Releasing(Waiting(known', g), 1))
  /\ UNCHANGED <<ipMac, addressVars, fresh, forwarded, unreachable>>

(***************************************************************************)
(* A DELETE of a route, or of all of them (_delete_routing_data), in two   *)
(* steps: the flows are read from the switch, and what was read is then    *)
(* deleted by its cookies.                                                 *)
(***************************************************************************)
Flow(k) == [key |-> k, id |-> flows[k].id]

ReadRoutes(t, read) ==
  /\ task[t] = Idle
  /\ read # {}
  /\ task' = [task EXCEPT ![t] = [kind |-> "delete", read |-> read]]
  /\ UNCHANGED <<routeVars, addressVars, buffer, packetVars>>

\* A mutation: flows are deleted by their match, as OfCtl_v1_0 does.
DeleteRoutesByMatch(t) ==
  /\ task[t].kind = "delete"
  /\ LET ids == {flow.id : flow \in task[t].read}
     IN  /\ flows' = [k \in DOMAIN flows \ {flow.key : flow \in task[t].read} |-> flows[k]]
         /\ table' = RowsWithout(ids)
         /\ known' = KnownWithout(ids)
  /\ task' = [task EXCEPT ![t] = Idle]
  /\ UNCHANGED <<nextId, ipMac, addressVars, buffer, packetVars>>

DeleteRoutes(t) ==
  /\ task[t].kind = "delete"
  /\ LET ids == {flow.id : flow \in task[t].read}
     IN  /\ flows' = FlowsWithout(ids)
         /\ table' = RowsWithout(ids)
         /\ known' = KnownWithout(ids)
  /\ task' = [task EXCEPT ![t] = Idle]
  /\ UNCHANGED <<nextId, ipMac, addressVars, buffer, packetVars>>

(***************************************************************************)
(* Addresses.  An address is not deleted while a route's gateway is in its *)
(* network; that is looked up before the flows are read.  The packets for  *)
(* its network are taken out of the buffer, and dropped.                   *)
(***************************************************************************)
SetAddress(t, n) ==
  /\ task[t] = Idle
  /\ nextAddress <= MaxAddresses
  /\ n \notin DOMAIN addresses
  /\ addresses' = Registered(n)
  /\ nextAddress' = nextAddress + 1
  /\ UNCHANGED <<routeVars, buffer, task, packetVars>>

\* _chk_addr_relation_route
HasRoutes(n) == \E k \in DOMAIN table : table[k].gateway \in n

ReadAddress(t, n) ==
  /\ task[t] = Idle
  /\ n \in DOMAIN addresses
  /\ ~ HasRoutes(n)
  /\ task' = [task EXCEPT ![t] = [kind |-> "unregister", id |-> addresses[n]]]
  /\ UNCHANGED <<routeVars, addressVars, buffer, packetVars>>

Without(id) == [n \in {m \in DOMAIN addresses : addresses[m] # id} |-> addresses[n]]

DeleteAddress(t) ==
  /\ task[t].kind = "unregister"
  /\ LET id == task[t].id
         inNetwork(p) == \E n \in NetworkOf(p.dst) : addresses[n] = id
         packets == Listed([i \in DOMAIN buffer |-> IF inNetwork(buffer[i]) THEN 1 ELSE 0])
     IN  /\ Begin(t, packets, Discarding(id, packets, 1))
         /\ addresses' = IF packets = <<>> THEN Without(id) ELSE addresses
  /\ UNCHANGED <<routeVars, nextAddress, packetVars>>

(***************************************************************************)
(* Packets.  The handler buffers a packet for a neighbour, asks for its    *)
(* MAC, and goes on; without a route it asks the SDX controller and waits  *)
(* for the answer, unless a packet of the same pair is buffered already.   *)
(***************************************************************************)
RoutesFor(p) ==
  {k \in DOMAIN table :
     p.dst \in k.dst.ips /\ (k.src # AnySource => p.src \in k.src.ips)}

BestRoutes(p) ==
  {k \in RoutesFor(p) : \A j \in RoutesFor(p) : Priority(j) <= Priority(k)}

Internal(p) == \E n \in NetworkOf(p.dst) : p.src \in n

\* The packet is suspended, if at all, and the handler goes on or waits.
Suspends(p, packets, work) ==
  /\ buffer' = packets
  /\ task' = [task EXCEPT ![Handler] = work]

HasRoom == Len(buffer) < MaxSuspended

PacketIn(p) ==
  /\ task[Handler] = Idle
  /\ p \in fresh
  /\ fresh' = fresh \ {p}
  /\ \/ /\ ~ HasRoom
        /\ Suspends(p, buffer, Idle)
     \/ /\ HasRoom /\ Internal(p)
        /\ Suspends(p, Append(buffer, p), Idle)
     \/ /\ HasRoom /\ ~ Internal(p)
        /\ \E k \in BestRoutes(p) :
             Suspends(p, IF NetworkOf(table[k].gateway) = {} THEN buffer
                         ELSE Append(buffer, p), Idle)
     \/ /\ HasRoom /\ ~ Internal(p)
        /\ BestRoutes(p) = {}
        /\ Suspends(p, Append(buffer, p),
                    IF \E q \in ToSet(buffer) : q.src = p.src /\ q.dst = p.dst
                    THEN Idle ELSE [kind |-> "query"])
  /\ UNCHANGED <<routeVars, addressVars, forwarded, unreachable>>

\* The SDX controller answers; the routes it posts come as requests.
Answered ==
  /\ task[Handler].kind = "query"
  /\ task' = [task EXCEPT ![Handler] = Idle]
  /\ UNCHANGED <<routeVars, addressVars, buffer, packetVars>>

\* The timer of a suspended packet goes off.
Timeout(p) ==
  /\ p \in ToSet(buffer)
  /\ buffer' = RemoveFirst(buffer, p)
  /\ unreachable' = unreachable \cup {p}
  /\ UNCHANGED <<routeVars, addressVars, task, fresh, forwarded>>

(***************************************************************************)
(* An ARP packet from gateway g (_packetin_arp).  It is dropped if g is    *)
(* known with another MAC or the MAC with another address.  The routes of  *)
(* g are updated by all of them, but the MAC is remembered only from those *)
(* that ask or answer the router or announce g itself.                     *)
(***************************************************************************)
Accepted(g, mac) ==
  /\ NetworkOf(g) # {}
  /\ g \in DOMAIN ipMac => ipMac[g] = mac
  /\ \A h \in DOMAIN ipMac : ipMac[h] = mac => h = g

Learns(g, mac) ==
  /\ table' = WithMac(table, g, mac)
  /\ flows' = FlowsWithMac(flows, table, g, mac)

Remembers(g, mac) ==
  ipMac' = [h \in DOMAIN ipMac \cup {g} |-> IF h = g THEN mac ELSE ipMac[h]]

ArpRequest(g, mac) ==
  /\ task[Handler] = Idle
  /\ Accepted(g, mac)
  /\ Learns(g, mac)
  /\ \/ Remembers(g, mac)       \* for the router, or about g itself
     \/ UNCHANGED ipMac         \* for a host
  /\ UNCHANGED <<nextId, known, addressVars, buffer, task, packetVars>>

ArpReply(g, mac) ==
  /\ task[Handler] = Idle
  /\ Accepted(g, mac)
  /\ Learns(g, mac)
  /\ Remembers(g, mac)
  /\ Begin(Handler, Waiting(known, g), Releasing(Waiting(known, g), 1))
  /\ UNCHANGED <<nextId, known, addressVars, packetVars>>

(***************************************************************************)
(* A greenlet that has been taking packets out of the buffer wakes up.  It *)
(* takes out the next one; if somebody else has done so, list.remove       *)
(* raises an exception that ends the handler, and those that it has taken  *)
(* out are lost.  After the last one it finishes its work.                 *)
(***************************************************************************)
TakesOut == {t \in Greenlets : task[t].kind \in {"release", "discard"}}

\* A mutation: a packet that is not in the buffer is passed over.
FailsNever(t) == FALSE

Fails(t) == task[t].list[task[t].at + 1] \notin ToSet(buffer)

TakeNext(t) ==
  /\ t \in TakesOut
  /\ task[t].at < Len(task[t].list)
  /\ IF Fails(t)
     THEN task' = [task EXCEPT ![t] = Idle] /\ UNCHANGED buffer
     ELSE /\ task' = [task EXCEPT ![t].at = @ + 1]
          /\ buffer' = RemoveFirst(buffer, task[t].list[task[t].at + 1])
  /\ UNCHANGED <<routeVars, addressVars, packetVars>>

Finish(t) ==
  /\ t \in TakesOut
  /\ task[t].at = Len(task[t].list)
  /\ task' = [task EXCEPT ![t] = Idle]
  /\ \/ /\ task[t].kind = "release"
        /\ forwarded' = forwarded \cup ToSet(task[t].list)
        /\ UNCHANGED addresses
     \/ /\ task[t].kind = "discard"
        /\ addresses' = Without(task[t].id)
        /\ UNCHANGED forwarded
  /\ UNCHANGED <<routeVars, nextAddress, buffer, fresh, unreachable>>

Next ==
  \/ \E t \in Clients, k \in Keys, g \in Gateways : AddRoute(t, k, g)
  \/ \E t \in Clients : ReadRoutes(t, {Flow(k) : k \in DOMAIN flows})
  \/ \E t \in Clients, k \in DOMAIN flows : ReadRoutes(t, {Flow(k)})
  \/ \E t \in Clients : DeleteRoutes(t) \/ DeleteAddress(t)
  \/ \E t \in Clients, n \in Networks : SetAddress(t, n) \/ ReadAddress(t, n)
  \/ \E p \in Packets : PacketIn(p) \/ Timeout(p)
  \/ Answered
  \/ \E g \in Gateways, mac \in Macs : ArpRequest(g, mac) \/ ArpReply(g, mac)
  \/ \E t \in Greenlets : TakeNext(t) \/ Finish(t)

Spec == Init /\ [][Next]_vars

------------------------------------------------------------------------------
\* The packets that greenlet t has taken out of the buffer so far.
Taken(t) == {task[t].list[i] : i \in 1 .. task[t].at}

(***************************************************************************)
(* The flows of the switch follow the routing table, although a route is   *)
(* deleted by what was read from the switch some time before: the routes   *)
(* in the table, and no others, have a flow, with the identifier that      *)
(* deletes it and the MAC of the table; no identifier stands for two.      *)
(***************************************************************************)
FlowsFollowTable ==
  /\ DOMAIN flows = DOMAIN table
  /\ \A k \in DOMAIN table : flows[k] = [id |-> table[k].id, mac |-> table[k].mac]
  /\ \A j, k \in DOMAIN table : table[j].id = table[k].id => j = k

(***************************************************************************)
(* Traffic goes to the gateway that the route names: once the MAC of a     *)
(* gateway is remembered, each of its routes has that MAC, whether it was  *)
(* posted before or after and whatever ARP packets came before; and no two *)
(* gateways are remembered with one MAC.                                   *)
(***************************************************************************)
GatewayMacs ==
  /\ \A k \in DOMAIN table :
       table[k].gateway \in DOMAIN ipMac => table[k].mac = ipMac[table[k].gateway]
  /\ \A g, h \in DOMAIN ipMac : ipMac[g] = ipMac[h] => g = h

(***************************************************************************)
(* A packet is answered once: it is in one place, in the buffer, in the    *)
(* hands of one greenlet, forwarded or given up.  Greenlets that work on   *)
(* overlapping lists, and timers that go off meanwhile, never make it two. *)
(***************************************************************************)
AnsweredOnce ==
  /\ fresh \cap (ToSet(buffer) \cup forwarded \cup unreachable) = {}
  /\ ToSet(buffer) \cap (forwarded \cup unreachable) = {}
  /\ forwarded \cap unreachable = {}
  /\ \A t \in TakesOut :
       /\ Taken(t) \cap (fresh \cup ToSet(buffer) \cup forwarded \cup unreachable) = {}
       /\ \A u \in TakesOut \ {t} : Taken(t) \cap Taken(u) = {}

(***************************************************************************)
(* "ARP reply to router port -> suspend packets forward" (the handler of   *)
(* ARP packets): when gateway g answers, no packet stays suspended that    *)
(* the routing table sends to g, except those about to be taken out.       *)
(***************************************************************************)
NextHops(p) == {table[k].gateway : k \in BestRoutes(p)}

SuspendedForwarded ==
  [][\A g \in Gateways, mac \in Macs :
       ArpReply(g, mac) =>
         \A p \in ToSet(buffer) : NextHops(p) = {g} => p \in ToSet(Waiting(known, g))]_vars
==============================================================================
