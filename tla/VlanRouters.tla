----------------------------- MODULE VlanRouters ------------------------------
(***************************************************************************)
(* The life of the VLAN routers of one switch, as the application for      *)
(* virtual forwarding contexts has it (vfc_router.py): a router object per *)
(* VLAN is made by the first request that posts something to the VLAN, and *)
(* removed by the request that leaves it without an address and a route.   *)
(* A deletion asks the switch for its flows, and while it waits for the    *)
(* answer other requests, packets and timers have their turn.              *)
(*                                                                         *)
(* A VLAN has room for one address, one route over a gateway of it and one *)
(* default route; flows are told apart by where they match, and are        *)
(* deleted by cookie.                                                      *)
(***************************************************************************)
EXTENDS Naturals, Sequences

CONSTANTS
    Vlan,        \* the VLANs, with NoVlan
    NoVlan,      \* VLANID_NONE: its router stays
    Busy,        \* bound: the VLANs that requests and packets are for
    Client,      \* greenlets that handle REST requests
    MaxRouters,  \* bound: router objects made while the switch is connected
    MaxIds       \* bound: addresses, and routes, posted to one router object

VARIABLES
    router,      \* the router objects made since the switch joined
    table,       \* the Router of the switch: VLAN to router object, 0 if none
    connected,   \* whether the switch is connected
    flow,        \* per VLAN and place: the cookie of the flow there
    client       \* per client: its request

vars == <<router, table, connected, flow, client>>

Places == {"default", "address", "route"}   \* what the flows of a VLAN match
RoutePlaces == {"default", "route"}
NoFlow == <<"none", 0>>
DropFlow == <<"default", 0>>

-----------------------------------------------------------------------------
NewRouter(v) ==
    [vlan |-> v, address |-> 0, routes |-> [p \in RoutePlaces |-> 0],
     macs |-> {}, waiting |-> {}, addressId |-> 1, routeId |-> 1]

HasRoutes(r) == \E p \in RoutePlaces : r.routes[p] # 0
Unneeded(r) == r.address = 0 /\ ~HasRoutes(r)

(* The router that a request for VLAN v gets; a new one where there is none. *)
Target(v) == IF table[v] # 0 THEN router[table[v]] ELSE NewRouter(v)

(* After a post: router r is in the table; a new one has set its drop flow.  *)
Posting(v, r, flows) ==
    IF table[v] # 0
    THEN /\ router' = [router EXCEPT ![table[v]] = r]
         /\ flow' = flows
         /\ UNCHANGED table
    ELSE /\ Len(router) < MaxRouters
         /\ router' = Append(router, r)
         /\ table' = [table EXCEPT ![v] = Len(router) + 1]
         /\ flow' = [flows EXCEPT ![v]["default"] = DropFlow]

(* Flows are deleted by cookie; the drop flow returns for a default route.   *)
FlowsWithout(v, cookies, restore) ==
    [flow EXCEPT ![v] = [p \in Places |->
        IF @[p] \notin cookies THEN @[p]
        ELSE IF p = "default" /\ restore THEN DropFlow ELSE NoFlow]]

(* Requests: what a client is waiting for, on behalf of which router object. *)
Idle == [stage |-> "idle", job |-> "none", obj |-> 0, skip |-> 0, seen |-> {}]
Asked(job, o, skip) == [Idle EXCEPT !.stage = "asked", !.job = job, !.obj = o, !.skip = skip]

(* _del_vlan_router at the end of a request: the router that is in the table *)
(* by then (o, in state r) goes if it is unneeded.                           *)
Remainder(v, o, r) == IF v # NoVlan /\ o # 0 /\ Unneeded(r) THEN Asked("remove", o, 0) ELSE Idle

-----------------------------------------------------------------------------
(* The switch joins, with the flows it has kept if any, or leaves: requests  *)
(* under way then go on with objects that nobody uses any more.              *)
RegisterRouter(kept) ==
    /\ ~connected /\ Len(router) < MaxRouters
    /\ connected' = TRUE
    /\ router' = Append(router, NewRouter(NoVlan))
    /\ table' = [table EXCEPT ![NoVlan] = Len(router) + 1]
    /\ flow' = [v \in Vlan |-> [p \in Places |->
                   IF v = NoVlan /\ p = "default" THEN DropFlow
                   ELSE IF kept THEN flow[v][p] ELSE NoFlow]]
    /\ UNCHANGED client

UnregisterRouter ==
    /\ connected
    /\ connected' = FALSE
    /\ table' = [v \in Vlan |-> 0]
    /\ router' = <<>>
    /\ client' = [c \in Client |-> Idle]
    /\ UNCHANGED flow

-----------------------------------------------------------------------------
Ready(c) == connected /\ client[c] = Idle

WithAddress(r) == [r EXCEPT !.address = r.addressId, !.addressId = @ + 1]

SetAddress(c, v) ==
    LET r == Target(v) IN
    /\ Ready(c) /\ r.address = 0 /\ r.addressId <= MaxIds
    /\ Posting(v, WithAddress(r),
               [flow EXCEPT ![v]["address"] = <<"address", r.addressId>>])
    /\ UNCHANGED <<connected, client>>

(* A route without a MAC, over the one that was there: its flow sends        *)
(* packets to the controller.                                                *)
WithRoute(r, p) == [r EXCEPT !.routes[p] = r.routeId, !.routeId = @ + 1, !.macs = @ \ {p}]

SetRoute(c, v, p) ==
    LET r == Target(v) IN
    /\ Ready(c) /\ r.address # 0 /\ r.routeId <= MaxIds
    /\ Posting(v, WithRoute(r, p),
               [flow EXCEPT ![v][p] = <<"route", r.routeId>>])
    /\ UNCHANGED <<connected, client>>

(* A post that is refused: a second address, a route without an address.     *)
SetNothing(c, v) ==
    /\ Ready(c)
    /\ Posting(v, Target(v), flow)
    /\ client' = [client EXCEPT ![c] = Remainder(v, table'[v], Target(v))]
    /\ UNCHANGED connected

(* A deletion: an address that a route needs now is skipped.                 *)
AskDelete(c, v, job) ==
    /\ Ready(c) /\ table[v] # 0
    /\ client' = [client EXCEPT ![c] =
           Asked(job, table[v], IF HasRoutes(Target(v)) THEN Target(v).address ELSE 0)]
    /\ UNCHANGED <<router, table, connected, flow>>

(* The switch answers, with all flows or, when the wait ended first, some.   *)
StatsReply(c) ==
    /\ client[c].stage = "asked"
    /\ \E some \in SUBSET Places :
          client' = [client EXCEPT ![c].stage = "answered",
                        ![c].seen = {flow[router[client[c].obj].vlan][p] : p \in some} \ {NoFlow}]
    /\ UNCHANGED <<router, table, connected, flow>>

\* A mutation: the address that a route needs is not skipped.
DoomedAll(c) == {k \in client[c].seen : k[1] = client[c].job}

Doomed(c) ==
    {k \in client[c].seen : k[1] = client[c].job /\ (k[1] = "address" => k[2] # client[c].skip)}

(* Without the rows whose flows were seen, and the packets for the address.  *)
WithoutRows(r, cookies) ==
    LET gone == <<"address", r.address>> \in cookies IN
    [r EXCEPT !.address = IF gone THEN 0 ELSE @,
              !.waiting = IF gone THEN @ \ {"near"} ELSE @,
              !.routes = [p \in RoutePlaces |-> IF <<"route", @[p]>> \in cookies THEN 0 ELSE @[p]]]

DeleteData(c) ==
    LET o == client[c].obj  v == router[o].vlan IN
    /\ client[c].stage = "answered" /\ client[c].job \in {"address", "route"}
    /\ flow' = FlowsWithout(v, Doomed(c), TRUE)
    /\ router' = [router EXCEPT ![o] = WithoutRows(router[o], Doomed(c))]
    /\ client' = [client EXCEPT ![c] =
           IF table[v] = 0 THEN Idle ELSE Remainder(v, table[v], router'[table[v]])]
    /\ UNCHANGED <<table, connected>>

(* VlanRouter.delete and what follows it.  With packets still suspended its  *)
(* assertion fails, and the router stays in the table.                       *)
RemoveRouter(c) ==
    LET o == client[c].obj  v == router[o].vlan IN
    /\ client[c].stage = "answered" /\ client[c].job = "remove"
    /\ flow' = FlowsWithout(v, client[c].seen, FALSE)
    /\ table' = IF router[o].waiting = {} THEN [table EXCEPT ![v] = 0] ELSE table
    /\ client' = [client EXCEPT ![c] = Idle]
    /\ UNCHANGED <<router, connected>>

-----------------------------------------------------------------------------
(* Packets that a flow sends to the controller, to a host of the address     *)
(* (near) or over the route (far), wait for an ARP reply.                    *)
PacketIn(v, kind) ==
    LET r == router[table[v]] IN
    /\ table[v] # 0 /\ r.address # 0
    /\ kind = "near" => flow[v]["address"] # NoFlow
    /\ kind = "far" => r.routes["route"] # 0 /\ "route" \notin r.macs /\ flow[v]["route"] # NoFlow
    /\ router' = [router EXCEPT ![table[v]].waiting = @ \cup {kind}]
    /\ UNCHANGED <<table, connected, flow, client>>

(* An ARP reply of a host, or of the gateway, which completes its routes.    *)
RowsUpdated(r) == {p \in RoutePlaces \ r.macs : r.routes[p] # 0}

ArpReply(v, kind) ==
    LET o == table[v]  r == router[o]
        rows == IF kind = "near" THEN {} ELSE RowsUpdated(r) IN
    /\ o # 0 /\ r.address # 0
    /\ router' = [router EXCEPT ![o].waiting = @ \ {kind}, ![o].macs = @ \cup rows]
    /\ flow' = [flow EXCEPT ![v] =
           [p \in Places |-> IF p \in rows THEN <<"route", r.routes[p]>> ELSE @[p]]]
    /\ UNCHANGED <<table, connected, client>>

Timeout(o, kind) ==
    /\ kind \in router[o].waiting
    /\ router' = [router EXCEPT ![o].waiting = @ \ {kind}]
    /\ UNCHANGED <<table, connected, flow, client>>

-----------------------------------------------------------------------------
Init ==
    /\ router = <<>>
    /\ table = [v \in Vlan |-> 0]
    /\ connected = FALSE
    /\ flow = [v \in Vlan |-> [p \in Places |-> NoFlow]]
    /\ client = [c \in Client |-> Idle]

Request(c) ==
    \/ \E v \in Busy : SetAddress(c, v) \/ SetNothing(c, v)
    \/ \E v \in Busy, p \in RoutePlaces : SetRoute(c, v, p)
    \/ \E v \in Busy, job \in {"address", "route"} : AskDelete(c, v, job)
    \/ StatsReply(c) \/ DeleteData(c) \/ RemoveRouter(c)

Packets ==
    \E kind \in {"near", "far"} :
        \/ \E v \in Busy : PacketIn(v, kind) \/ ArpReply(v, kind)
        \/ \E o \in DOMAIN router : Timeout(o, kind)

Next ==
    \/ \E kept \in BOOLEAN : RegisterRouter(kept)
    \/ UnregisterRouter
    \/ \E c \in Client : Request(c)
    \/ Packets

Spec == Init /\ [][Next]_vars

-----------------------------------------------------------------------------
(* What a router in the table lists is what the switch does: the flow of each *)
(* address and route is there, and the gateway of each route is in reach.     *)
Served ==
    \A v \in Vlan : table[v] # 0 =>
        LET r == router[table[v]] IN
        /\ r.address # 0 => flow[v]["address"] = <<"address", r.address>>
        /\ \A p \in RoutePlaces : r.routes[p] # 0 =>
            r.address # 0 /\ flow[v][p] = <<"route", r.routes[p]>>

(* "assert len(self.packet_buffer) == 0": a router that is deleted has no     *)
(* packet that waits.                                                         *)
NothingSuspended ==
    \A c \in Client : client[c].stage = "answered" /\ client[c].job = "remove"
        => router[client[c].obj].waiting = {}
=============================================================================
