# Exoplex: TLA+ models of an SDX controller

Exoplex is the controller of software defined exchanges (SDXes). An SDX is a slice of a testbed
(ExoGENI or Chameleon) whose virtual switches join the networks of customers and of other SDXes.
Each SDX runs one controller process (java, `src/exoplex`) with a REST interface, a Ryu process
(python, `src/ryu-apps` and its copies in `sdnctrl`) that programs the switches, and asks a SAFE
server, a logic based authorization service, before it stitches a network, accepts an advertisement
or connects two customers. SDX controllers exchange route and policy advertisements much as BGP
speakers do.

## The system: components, state, interaction

`JP` is `src/exoplex/src/main/java`, `RA` is `src/ryu-apps`, `SC` is
`src/exoplex/src/main/resources/sdnctrl`, where the python applications of the deployed controller are.

| component | source | state | operations |
|---|---|---|---|
| route and policy engine | `JP/exoplex/sdx/advertise` | tables of routes and policies, matches, chosen routes, forwarding table, propagated routes, cached verdicts | `receiveAdvertise`, `receiveOutboundPolicy`, `getAllAdvertises`, `getAllPolicies` |
| prefixes and spatial index | `JP/aqt` | rectangles and ranges (pure); a quadtree and a prefix tree | `prefixToRange`, `intersect`, `compareInbound`/`Outbound`, `insert`, `remove`, `query` |
| SDX manager: peering | `JP/exoplex/sdx/core` | peers, stitched SDXes | `processStitchCmd`, `stitchRequest`, `processPeerRequest`, `processBgpAdvertise`, `processPolicyAdvertise` |
| SDX manager: customers | same | reservations, gateways, prefixes and their owners, links, addresses in use | `stitchRequest`, `stitchChameleon`, `undoStitch`, `notifyPrefix`, `connectionRequest`, `revokePrefix`, `startSdxServer` |
| REST service | `JP/exoplex/sdx/core/RestServiceBase.java` | one lock over `/bgp` | one handler per manager operation |
| SAFE client | `JP/exoplex/sdx/safe` | the server's address and the controller's key hash | `authorize*`, `verifyAS`, `verifyCompliantPath`, `post` |
| routing manager and network graph | `JP/exoplex/sdx/network` | routers, links with bandwidth, paths and gateways per prefix pair, flow identifiers | `configurePath`, `newLink`, `newExternalLink`, `findPath`, `deleteRoute`, `setQos` |
| slice managers | `JP/exoplex/sdx/slice` | the slice's manifest, a lock, the interfaces expected at each router | `lockSlice`, `commitAndWait`, `waitForInterfaces`, `reloadSlice`, ... |
| Bro (intrusion detection) manager | `JP/exoplex/sdx/bro` | instances, load, tickets | `setMirrorAsync`, `deployNewBro`, ... |
| switch application | `RA/rest_router.py` | per switch and VLAN: addresses, routing table, ARP tables, suspended packets | REST set/delete of data, packet-in handlers, ARP retries |
| its copies | `RA/vfc_router.py`, `RA/vfc_router_mirror.py`, `RA/ingress_router.py`, `RA/rest_router_mirror.py`, `SC/rest_router.py`, `SC/rest_router_mirror.py` | the same, and filters and mirrors | the same, in two or three tables |
| quality of service, configuration | `RA/rest_qos.py`, `RA/rest_conf_switch.py`, copies in `SC` | queues, counters of rule ids, the address of the OVSDB server | set and delete of queues and rules, events of the configuration |
| REST service of OpenFlow | `RA/ofctl_rest.py`, copy in `SC` | waiters for statistics | one request per kind of statistics |
| learning switches | `RA/simple_switch_13*.py`, `SC/simple_switch*.py`, `SC/ryu.py` | the port of each MAC | packets, ports that come and go |
| spanning tree library | `RA/stplib.py` | per bridge and port: roles, states, priorities, timers, topology change flags | BPDUs, timers, link events, joining and leaving |
| SAFE policies | `src/safe-scripts` | logic programs evaluated by the SAFE server | (external to the controller) |

The parts meet as follows. A customer, or the operator of an SDX, tells its controller over REST to
stitch to another SDX (`/cmd`), and posts route and policy advertisements (`/bgp`, `/policy`). The
handler runs under the manager's monitor; it hands the advertisement to the engine, installs the
forwarding entries that the engine returns through the routing manager (which programs the switches
through Ryu) and starts a thread per peer that posts the advertisement on. The SAFE server is asked
synchronously from inside the handler. A stitch command is a handler too, and it posts to the other
SDX (`/stitchrequest`, `/peer`) and waits for the answers while it holds its own monitor. Requests that
change the slice take its lock, wait for the testbed to come up with interfaces, and then post the
addresses of new links to the switches' routers. The Ryu process has one event loop and greenlets, which
take turns where they block: for statistics of a switch, for the SDX controller (which a packet without a
route is reported to), for a timer to be killed. The deployed controller runs a router application, in
the mirroring variant beside the QoS application and with the tables shared between the two.

What is hard here:

* **order of arrival**: advertisements come from several neighbours in any order, and nested prefixes
  make the engine's answer depend on what is already in its tables;
* **interleaving** of stitch commands, peering and propagation of several SDXes, with messages that
  are posted from threads of their own: unordered, and lost when a post fails; of greenlets in the
  switch application that go on with what they read before they blocked;
* **blocking calls under a lock**: two SDXes that stitch to each other wait for each other; a failed
  request leaves the slice locked, or an interface expected that never comes;
* **partial failure** inside a handler: the engine's tables are changed before the switches are;
  statistics that end before the switch has sent them all;
* **encodings**: cookies and priorities carry what a table means, and decide what is deleted and which
  flow wins;
* **crash and restart**: a manager that starts again has only the names of the slice's links to go by;
* **lost and late messages**: ARP packets, BPDUs, notices of topology changes.


## Where each part can go wrong

What makes a component correct, in one line each; `PROJECT.json` lists the hazards line by line.

* **route and policy engine**: it forwards only what SAFE has found compliant, forwarding table and
  choices agree, and the order of arrival decides nothing (no meeting of a policy and a route is
  missed, the match on record is the best one, the chosen route a shortest one).
* **spatial index**: a query returns the stored rectangles that meet it, no others.
* **peering**: paths are simple and backed by the neighbours that sent them, forwarding never goes in
  circles, SDXes that peer end up agreeing, and the exchange and the stitch commands come to an end.
* **tokens of a route**: the token a peer finds lets it verify the route.
* **routing manager**: moving a destination never makes its packets circle, booked paths fit their
  links, they are in the switches hop for hop, and a retraction deletes only its own entries.
* **customers' stitches**: a stitch that is undone leaves no prefix and no route behind; every prefix
  that is routed can be revoked; a request hangs only after a failure; after a restart the routers have
  the addresses of the links that the slice has.
* **switch applications**: flows, routing table and MACs stay in step; a suspended packet is decided
  once, and answered when its gateway is known; the priorities of the flows do what the tables say, in
  one table, behind filters, and with copies for mirrors; whoever sends what cannot be delivered is told
  so; routers that are removed take nothing with them that is in use; a request gets its own answer; rule
  ids are unique; what a learning switch sets leads to where its host was heard.
* **spanning tree**: bridges come to a loop-free tree after every change and all forget what they learnt;
  a router finds its gateway again after it moved.

## Modules

```
PrefixPairs            ranges, prefix pairs, their order             (aqt, pure)
  AdvertiseEngine      one engine as operators on a record           (exoplex.sdx.advertise)
    AdvertiseManager   that engine and an environment                MCAdvertiseManager
    SdxNetwork         several managers, each with an engine
      SdxRouting       ... and its mapping to PathVector             MCSdxNetwork
  AreaBasedQuadTree    the index the engine takes by its contract    MCAreaBasedQuadTree, MCProtocols
PathVector             abstract: what the exchange of routes promises
RoutingManager         paths and bandwidth over several switches     MCRoutingManager
SwitchRouter           one switch: routes, flows, ARP, packets       MCSwitchRouter

Applications           the modules below, side by side               MCApplications
  CustomerStitches     the manager's books on customers
  SliceLinks           the lock of the slice and expected interfaces
  SdxRestart           start, stop and restart, numbers of links

  SuspendedPackets     packets that wait (RA/rest_router_mirror)
  VlanRouters          routers of VLANs that come and go
  RouterFlows          all flows of one router, its own replies (SC/rest_router)
  LearningSwitch       the port of each host, late messages
  IngressRouter        filters, mirrors, routes in three tables
  MirrorRouter         mirrors and routes beside the QoS tables
  VfcMirrorRouter      mirrors and routes in two tables, decoded cookies
  QosRules             rules, queues, the OVSDB address
    QosMatch           matches as posted, as set and as shown (pure)
  RestRequests         requests and statistics of three applications

RoutePropagation       tokens of one route on its way to the peers   MCProtocols
SpanningTree           roles of bridges and ports                    MCProtocols
TopologyChange         notices that ports changed                    MCProtocols
GatewayWatch           ARP between a router and its gateways         MCProtocols
```

`X_proofs` holds the theorems about `X`; `AdvertiseEngine_proofs` has the lemmas about the engine's
operators, and `AdvertiseManager_proofs` and `SdxRouting_proofs` extend it. `SdxRouting_proofs` also has the theorems
about `SdxNetwork` and `PathVector`; those about the routers with several tables of flows are in
`ForwardingTables_proofs`, which extends `Applications_proofs`. `Applications` and `MCProtocols`
are sums: each behaviour of theirs is a behaviour of one part, which `part` names from the start, so that
one run explores modules that do not interact and their state spaces add up. In `Applications` each part
has variables of its own, and its constants are open: `MCApplications` gives them values, and the theorems
of the two proof modules hold for all of them. A property of a part is stated for the behaviours of that
part. `MCProtocols` holds behaviours of the spatial
index too.

The router applications are copies of one another that differ in a few hundred lines of two thousand.
Each aspect is modelled once, from the copy in which it matters most, and the map names that copy: the
timing of ARP, timers and deletions in `SwitchRouter` (`RA/rest_router.py`), priorities in `RouterFlows`
(`SC/rest_router.py`), three tables in `IngressRouter`, two in `MirrorRouter` and `VfcMirrorRouter`, and so on.

### AdvertiseEngine, AdvertiseManager, PrefixPairs

`AdvertiseEngine` is stateless: `ReceiveAdvertise(s, r, verdict)` and `ReceiveOutboundPolicy(s, p,
verdict, scan)` give the engine after a call of `receiveAdvertise` or `receiveOutboundPolicy`, so that
`AdvertiseManager` (one engine, any messages) and `SdxNetwork` (one per SDX) use the same definitions.
The fields of the record are the manager's maps: `routes` (`routeTable` and `routeIndex`), `policies`
(`outboundPolicyTable` and its index), `matches` (`matchesMap`), `chosen`, `fib`, `advertised`
(`advertisedRoutes`), `checked` (`checkedPairs`). The loops over priority queues are sets: of the keys
with the same intersection only the one of highest priority can be accepted, which `PolicyFor` and
`RouteKeyFor` pick. Two sources of nondeterminism are explicit. `verdict` is SAFE's answer to each
pair that is asked about and not cached, and `scan` the set of routes tried, because routes of one
length come in the order of a hash set. The indexes are taken by their contract, `query(k)` = the stored
keys that meet `k`.

Choices are kept by rectangle, forwarding entries by two prefixes *as they are written*: `FibKey` takes for
each side the longer of the route's and the policy's prefix (`OverlapPrefix`, `getOverlapPrefix`), and a
prefix may be written with host bits, `10.0.0.5/24` for `10.0.0.0/24`. So a prefix pair may have several
entries, of which a new choice replaces one. `FibFollowsChoice` relates the two tables through the rectangle
that a key stands for (`PairOf`): an entry for each choice, and none for a pair without one. It does not say
where further entries of a pair lead; those that another spelling has left are not brought up to date, in the code
as in the model.

### AreaBasedQuadTree

The index itself: a tree of nodes as in the code, with the flags `valid` and `empty` and the
prefix trees inside a node (a node that has not been split has no children), next to the set `stored`
of what its user has inserted and not removed. Its operators are recursive, so it is for TLC only.

### SdxNetwork, SdxRouting, PathVector

`SdxNetwork` has one manager per SDX. The handlers of `/stitchrequest`, `/peer`, `/bgp` and `/policy` are
synchronized methods and each is one step (`StitchRequest`, `ServePeer`, `BgpAdvertise` or `Refuse`,
`PolicyAdvertise`); they need the monitor of their SDX (`MonitorFree`). The stitch command is several
steps (`StitchCmd`, `AskToPeer`, `FinishPeer`, `GiveUp`), because it posts to the other SDX and waits with
its own monitor held. `inflight` is the set of advertisements that threads of `advertiseBgpAsync` and
`advertisePolicyAsync` have still to deliver, in any order, and `Lose` is a post that fails. A handler
that throws in `configFib` before it propagates (`ConfigFails`) is modelled too.

`PathVector` is the abstract protocol: a node learns paths from its neighbours' known paths and uses a
shortest one; nothing is withdrawn. `SdxRouting` instantiates it with the route tables as the known paths
and the chosen route as the path in use, for one prefix pair and a SAFE server that finds every pair
compliant (`OriginAssumption`; the guards on routes, stitches and peers may still be refused).

### RoutePropagation

`SdxNetwork` leaves tokens out. `RoutePropagation` is the loop of `propagateBgpAdvertise` over the
peers, which changes the token of one shared copy of the route, and the threads that read the copy
whenever they run (`Refuse`, `Advertise`, `Deliver`). A token is the set of statements reachable from it.

### RoutingManager

`configFib`, `connectionRequest` and `revokePrefix` run under the manager's monitor, so there is one
request at a time, but its posts to the switches are steps of their own: a configuration is a `job` whose
`todo` shrinks by `PostHop` or `PostFails`. `ConfigureBroadcast` is `configurePath` for a destination
(with or without a source), `ConfigurePair` the one with a bandwidth, whose threads post in any order;
`Trees` gives every result the searches may have, since they walk hash sets. `pairPath`, `prefixPaths`,
`prefixGateway` and `routeId` are the manager's maps, `table` and `nextId` the switches'. `granted` is a
history variable. Early returns of `connectionRequest` that change no state (a prefix nobody owns, a
refusal of SAFE) are left out: they are stutters.

### CustomerStitches

The maps that `stitchRequest`, `stitchChameleon`, `undoStitch`, `notifyPrefix`, `revokePrefix` and
`connectionRequest` keep about customers, each handler a step, with the entries that the code forgets to
remove: a stitch of an ExoGENI customer has no entry in `stitchNet`, so that an undo throws before it
changes anything; `gatewayPrefixes` and `customerGateway` are only added to. `Undone` describes the undo
for `UndoneForgotten`. Routes are abstract here (`routed`); how they get into switches is `RoutingManager`.

### SliceLinks

How a handler takes the reentrant lock of the slice, announces the interface it expects, commits, and
waits. A commit may fail and unlock twice, fail and leave the count raised, or throw with the lock held. What
stands between `lockSlice` and the `try` that unlocks (`refresh`, `expectOneInterfaceDiff` with its calls over ssh)
may throw too and leaves the slice locked (`ExpectFails`); so may the wait, which gives the lock back but leaves
counts raised (`WaitFails`); and the ports of a link that was given up may come in the end (`LateLink`).
`spoilt` and `leaked` are history variables that say whether such a thing has happened; a handler that cannot go on
(`HangsAfterFailure`) needs one of them. The lock that `deployBro` takes is not modelled.

### SdxRestart

A manager is started (with or without a reset of the stitches), reads the slice, restarts the controller,
waits for switches, configures all stitches and then all links in any order, and serves requests; `Stop`
may come at any moment, and what is not in the slice or the switches is lost. Numbers are given to links
anew (`curip`, `usedip`), stitches get theirs from their names, where the code takes the mask for the
number. `table` has the addresses of the routers in the controller, where a second address in one network
is refused and nobody looks at the answer. The restart of a slice cannot undo its stitches (`undoable`).

### SwitchRouter, SuspendedPackets

`SwitchRouter` is one `VlanRouter` of `rest_router.py`. Its greenlets are the packet-in handler, the
handlers of REST requests and a timer per suspended packet; they take turns only where they block, and
these points cut the code into actions: a deletion waits for the flows of the switch (`ReadRoutes` |
`DeleteRoutes`, `ReadAddress` | `DeleteAddress`), the packet-in handler for the SDX controller (`PacketIn`
| `Answered`), and a release of suspended packets blocks each time it kills a timer (`Begin` | `TakeNext`
... | `Finish`). `AddRoute`, `ArpRequest` and `ArpReply` run to such a point in one go. `table` is
`routing_tbl`, `flows` what the switch has of it, `known` the second list of routes in `packet_buffer` (a set,
ordered by `Before`),
`ipMac` the remembered neighbours, `buffer` the suspended packets. The queue of messages to the switch is
assumed to have room. A packet that comes to the controller again after it was forwarded counts as a new
packet.

`SuspendedPackets` is the buffer of the mirroring router, where a packet without a route waits as well and
the two lists of routes differ (`table`, `listed`): a posted route, an ARP reply, the timers and a
deleted address are after the same packets. `TakeOut` removes one and yields; what a greenlet has `done` is
sent when it ends, and lost when it dies of a `ValueError` because another was faster.

### VlanRouters

The router objects of the VLANs of one switch: made by the first post (`RouterOf`, entered by `Post`),
removed by the request that leaves one unneeded, and used on by requests that waited meanwhile. `flow` is
indexed by where a flow matches and holds its cookie. The switch may join with flows it has kept.

### RouterFlows, IngressRouter, MirrorRouter, VfcMirrorRouter

These four are about what a packet meets in the switch. `flow` is the set of flows with their priority,
match and action; the priority arithmetic is the code's. `RightHop`, `FilterThenRoute` and
`MirrorThenRoute` compare, for every packet, what the flows do with what the tables say, after any sequence
of posts, deletions, ARP packets and timeouts. Addresses have 3 or 4 bits, cookies their true layout. In
`MirrorRouter` the statistics come from table 0 only, where the QoS application has its rules, as in the
code: a route can never be deleted, an address only if a QoS rule has its number. In `VfcMirrorRouter` they
come from both tables, and every cookie is decoded as an id of the kind that is to be deleted. A mirror that is
posted copies nothing until its station is heard, and then only if there is a route of the same match.

`RouterFlows` also says what the router answers itself (`Replies`): echo replies, ports that are closed, packets
whose time is up or whose host does not answer ARP; `SendPortIp` is the address an error is sent from.

### LearningSwitch

Five learning switches, of which `app` chooses one. `told` has the messages of the switch that are not handled
yet; hosts move meanwhile. A flow and a port learnt carry the number of moves their host had made when it was
heard, so that `LeadsToHost` can say that a flow which misleads is from before a move.

### QosRules

Counters of rule ids per VLAN, what a deletion makes of the statistics it reads, the OVSDB address and its
events. A deletion asks the switch for its rules and waits (`AskDelete` | `DeleteQos`); other greenlets post rules
and delete meanwhile, the switch may leave, and of the statistics any part (`seen`) may have come when it goes
on. So a deletion may forget the counter of a VLAN whose rules it has not seen, and their ids are given again. That
is how the code is, and nothing promises otherwise; `UniqueIds` is about the rules that every deletion since they
were posted has counted, which the history field `counted` of a rule tells. `QosMatch` has the
conversions of a match: names of protocols to numbers, and back when a rule is shown or found for deletion. Two
kinds of rules cannot be told from statistics, in the code as in the model: those of priority 0, which a deletion
passes over, and those with a field whose value means none, of which it deletes the rule without that field.
`Switches`, `Rules` and `Configuration` are the three parts of the next-state relation; the behaviours of `qos`
are the first two, those of `conf` the first and the last, for what they share is only the switch.

### RestRequests

The way of a request through all switches, for the router application, the REST service of OpenFlow and the
QoS application, which number their messages in common and have waiters of their own; and the matching of
statistics to those who wait: `SendStatsRequest`,
`StatsReply` (a part), `EndVisit` (the wait ends, with all of the answer or at its time limit). The waiter of
a wait that timed out stays in the map, as in the code, and parts that come late go to its list.

### SpanningTree, TopologyChange, GatewayWatch

`SpanningTree` is one process for all bridges: `PacketIn` handles a BPDU, the port timer and link events
start recalculations that take ports down and up with a yield after each (`jobs`, the hub's ready list in
order). Only BPDUs that tell the other end something new are messages (`wire`); the repetition that keeps a
timer from expiring is in its guard. `TopologyChange` takes a tree and follows one change through it:
TCN upwards until acknowledged, TC downwards for a time. `GatewayWatch` has ARP packets under way as
sets, so that they are lost, repeated and late, and the round `CyclicUpdate` that mends what they did.

## Runs

| run | result | distinct states | what it shows |
|---|---|---|---|
| `advertise_safe` | pass | 12750 | the engine's invariants, for routes and policies with nested prefixes, written in one way or two, in every order, with every combination of verdicts |
| `advertise_obeys` | violation | | `ChosenObeysPolicy`: a policy that replaces another leaves the choice made under the old one in force |
| `quadtree_hosts` | violation | | `QueryComplete`: a prefix of a single host (or of two) is dropped on insertion |
| `sdx_lossy` | pass | 41379 | the diamond of `MultiSdxSetting` with lost, refused and reordered messages: paths simple and backed, neighbours stitched, and the network implements `PathVector` |
| `sdx_quiet` | pass | 2573 | a line of three SDXes, two homes and a policy, no losses: the exchange and the stitches end and the SDXes then agree on routes and policies |
| `routing_ring` | pass | 14993 | a ring of four switches with equal paths: re-pointing a destination post by post makes no circle, and booked paths are in the switches hop for hop |
| `routing_failing` | pass | 243159 | a triangle with uneven links whose switches refuse posts and deletions at will: what is granted fits, and identifiers delete only their own entries |
| `routing_policy` | violation | | `PathInstalled`: a path with a source that is configured while the opposite booked path is known is not posted |
| `switch_routes` | pass | 785326 | one switch, two requests at a time, ARP and timers in every order: flows, table and MACs in step, no packet answered twice |
| `switch_reply` | violation | | `SuspendedForwarded`: packets of a route without a source are not released when its gateway answers |
| `protocols` | pass | 136076 | four protocols whose messages must get through: tokens of a route verify and every trusted peer is told; the spanning tree is found again after faults, and loop-free when quiet; every bridge forgets its addresses after a change; a gateway is found again; and the spatial index, where a query returns exactly the stored rectangles that meet it (`QueryExact`) |
| `applications` | pass | 664673 | thirteen parts, one property or two each (below) |

The four violations are the findings in `PROJECT.json`, each with the sentence of the repository that the
code contradicts. What `applications` checks, by part:

| part | property | it says |
|---|---|---|
| suspended | `OneOutcome` | a waiting packet is sent on once or reported unreachable once, whoever is after it |
| vlans | `Served` | what a router in the table lists, the switch does: each address and route has its flow, each gateway is in reach |
| flows | `RightHop` | the switch does with every packet what the router's tables say, and each neighbour gets the replies that are due (`Answered`) |
| learning | `RightHop` | its conjunct `LeadsToHost`: a flow set after its destination was heard where it is leads there |
| ingress | `FilterThenRoute` | what filters refuse goes nowhere, what they accept goes to the gateway of its route |
| mirror, vfc | `MirrorThenRoute` | the same for routes, with a copy to the station where a mirror matches |
| qos, conf | `UniqueIds` | a rule id stands for one rule of its VLAN, among those that deletions have counted and that statistics can tell |
| rest | `OwnAnswer` | a request gets the parts of its own answer, in order, all of them unless it gave up |
| stitches | `Revocable`, `UndoneForgotten` | owner and gateway of every routed prefix list it; an undo leaves no prefix and no route behind its gateway |
| links | `HangsAfterFailure` | a handler that cannot go on has a failure before it: for the lock, a request that failed where nothing gives it back; for interfaces, one at its own routers |
| restart | `AddressesFit` | once a manager configures, the addresses of the routers are those of the links and stitches in the slice |

### Bounds, and why they are enough

* **engine**: `AddressBits = 4` in place of 32. The engine compares lengths and intersects, so what
  matters is which prefixes nest: routes for a wide and a narrow destination (this written in two ways) with and without a source,
  from the owner and from two neighbours with paths of three lengths; a policy for any destination and
  two rival ones for the narrow one (same pair, other tokens). This reaches replaced policies, moved
  matches, ties of length and both orders of arrival for each meeting. The theorems cover the rest.
* **index**: an 8 by 8 space has nodes of three sizes that split. `MaxCached = 1` (8 in the code)
  makes two small rectangles split a node. The nine keys include rectangles that cross the root, a
  quarter or a sixteenth in x and in y, and both corners of a quarter.
* **network**: four SDXes in a diamond is the smallest network in which a route reaches an SDX along two
  ways and can come back to where it has been; three in a line with two homes lets a shorter route
  arrive later. Each stitch command is given once. The theorems hold for any
  number of SDXes.
* **routing**: `MaxRequests = 2` requests after which every job has to run to its end before the next
  may start, so a configuration meets the remains of another; retractions are not counted. The ring has
  two shortest ways between its gateways, the triangle a detour, and there is a spare name for a link
  that gets provisioned.
* **switch**: `MaxRoutes = 2` lets a key be posted again between the read and the deletion of its flow;
  `MaxSuspended = 2` (50 in the code) with three packets reaches the limit; two requests and the
  handler give three greenlets with overlapping lists. Clients, and MACs, are interchangeable, and the
  properties of that run are state invariants that name none of them, so symmetry is sound there.
  `MaxAddresses = 1`: an address is registered, used, and deleted once.
* **protocols**: three trusted peers and one that is not: a thread can run before, between and after
  the posts for two others (the theorem is for any number). A triangle of bridges has the one cycle there
  can be, and with `MaxFaults = 2` a link is cut and mended, two are cut, or the root leaves and joins
  again; `MaxAge = 4` lets information about a root that is gone circle once and be too old. A line of three
  bridges has a root, one that forwards the flag and a leaf; `MaxChanges = 2`. One gateway that has three NICs
  in turn, the last at another port, two ports that go and come, four changes.
* **applications**: three packets, one with a route over either of two gateways, one with a route over the first of
  them and one for that neighbour itself; one address, three posts, two places in the buffer; one VLAN beside the permanent one; two networks with two
  routes over hosts of each and a default route in a 4-bit space, with packets for each kind of flow;
  filters on destination, port, and source with destination; two mirrors, one of a route's match, with a station
  that is the gateway and one that is a host (and one network, that has them all, for the vfc part); two hosts and
  two ports for the learning switches, a move of each and two messages under way; two VLANs with up to two rules each and
  three together (`MaxRules`), of two matches that the switch shows alike, and a deletion that waits while they are
  posted (two that wait at once were checked with `MaxRules = 2`, and the theorem has any number); two switches and two requests of any of the three applications, answers
  of one or two parts; two customers whose two prefixes may be announced by either behind
  either gateway, three times; two routers and two threads of the server, two interfaces; three routers and
  two links, a router with the stitches of three customers, one of Chameleon, two stops.

### Constants that mark the edge of a property

Several modules have a constant that extends the model to cases in which the property does not hold. The runs
leave it on the side where it does; the other side was explored while modelling, and each is a hazard in
`PROJECT.json`:

* `TopologyChange!Apart = FALSE`: a second change while the first is still announced does not start the root's
  timer anew, and a bridge may never hear of it.
* `IngressRouter!Wipes = TRUE` or `FirstMirror = 16`, `VfcMirrorRouter!Wipes = TRUE` or `FirstMirror = 17`:
  cookies of one kind decode to ids of another, and a deletion takes the wrong flows.
* `VfcMirrorRouter!Mirrors` with a mirror of everything: its priority is that of the flow that drops, which is
  set again when the mirror is deleted, over the default route.
* `GatewayWatch!Socket` with two ports for one NIC: a NIC that moves is not noticed, because its MAC is known.
* `VlanRouters!Client` with two clients: the first request goes on with what the second has undone.
* `RouterFlows!Routes` with a static route that covers an internal network: it outranks the flow that learns
  the hosts there.
* `SdxRestart!FirstOctet` among the numbers of links: an undo releases a number that a link has.
* `SdxNetwork!Stitches` in both directions between two SDXes: each command holds the monitor the other waits for.
* `SdxRestart!InSlice = FALSE`: an external controller keeps the addresses of before the restart.

Three properties are stated and not run: `QosRules!BridgeConfigured` (an address set again after a deletion is
taken for no change), `SuspendedPackets!NothingLost` (a release that finds a packet gone drops what it has
taken out) and `VlanRouters!NothingSuspended` (the assertion in `VlanRouter.delete`: a route is deleted under a
packet that waits for its gateway, and the router then becomes unneeded with the packet in its buffer). None of
them holds of the code as modelled; `Served` says that the removal that fails on the assertion does no harm to
what is listed.

### Fairness

`SdxNetwork!FairSpec` has weak fairness of each SDX's stitch command and of the handling of what is in
flight: posts are made and requests served by java threads, which run as long as they can, and the
monitors are free whenever no command is running. Stitch commands themselves are not fair, operators give
them or not. `StitchEnds` holds because the SDXes of that run stitch in one direction: two commands that
wait for each other's monitor, without a time limit, never end, and nothing in the code prevents it (a
hazard, `ExoSdxManager.java:424`): with stitches of two SDXes in both directions TLC finds the deadlock and `StitchEnds`
violated.

`RoutePropagation!Spec` has weak fairness of the loop and of each thread. `SpanningTree!Spec` has weak
fairness of the protocol as a whole: the hub runs ready greenlets in turn, timers expire, hellos are sent
for ever; faults are not fair. `TopologyChange!Spec` has it of hellos per port, of notices and of the handling
of what arrived. `GatewayWatch!Spec` has it of the round of requests and of port events, which the application
repeats, and strong fairness of a gateway's answer and of an answer's arrival: packets are lost, but not for
ever if they are sent again and again. The other modules state no liveness and no fairness.
`CHECK_DEADLOCK FALSE` stands where the system may stop: all messages delivered, all requests made, all
packets answered.

## Proofs

What follows holds for every value of the constants that satisfies the assumptions. An invariant of a run is
seldom inductive by itself, so each module states a stronger one (`IInv`, `NetInv`, ...), proves that Init
establishes it and that every action keeps it, with one lemma per action, and concludes. TLC checked each of
them on the run's instance before it was proved.

* **AdvertiseManager** (`Invariance` and the seven theorems under it), for any address width and any sets
  of routes and policies whose prefixes have hosts in them (`PrefixesAssumption`). `IInv` is the type invariant, that each policy is filed under its own key
  (`PoliciesKeyed`), and the five safety invariants, which are inductive only together: that a new match
  is undominated needs that no meeting was missed, and that the forwarding table and propagation are
  authorised needs that cached verdicts are kept. `AdvertiseCall` and `PolicyCall` describe each entry point by
  what it puts into the tables, and every later step argues from this description (`Call...`) once
  for both. That the highest key exists (`OutboundHighest`, `InboundHighest`) is the least number
  principle on lengths. `ShortestRoutes` adds that while SAFE has refused nothing the chosen route is a shortest
  one: its invariant `Shortest` compares routes of one pair, which needs that ranges of prefixes nest or are
  disjoint. So does `FibFollows`: of two prefixes that meet, the longer is their intersection, however it is
  written, so that an entry stands for the pair it was made for, and choices of one call have different keys.
* **PathVector**, as `SdxRouting` instantiates it: `PathInv` is `TypeOK`, `Backed` (each known path was told by
  its first hop) and `ShortestUsed`. They give `Descends` (the next hop's path is shorter) and so `NoForwardingLoop`: in a
  set of nodes that forward to each other the one with the shortest path contradicts it. Assumption: the
  owner is not an SDX.
* **SdxNetwork**, for any SDXes, stitches, messages, losses and answers of SAFE. `NetInv` has the types
  (`TypeInv`), what a stitch command has achieved when it is in a phase (`CallsStitched`), that peers are
  stitched both ways (`PeersStitched`), and about every route kept *or under way* that its path is simple, does
  not contain who keeps it or gets it, and is backed by its sender (`RoutesSound`). This gives `PathsSimple`,
  `RoutesBacked` and `NeighborsStitched`. That a route under way is backed survives what its sender does
  meanwhile because route tables only grow.
* **SdxRouting**: `Refinement`, that every step of the network is a step of `PathVector` or a stutter,
  under `DestAssumption`, `NormalAssumption` and `OriginAssumption` (one prefix pair; prefixes of routes and
  policies written in one way, so that its forwarding entry is one; and a SAFE server that finds every pair
  compliant or customers without policies). `RoutingInv` adds to `NetInv` that all routes are for this pair
  (`RoutesShared`), that policies are trusted, and of every engine that choice and forwarding follow the
  shortest known path (`EngineInv`). A call of `receiveAdvertise` is then a `Learn`, one of
  `receiveOutboundPolicy` a `Reselect` or a stutter. `LoopFreedom` carries `LoopFree` over: SDXes
  whose owner is a customer never forward in circles.
  `Agreement` states `QuietAgreement`: SDXes that peer agree as soon as nothing is on the way. Besides `NetInv` and
  `RoutingInv` its invariant `AgreementInv` says that an engine has chosen a route for each prefix pair that a
  route and a policy meet on, no longer than any of them, and has passed it on (`ChoicesMade`), and that each peer
  has what was passed on, or it is on the way (`RoutesReach`, `PoliciesReach`); of
  a policy also where it has been (`PoliciesGenuine`), which its path does not tell, as `updatePeer` passes
  policies on unchanged. Peering makes the invariant hold for the new peer because it sends everything that is
  kept. Hypotheses (`Undisturbed`): no post is lost and SAFE refuses nothing; offered policies are of customers and
  have not been through an SDX; and two policies for one prefix pair do not differ in owner or token. Without the
  last, SDXes that hear of two policies in different orders keep different ones for good, because an engine keeps
  the last it hears of (`receiveOutboundPolicy`); the code relies on prefixes having one owner.
* **RoutePropagation**: `Verifiable`, for any number of peers and as long as posts to SAFE succeed. The
  invariant `TokenServes` is that the copy's token reaches the received chain and the statement to each
  peer whose thread has not read it: it only grows, which is what makes the late read harmless.
* **RoutingManager**: `LoopFree`, that moving a destination makes no circle, for any slice and any choice
  of shortest-path trees, assuming that the switches accept. The invariant (`OutwardInv`) says that the
  routers already posted follow the plan and their next hops have been posted too, so a circle would lie
  wholly in the old entries. `OwnRetracted` needs no such assumption: `IdsInv` says that an identifier on
  record is below the switch's next one, and that an entry has that identifier only under the same match.
  `BookedInPlace`, that booked paths are in the switches hop for hop, rests on it: a retraction cannot take an
  entry of another path. It assumes that switches accept, and that `configFib` routes have no source, without
  which it is false (the finding of `routing_policy`). `GrantsFit` (`LivePathsFit`) needs neither: by `FitInv`
  what live paths were granted on a link is at most what is booked there, and that at most its capacity.
* **SwitchRouter**: `FlowsFollow` and `MacsRight` for any number of keys, gateways, requests and posts.
  `IInv` adds that identifiers in table and flows are below `nextId` and belong to one key, and that the
  MACs of routes are learnt ones. The point of the proof is `DeleteRoutesStep`: what was read some
  time before is deleted from flows and table by the same identifiers. `OneAnswer` (`AnsweredOnce`):
  the buffer holds no packet twice, and a packet is in the buffer, with one greenlet, or answered, whatever
  lists the greenlets work on, because a greenlet gets a packet only by removing it from the buffer
  (`PacketInv`).
* **Applications**, part by part, each with an invariant of its own:
  * `DecidedOnce` (suspended): a packet which still waits has had no outcome, it is in the buffer or with
    the one greenlet that took it out, and no two greenlets have taken out the same packet (`Placed`).
  * `ServedInTurn` (vlans): the table has routers that exist (`TableOwn`), what a deletion has read still
    fits the router it was read from (`RequestsFit`), and so what the table lists is served (`TableServed`).
    It assumes one client: with two it is false.
  * `IdsUnique` (qos): a VLAN with rules that all deletions have counted and that can be told has a counter, and
    their ids are at most that (`CountersAhead`). A deletion keeps this whatever it has got of the statistics, for
    any number of deletions that wait: the counter it forgets is of a VLAN without such rules, because those that it has
    not seen are from then on not counted.
  * `RulesShown`, about `QosMatch`: the match that is shown for a rule is the one that was posted, with the
    `dl_type` that it implies, if its fields have values.
  * `AnswerOwn` (rest): what a switch has still to answer is waited for, by one of the three applications, and
    its next part has the number that the waiter's list lacks (`StreamsCounted`); so the
    list that a waiter gets has the parts of its own request, in order (`ListsOwn`, `VisitsOwn`), although
    waiters stay in the map after a timeout.
  * `HostsReached` (learning): `Heard`, that a port with its number of moves is where the host then was, holds of
    what is learnt, of what is told and of the flows, and messages under way keep it because a host that moves
    has another number.
  * `NeighboursAnswered` and `RightHops` (flows), for addresses of any width. `FlowInv` says that no router's IP is
    in another network and no two routes have one destination (`TablesFit`), that a deletion under way has rows of
    the tables without gateways (`DeletionFits`), and that the flows are those the tables call for, and of hosts
    (`FlowsFit`). A step that replaces flows by match and priority keeps this because flows of different rows never
    have both in common (`KeysApart`), and one that deletes by cookie because the cookies of rows differ
    (`Cookies`). For a packet, `FlowsLead` then names the flow of the highest priority in each case of what the
    tables say. Masks are arithmetic: that a wider mask says less (`Nested`) is proved from remainders
    (`TwiceTheSize`), one bit at a time. `RightHops` has the hypothesis `RoutesLeadOut`, that no route but the default
    route covers an internal network: without it `RightHop` is false, because such a route outranks the flow that
    learns hosts.
  * `FiltersThenRoutes` (ingress) states `FilterThenRoute` for addresses of any width. `IngressInv` says that a
    match has one filter and one route, and an identifier one route (`RowsFit`), which flows the rows call for in
    each table (`IngressFit`), and that the flows which a deletion has read are still of one row (`AskedOf`). A
    deletion decodes cookies by division; `IngressDecode` shows what it gets, for rows and for default flows. The
    hypothesis `FewMirrors` is that identifiers are at most 15, because the cookies of the three kinds are a
    million apart and an identifier counts 65536 of it, and that no mirror copies everything: its flow would have the
    priority of the default route's, and deleting it would set the flow that drops.
  * `MirrorsThenRoutes` (mirror, vfc) states `MirrorThenRoute` of both mirroring routers. What they have in common, how
    the flows of the routing table follow addresses, routes and hosts, is said once (`RoutingFit`), for each of
    them by a parameter. `MirrorInv` adds the mirrors of the deployed controller (`CopyFit`), `VfcInv` those of
    Chameleon, where the flow of a mirror that is replaced stays until the new station is heard (`CopiesFit`), and
    what a deletion in two halves has read (`AskedFit`). `RowsDecide` then says once for all tables that the heaviest
    row decides if priorities are weights. The hypothesis `RowsLeadOut`: as for `RightHops`, routes but the default
    one lead out of the internal networks, and at the deployed controller mirrors too, because a copied packet has the
    MAC of the station, to which the flow for an internal network then forwards it; identifiers are at most 14,
    which keeps the ranges of the cookies apart, and those of QoS rules fit 16 bits. With more
    mirrors `MirrorThenRoute` is false (the hazard at `rest_router_mirror.py:2066`). TLC evaluated `FewMirrors`,
    `RowsLeadOut`, `RoutesLeadOut` and `Undisturbed` on the constants of the runs: they hold.
  * `Revoked` and the action property `UndoForgets` (stitches): owners are customers, and every prefix that is
    routed is listed by its owner and its gateway; so an undo, which walks the gateway's list, reaches all.
  * `HangsExplained` (links): unless a request has failed where nothing gives the lock back, whoever holds it gives
    it back (`LockGivenBack`), and at routers where nothing has gone wrong the interfaces that are expected are those
    that are due (`ExpectedDue`).
  * `AddressesRestored` (restart): for any number of links and stops, under two hypotheses without which it is
    false: a start restarts the controller (`InSlice`), and the numbers that links get are neither octets of
    customers' networks nor the number that an undo releases (`NumbersApart`, which nothing in the code ensures:
    the hazard at `ExoSdxManager.java:694`; TLC evaluated it on the run's constants, where it holds). `RestartInv` follows a link from the slice, where links appear one
    after the other (`SliceOrdered`), through the manager's map (`LinksKnown`) and its number, which is free
    when it is given (`Numbered`), to its two posts (`JobFits`): each finds a router without an address of
    that number, so that it is not refused (`TableFits`). That there is a free number is a count: each number in
    use belongs to a link or is the one read from stitches.

The assumptions are those named in the modules, which TLC evaluates on every run: nulls are not values and the
width is at least 2, with some arithmetic of its powers that the provers do not do (`NullAssumption`,
`AddressBitsAssumption`); what is offered are advertisements of prefixes,
and a customer puts itself and nobody else on a path (`OfferedAssumption`, `PrefixesAssumption`,
`CustomersAssumption`, `DestAssumption`, `NormalAssumption`, `OriginAssumption`); slices are finite and their names distinct
(`SdxAssumption`, `RoutingAssumption`, `PeersAssumption`); `UnknownAssumption`, `NoVlanAssumption`,
`BusyAssumption`, `MaxXidAssumption`, `GatewayAssumption` say what kind a constant has, `NoValueAssumption` that
numbers of protocols are values, and `RestartAssumption` what kinds of values the constants of a restart have. `FlowsAssumption` says that networks have whole masks
and lie among the IPs, as `ApplyMask` of the code leaves them, and that an address has the router's IP inside;
`PowersAssumption` is a fact of arithmetic (each power of two is twice the one before), which is by induction and so
beyond the provers. `IngressAssumption` and `MirrorsAssumption` say the same of the
networks, addresses and packets of the ingress router and of the mirroring routers.

The provers do no induction over data. Where a sum or a loop over a finite set is needed (`Total` of
bandwidths, `Listed` packets), the lemma takes a smallest counterexample, by the well-foundedness of `<` on
the naturals (`SmallestSet`, `LeastNatural`).

Only model-checked: liveness (`ExchangeEnds`, `StitchEnds`, `TokensTold`, `EventuallyTree`, `AllFlush`,
`EventuallyReached`), which needs fairness; `QueryExact`, whose operators are recursive; and `QuietTree`, that the
tree is right once nothing changes: its proof is an induction along the paths from the root, and the module of
its run has recursive operators.

## Not modelled

* REST translation, logging, JSON, the text of SAFE statements, ssh and the testbeds' interfaces: I/O, or
  a matter of wording. SAFE's rules are external, and its answers nondeterministic.
* The Bro manager: its core is not reached, since the bandwidth asked for at a router is never raised and no
  instance is ever found overloaded. `AsyncTask` serves measurement tools only.
* Withdrawal of routes and policies: the code has none between SDXes.
* Mirrors, QoS queues and OpenFlow groups of the routing manager, which keep no state that routing reads
  (`delMirror` always throws); `replayCmds`.
* In the switch applications: the contents of packets, VLAN tags where a module says so, OpenFlow 1.0 (the
  registration of such a switch fails), meters, the display of queues, the translation of requests in `ofctl_rest`.
  Copies that differ in a few lines from one that is modelled are not modelled again.
* The static lock of `/bgp`: `SdxNetwork` has one process per SDX, as deployments do.
* The VFC manager, a reduced copy of the SDX manager; measurement tools and command line clients.

## Plan

Done, in this order: engine, network of SDXes with its abstract protocol, tokens, index, routing manager,
switch application; then the spanning tree, the copies of the switch application, the QoS application, the
way of requests, the manager's customers, the slice's lock, restart; with the proofs above. What would add
most now:

1. `SdxNetwork` with two commands in opposite directions, which wait for each other's monitor.
2. `CustomerStitches` composed with `RoutingManager`, so that `UndoneForgotten` speaks of the switches.
3. Links that are removed from a slice, in `RoutingManager`.
4. `QuietTree` as a theorem, for trees of bounded depth.
