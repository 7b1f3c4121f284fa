---------------------------- MODULE RoutingManager ---------------------------
(***************************************************************************)
(* The routing manager of an SDX and the part of the SDX manager that      *)
(* drives it: connectionRequest books bandwidth between two customers,     *)
(* configFib points every router to the gateway of a destination, and      *)
(* revokePrefix retracts the paths of a prefix.                            *)
(*                                                                         *)
(* All three run under the monitor of the manager, one at a time.  What    *)
(* the packets see is finer: a path is programmed by one post per router,  *)
(* so a configuration under way is a job whose posts are steps of their    *)
(* own.  configFib's posts go outwards from the gateway; the posts of a    *)
(* booked path are made by threads, in any order, and joined.              *)
(*                                                                         *)
(* The breadth first searches of the code depend on the order of hash      *)
(* sets: here a search returns any tree of shortest paths.                 *)
(***************************************************************************)
EXTENDS Naturals, FiniteSets

CONSTANTS
  Routers,      \* the virtual switches of the slice
  Prefixes,     \* the prefixes of customers and destinations
  DefaultRoute, \* the source of a route that matches any source
  Gateways,     \* next hops outside the slice
  EdgeOf,       \* getEdgeRouterByGateway
  GatewayOf,    \* prefixGateway: a customer prefix to its gateway
  NoHop,        \* no next hop, no link, no gateway
  LinkNames,    \* names for links between routers: the bound on them
  InitLinks,    \* the links that exist at the start
  DefaultBw,    \* the capacity of a link provisioned for a request of 0
  Bandwidths,   \* the bandwidths customers ask for
  Sources,      \* the sources of the routes that configFib installs
  PostsMayFail, \* whether a switch may refuse a post
  MaxRequests   \* the bound on connection requests and on configFibs

ASSUME RoutingAssumption ==
  /\ IsFiniteSet(Routers) /\ IsFiniteSet(Prefixes)
  /\ EdgeOf \in [Gateways -> Routers]
  /\ GatewayOf \in [Prefixes -> Gateways]
  /\ Routers \cap Gateways = {}
  /\ NoHop \notin Routers \cup Gateways \cup LinkNames
  /\ DefaultRoute \notin Prefixes
  /\ Sources \subseteq Prefixes \cup {DefaultRoute}
  /\ Bandwidths \subseteq Nat /\ DefaultBw \in Nat
  /\ \A l \in DOMAIN InitLinks :
       InitLinks[l].capacity \in Nat /\ InitLinks[l].ends \subseteq Routers
  /\ PostsMayFail \in BOOLEAN

\* A link that is not there yet joins no routers.
NoLink == [ends |-> {}, capacity |-> 0]

\* What a switch matches a packet with: its destination and its source.
Keys == Prefixes \X (Prefixes \cup {DefaultRoute})

\* getPathID concatenates the prefixes it is given.
PathIds == {<<d>> : d \in Prefixes} \cup (Prefixes \X Prefixes)
BroadcastId(dest, src) == IF src = DefaultRoute THEN <<dest>> ELSE <<src, dest>>
PairId(dst, src) == <<dst, src>>

\* One step of a path: where a router sends packets, and over which link.
Hops == [next : Routers \cup Gateways \cup {NoHop}, link : LinkNames \cup {NoHop}]
NowhereHop == [next |-> NoHop, link |-> NoHop]

\* The steps of a path, for the routers on it.
Plans == [Routers -> Hops]
NoPlan == [r \in Routers |-> NowhereHop]
OnPath(plan) == {r \in Routers : plan[r].next # NoHop}

\* An entry in the routing table of a switch.
Entries == [id : Nat, next : Routers \cup Gateways \cup {NoHop}]
NoEntry == [id |-> 0, next |-> NoHop]

\* A configuration, and a connection request.
Jobs == [key : Keys \cup {<<>>}, id : PathIds \cup {<<>>}, plan : Plans,
         todo : SUBSET Routers, failed : SUBSET Routers, pair : BOOLEAN]
Conns == [self : Prefixes \cup {NoHop}, target : Prefixes \cup {NoHop}, bw : Nat,
          stage : {"idle", "first", "second", "answer"}]

VARIABLES
  links,         \* the links between routers, with their capacity
  used,          \* the bandwidth booked on a link, by the router that sends
  pairPath,      \* the path last configured for an identifier
  prefixPaths,   \* the identifiers a prefix has been part of
  prefixGateway, \* prefixGatewayMap
  routeId,       \* route_id: what a switch answered to a post, 0 if nothing
  table,         \* the routing tables of the switches
  nextId,        \* the next route identifier of a switch
  granted,       \* history: the bandwidth booked for the path of an identifier
  job,           \* the configuration whose posts are under way, or the last
  conn,          \* the connection request under way, or the last
  requests       \* the requests made, at most MaxRequests

vars == <<links, used, pairPath, prefixPaths, prefixGateway, routeId, table,
          nextId, granted, job, conn, requests>>

Init ==
  /\ links = [l \in LinkNames |->
                IF l \in DOMAIN InitLinks THEN InitLinks[l] ELSE NoLink]
  /\ used = [a \in LinkNames \X Routers |-> 0]
  /\ pairPath = [i \in PathIds |-> NoPlan]
  /\ prefixPaths = [p \in Prefixes |-> {}]
  /\ prefixGateway = [i \in PathIds |-> NoHop]
  /\ routeId = [a \in PathIds \X Routers |-> 0]
  /\ table = [r \in Routers |-> [k \in Keys |-> NoEntry]]
  /\ nextId = [r \in Routers |-> 1]
  /\ granted = [i \in PathIds |-> 0]
  /\ job = [key |-> <<>>, id |-> <<>>, plan |-> NoPlan,
            todo |-> {}, failed |-> {}, pair |-> FALSE]
  /\ conn = [self |-> NoHop, target |-> NoHop, bw |-> 0, stage |-> "idle"]
  /\ requests = 0

-----------------------------------------------------------------------------
(* Searches *)

\* The links as arcs: over a[1] from router a[2] to router a[3].
AllArcs == {a \in LinkNames \X Routers \X Routers :
              a[2] # a[3] /\ links[a[1]].ends = {a[2], a[3]}}

\* A mutation: availability is asked for in the direction of the search.
ArcsWithReversed(bw) ==
  {a \in AllArcs : used[<<a[1], a[3]>>] + bw <= links[a[1]].capacity}

\* getAvailableBW in the direction of the packets, towards the gateway.
ArcsWith(bw) ==
  {a \in AllArcs : used[<<a[1], a[2]>>] + bw <= links[a[1]].capacity}

\* The routers that reach root over n of the arcs or fewer.
Within(arcs, root) ==
  LET reach[n \in 0 .. Cardinality(Routers)] ==
        IF n = 0 THEN {root}
        ELSE LET closer == reach[n - 1]
             IN closer \cup {a[2] : a \in {x \in arcs : x[3] \in closer}}
  IN [n \in 0 .. Cardinality(Routers) |-> reach[n]]

Reaching(arcs, root) ==
  LET within == Within(arcs, root)
  IN UNION {within[n] : n \in 0 .. Cardinality(Routers)}

\* The trees a search from the router of a gateway may find: every router that is
\* reached has its parent among the routers one hop closer to the root.
Trees(arcs, root, gateway) ==
  LET within == Within(arcs, root)
      reached == Reaching(arcs, root)
      towards(r) ==
        {a \in arcs : a[2] = r /\ \E n \in 1 .. Cardinality(Routers) :
                        r \in within[n] \ within[n - 1] /\ a[3] \in within[n - 1]}
      parents == [r \in reached \ {root} |->
                    {[next |-> a[3], link |-> a[1]] : a \in towards(r)}]
      choices == {f \in [reached \ {root} -> UNION {parents[r] : r \in reached \ {root}}] :
                    \A r \in reached \ {root} : f[r] \in parents[r]}
  IN {[r \in Routers |-> IF r = root THEN [next |-> gateway, link |-> NoHop]
                         ELSE IF r \in reached THEN f[r] ELSE NowhereHop]
        : f \in choices}

\* The routers a packet meets from a router on in a tree.
Branch(tree, from) ==
  LET met[n \in 0 .. Cardinality(Routers)] ==
        IF n = 0 THEN {from}
        ELSE LET before == met[n - 1]
             IN before \cup (Routers \cap {tree[q].next : q \in before})
  IN met[Cardinality(Routers)]

\* getPairRoutes: shortest paths with room for bw, none if there is no room.
PairRoutes(dstNode, srcNode, gateway, bw) ==
  LET arcs == ArcsWith(bw)
      only(tree) == [r \in Routers |->
                       IF r \in Branch(tree, srcNode) THEN tree[r] ELSE NowhereHop]
  IN {only(tree) : tree \in {t \in Trees(arcs, dstNode, gateway) :
                               srcNode \in Reaching(arcs, dstNode)}}

\* getBroadcastRoutes: shortest paths from every router.
BroadcastRoutes(node, gateway) == Trees(AllArcs, node, gateway)

-----------------------------------------------------------------------------
(* A configuration under way *)

Idle == job.todo = {}

\* The routers whose entry has to be posted: those whose step is as before and
\* whose identifier is recorded are left alone.
Changed(id, old, plan) ==
  {r \in OnPath(plan) : ~ (old[r] = plan[r] /\ routeId[<<id, r>>] # 0)}

\* configurePath for a destination, with or without a source.  The path with a
\* source is stored before it is compared with the old one.  (Without one it is
\* stored after the posts, and nothing reads it before that.)
ConfigureBroadcast(dest, src, node, gateway) ==
  LET id == BroadcastId(dest, src) IN
  \E plan \in BroadcastRoutes(node, gateway) :
    LET old == IF src = DefaultRoute THEN pairPath[id] ELSE plan IN
    /\ prefixGateway' = [prefixGateway EXCEPT ![id] = gateway]
    /\ pairPath' = [pairPath EXCEPT ![id] = plan]
    /\ prefixPaths' = [prefixPaths EXCEPT ![dest] = @ \cup {id}]
    /\ granted' = [granted EXCEPT ![id] = 0]
    /\ job' = [key |-> <<dest, src>>, id |-> id, plan |-> plan,
               todo |-> Changed(id, old, plan), failed |-> {}, pair |-> FALSE]

\* configFib: a route whose gateway is the recorded one is not configured again.
\* This saves nothing for a route that matches any source: the gateway is looked
\* up with 0.0.0.0/0 in the identifier and recorded without.
ConfigFib(dest, src, gateway) ==
  /\ Idle /\ conn.stage = "idle"
  /\ requests < MaxRequests
  /\ src # DefaultRoute => prefixGateway[BroadcastId(dest, src)] # gateway
  /\ ConfigureBroadcast(dest, src, EdgeOf[gateway], gateway)
  /\ requests' = requests + 1
  /\ UNCHANGED <<links, used, routeId, table, nextId, conn>>

\* What a switch does with a post (_set_routing_data): an entry with the same
\* match is replaced by one with a new identifier.
SwitchAdds(r, key, hop) ==
  /\ table' = [table EXCEPT ![r][key] = [id |-> nextId[r], next |-> hop]]
  /\ nextId' = [nextId EXCEPT ![r] = @ + 1]

\* A mutation: all routers at once, in no order.
AnyOrder(r) == TRUE

\* A broadcast is posted outwards from the gateway, a booked path in any order.
InOrder(r) == job.pair \/ job.plan[r].next \notin job.todo

\* A mutation: the identifier is recorded for the path, not for path and switch.
PostHopPerPath(r) ==
  /\ r \in job.todo
  /\ InOrder(r)
  /\ SwitchAdds(r, job.key, job.plan[r].next)
  /\ routeId' = [a \in DOMAIN routeId |-> IF job.pair /\ a[1] = job.id
                                          THEN nextId[r] ELSE routeId[a]]
  /\ job' = [job EXCEPT !.todo = @ \ {r}]
  /\ UNCHANGED <<links, used, pairPath, prefixPaths, prefixGateway, granted,
                 conn, requests>>

\* singleStepRouting, which records nothing, and addRoute.
PostHop(r) ==
  /\ r \in job.todo
  /\ InOrder(r)
  /\ SwitchAdds(r, job.key, job.plan[r].next)
  /\ routeId' = IF job.pair THEN [routeId EXCEPT ![<<job.id, r>>] = nextId[r]]
                ELSE routeId
  /\ job' = [job EXCEPT !.todo = @ \ {r}]
  /\ UNCHANGED <<links, used, pairPath, prefixPaths, prefixGateway, granted,
                 conn, requests>>

\* The switch refuses, and the manager goes on.
PostFails(r) ==
  /\ PostsMayFail
  /\ r \in job.todo
  /\ InOrder(r)
  /\ job' = [job EXCEPT !.todo = @ \ {r}, !.failed = @ \cup {r}]
  /\ UNCHANGED <<links, used, pairPath, prefixPaths, prefixGateway, routeId,
                 table, nextId, granted, conn, requests>>

-----------------------------------------------------------------------------
(* Connection requests *)

NodeOf(prefix) == EdgeOf[GatewayOf[prefix]]

\* findPath looks for a path from the target to the self prefix only.
FindPath(self, target, bw) ==
  NodeOf(target) \in Reaching(ArcsWith(bw), NodeOf(self))

\* What addLink puts into linkMap: the link has its capacity in each direction.
NewLink(n1, n2, capacity) == [ends |-> {n1, n2}, capacity |-> capacity]

\* newInternalLink under a name that is free; the addresses of the interfaces,
\* which it posts to the switches, are not part of the model.
NewInternalLink(l, n1, n2, capacity) ==
  /\ links[l] = NoLink
  /\ links' = [links EXCEPT ![l] = NewLink(n1, n2, capacity)]

\* provisionLink: a new link with half as much again as is asked for.
LinkBw(bw) == IF bw = 0 THEN DefaultBw ELSE (3 * bw) \div 2

Provision(n1, n2, bw) ==
  \E l \in LinkNames : NewInternalLink(l, n1, n2, LinkBw(bw))

ConnectionRequest(self, target, bw) ==
  /\ Idle /\ conn.stage = "idle"
  /\ requests < MaxRequests
  /\ requests' = requests + 1
  /\ conn' = [self |-> self, target |-> target, bw |-> bw, stage |-> "first"]
  /\ IF FindPath(self, target, bw) THEN UNCHANGED links
     ELSE Provision(NodeOf(self), NodeOf(target), bw)
  /\ UNCHANGED <<used, pairPath, prefixPaths, prefixGateway, routeId, table,
                 nextId, granted, job>>

\* A mutation: the far end of the link is booked.
BookReversed(plan, bw) ==
  [a \in LinkNames \X Routers |->
     IF \E q \in Routers : plan[q].link = a[1] /\ plan[q].next = a[2]
     THEN used[a] + bw ELSE used[a]]

\* The bandwidth booked for a path: each router on it sends over one link.
Book(plan, bw) ==
  [a \in LinkNames \X Routers |->
     IF plan[a[2]].link = a[1] THEN used[a] + bw ELSE used[a]]

\* configurePath for a destination and a source, with a bandwidth.
ConfigurePair(dst, src, plan, bw) ==
  LET id == PairId(dst, src) IN
  /\ pairPath' = [pairPath EXCEPT ![id] = plan]
  /\ prefixPaths' = [p \in Prefixes |->
       IF p \in {dst, src} THEN prefixPaths[p] \cup {id} ELSE prefixPaths[p]]
  /\ used' = Book(plan, bw)
  /\ granted' = [granted EXCEPT ![id] = bw]
  /\ job' = [key |-> <<dst, src>>, id |-> id, plan |-> plan,
             todo |-> OnPath(plan), failed |-> {}, pair |-> TRUE]

\* The two directions of a connection, the second only if the first is in place.
Direction == IF conn.stage = "first" THEN [dst |-> conn.self, src |-> conn.target]
             ELSE [dst |-> conn.target, src |-> conn.self]

RoutesFor(d) == PairRoutes(NodeOf(d.dst), NodeOf(d.src), GatewayOf[d.dst], conn.bw)

FirstFailed == conn.stage = "second" /\ job.failed # {}

Configure ==
  /\ Idle /\ conn.stage \in {"first", "second"}
  /\ ~ FirstFailed
  /\ \E plan \in RoutesFor(Direction) :
       ConfigurePair(Direction.dst, Direction.src, plan, conn.bw)
  /\ conn' = [conn EXCEPT !.stage = IF @ = "first" THEN "second" ELSE "answer"]
  /\ UNCHANGED <<links, prefixGateway, routeId, table, nextId, requests>>

\* "Route for ... Failed" is logged, and the request is answered as ever.
ConfigureFails ==
  /\ Idle /\ conn.stage \in {"first", "second"}
  /\ FirstFailed \/ RoutesFor(Direction) = {}
  /\ conn' = [conn EXCEPT !.stage = "idle"]
  /\ UNCHANGED <<links, used, pairPath, prefixPaths, prefixGateway, routeId,
                 table, nextId, granted, job, requests>>

\* The answer is the same whether or not the two configurations succeeded.
Answer ==
  /\ Idle /\ conn.stage = "answer"
  /\ conn' = [conn EXCEPT !.stage = "idle"]
  /\ UNCHANGED <<links, used, pairPath, prefixPaths, prefixGateway, routeId,
                 table, nextId, granted, job, requests>>

-----------------------------------------------------------------------------
(* Retraction *)

\* A mutation: the identifier that another router answered is used.
RecordedAnywhere(ids, r) ==
  UNION {{routeId[<<i, q>>] : q \in OnPath(pairPath[i])} : i \in ids} \ {0}

\* The entries on router r that removePathId deletes for these paths.
Recorded(ids, r) ==
  {routeId[<<i, r>>] : i \in {j \in ids : r \in OnPath(pairPath[j])}} \ {0}

\* The routing table of router r after deleteRoute for each of these identifiers.
\* Nothing is removed from route_id, whose keys are not route identifiers.
Deleted(r, ids) ==
  [k \in Keys |-> IF table[r][k].id \in ids THEN NoEntry ELSE table[r][k]]

\* retriveRouteOfPrefix, called by revokePrefix.  No bandwidth is released.
Retract(prefix) ==
  /\ Idle /\ conn.stage = "idle"
  /\ \E i \in prefixPaths[prefix] : pairPath[i] # NoPlan
  /\ \E refusing \in IF PostsMayFail THEN SUBSET Routers ELSE {{}} :
       table' = [r \in Routers |->
         IF r \in refusing THEN table[r]
         ELSE Deleted(r, Recorded(prefixPaths[prefix], r))]
  /\ pairPath' = [i \in PathIds |->
                    IF i \in prefixPaths[prefix] THEN NoPlan ELSE pairPath[i]]
  /\ UNCHANGED <<links, used, prefixPaths, prefixGateway, routeId, nextId,
                 granted, job, conn, requests>>

-----------------------------------------------------------------------------
Next ==
  \/ \E d \in Prefixes, s \in Sources, g \in Gateways : ConfigFib(d, s, g)
  \/ \E r \in Routers : PostHop(r)
  \/ \E r \in Routers : PostFails(r)
  \/ \E p, q \in Prefixes, bw \in Bandwidths : p # q /\ ConnectionRequest(p, q, bw)
  \/ Configure
  \/ ConfigureFails
  \/ Answer
  \/ \E p \in Prefixes : Retract(p)

Spec == Init /\ [][Next]_vars

-----------------------------------------------------------------------------
(* Properties *)

\* Routers that send the packets of a key only to each other.
Trapped(S, k) == S # {} /\ \A r \in S : table[r][k].next \in S

\* While the routers are pointed to a new gateway for a destination one post at a
\* time, the entries of no destination lead packets in a circle.
BroadcastsLoopFree ==
  \A d \in Prefixes : \A S \in SUBSET Routers : ~ Trapped(S, <<d, DefaultRoute>>)

\* The sum of f over a set of identifiers.
Total(f, S) ==
  LET sum[T \in SUBSET PathIds] ==
        IF T = {} THEN 0
        ELSE LET i == CHOOSE i \in T : TRUE IN f[i] + sum[T \ {i}]
  IN sum[S]

\* The paths configured now that send over one direction of a link, and the
\* bandwidth granted to them.
Users(a) == {i \in PathIds : pairPath[i][a[2]].link = a[1]}
Load(a) == Total(granted, Users(a))

\* The paths that connection requests have been granted fit their links together,
\* in each direction, whatever requests, reconfigurations and retractions came.
LivePathsFit ==
  \A l \in LinkNames : \A r \in links[l].ends : Load(<<l, r>>) <= links[l].capacity

\* The identifier that a switch answered for a booked path never comes to stand for
\* another match, so that retracting the path deletes no other route, even when
\* posts and deletions fail.
RetractsItsOwn ==
  \A i \in PathIds, r \in Routers, k \in Keys :
    (routeId[<<i, r>>] # 0 /\ table[r][k].id = routeId[<<i, r>>]) => k = i

\* Every path booked and not retracted is in the switches, hop for hop, under the
\* identifier that its retraction will use.
PairsInPlace ==
  \A d, s \in Prefixes :
    (job.id # PairId(d, s) \/ Idle) =>
      \A r \in OnPath(pairPath[PairId(d, s)]) :
        table[r][<<d, s>>] = [id |-> routeId[<<PairId(d, s), r>>],
                              next |-> pairPath[PairId(d, s)][r].next]

\* "configure path for destIP in the network" (AbstractRoutingManager:77): when a
\* configuration ends, the routers on the path send its packets along it.
PathInstalled ==
  [][(job' # job /\ job'.todo = {}) =>
       \A r \in OnPath(job'.plan) : table'[r][job'.key].next = job'.plan[r].next]_vars

=============================================================================
