------------------------ MODULE RoutingManager_proofs ------------------------
(***************************************************************************)
(* Two facts about the routing manager, for any slice: retracting a path   *)
(* deletes no route of another match, and moving a destination to a new    *)
(* gateway, one switch at a time, never sends its packets in a circle      *)
(* unless a switch refuses a post.                                         *)
(***************************************************************************)
EXTENDS RoutingManager, Sequences, FiniteSetTheorems, WellFoundedInduction, TLAPS

\* A plan leads from a router to routers that are on it themselves.
Connected(plan) ==
  \A r \in Routers : plan[r].next \in Routers => plan[r].next \in OnPath(plan)

\* What a search finds is a plan, and connected.
LEMMA TreesConnected ==
  ASSUME NEW arcs \in SUBSET (LinkNames \X Routers \X Routers),
         NEW root \in Routers, NEW gateway \in Gateways,
         NEW tree \in Trees(arcs, root, gateway)
  PROVE  tree \in Plans /\ Connected(tree)
<1> DEFINE within == Within(arcs, root)
           reached == Reaching(arcs, root)
           towards(r) ==
             {a \in arcs : a[2] = r /\ \E n \in 1 .. Cardinality(Routers) :
                             r \in within[n] \ within[n - 1] /\ a[3] \in within[n - 1]}
           parents == [r \in reached \ {root} |->
                         {[next |-> a[3], link |-> a[1]] : a \in towards(r)}]
           choices == {f \in [reached \ {root} -> UNION {parents[r] : r \in reached \ {root}}] :
                         \A r \in reached \ {root} : f[r] \in parents[r]}
<1>1. PICK f \in choices :
        tree = [r \in Routers |-> IF r = root THEN [next |-> gateway, link |-> NoHop]
                                  ELSE IF r \in reached THEN f[r] ELSE NowhereHop]
  BY DEF Trees
<1>2. \A r \in reached \ {root} : f[r] \in parents[r]
  OBVIOUS
<1>3. \A r \in reached \ {root} :
        \E a \in arcs : f[r] = [next |-> a[3], link |-> a[1]] /\ a[3] \in reached
  <2> TAKE r \in reached \ {root}
  <2>1. PICK a \in towards(r) : f[r] = [next |-> a[3], link |-> a[1]]
    BY <1>2
  <2>2. PICK n \in 1 .. Cardinality(Routers) : a[3] \in within[n - 1]
    BY <2>1
  <2>3. a[3] \in reached
    <3>1. Cardinality(Routers) \in Nat
      BY RoutingAssumption, FS_CardinalityType
    <3>2. n - 1 \in 0 .. Cardinality(Routers)
      BY <3>1
    <3>3. QED
      BY <2>2, <3>2 DEF Reaching
  <2>4. QED
    BY <2>1, <2>3
<1>0. \A a \in arcs : a[1] \in LinkNames /\ a[3] \in Routers
  OBVIOUS
<1> HIDE DEF reached, choices
<1>4. \A r \in reached \ {root} : f[r] \in Hops /\ f[r].next \in Routers \cap reached
  <2> TAKE r \in reached \ {root}
  <2>1. PICK a \in arcs : f[r] = [next |-> a[3], link |-> a[1]] /\ a[3] \in reached
    BY <1>3
  <2>2. QED
    BY <1>0, <2>1 DEF Hops
<1>5. \A r \in Routers : tree[r] \in Hops
  BY <1>1, <1>4 DEF Hops, NowhereHop
<1>6. tree \in Plans
  BY <1>1, <1>5 DEF Plans
<1>7. \A r \in Routers : tree[r].next \in Routers => r \in reached \ {root}
  BY <1>1, RoutingAssumption DEF NowhereHop
<1>8. \A r \in Routers \cap reached : r \in OnPath(tree)
  BY <1>1, <1>4, RoutingAssumption DEF OnPath
<1>9. root \in OnPath(tree)
  BY <1>1, RoutingAssumption DEF OnPath
<1>10. Connected(tree)
  BY <1>1, <1>4, <1>7, <1>8, <1>9 DEF Connected
<1>11. QED
  BY <1>6, <1>10

\* The two searches of the manager return plans.
LEMMA BroadcastPlans ==
  ASSUME NEW gateway \in Gateways, NEW plan \in BroadcastRoutes(EdgeOf[gateway], gateway)
  PROVE  plan \in Plans /\ Connected(plan)
<1>1. AllArcs \in SUBSET (LinkNames \X Routers \X Routers)
  BY DEF AllArcs
<1>2. EdgeOf[gateway] \in Routers
  BY RoutingAssumption
<1>3. QED
  BY <1>1, <1>2, TreesConnected DEF BroadcastRoutes

\* The plan of a booked path need not be connected for what follows.
LEMMA PairPlans ==
  ASSUME NEW dst \in Prefixes, NEW src \in Prefixes, NEW bw,
         NEW plan \in PairRoutes(NodeOf(dst), NodeOf(src), GatewayOf[dst], bw)
  PROVE  plan \in Plans
<1>1. ArcsWith(bw) \in SUBSET (LinkNames \X Routers \X Routers)
  BY DEF AllArcs, ArcsWith
<1>2. NodeOf(dst) \in Routers /\ GatewayOf[dst] \in Gateways
  BY RoutingAssumption DEF NodeOf
<1>3. PICK tree \in Trees(ArcsWith(bw), NodeOf(dst), GatewayOf[dst]) :
        plan = [r \in Routers |->
                  IF r \in Branch(tree, NodeOf(src)) THEN tree[r] ELSE NowhereHop]
  BY DEF PairRoutes
<1>4. tree \in Plans
  BY <1>1, <1>2, TreesConnected
<1>5. QED
  BY <1>3, <1>4 DEF Plans, Hops, NowhereHop

-----------------------------------------------------------------------------
(***************************************************************************)
(* The part of the type invariant that the proofs need.                    *)
(***************************************************************************)
Typed ==
  /\ table \in [Routers -> [Keys -> Entries]]
  /\ nextId \in [Routers -> Nat]
  /\ routeId \in [PathIds \X Routers -> Nat]
  /\ job \in Jobs
  /\ job.todo \subseteq OnPath(job.plan)
  /\ job.todo # {} => job.key \in Keys /\ job.id \in PathIds
  /\ conn \in Conns
  /\ conn.stage # "idle" => conn.self \in Prefixes /\ conn.target \in Prefixes

\* The configuration that configFib starts.
LEMMA BroadcastJob ==
  ASSUME NEW d \in Prefixes, NEW s \in Sources, NEW g \in Gateways, ConfigFib(d, s, g)
  PROVE  \E plan \in Plans :
           /\ Connected(plan)
           /\ job' = [key |-> <<d, s>>, id |-> BroadcastId(d, s), plan |-> plan,
                      todo |-> job'.todo, failed |-> {}, pair |-> FALSE]
           /\ job'.todo \subseteq OnPath(plan)
           /\ s = DefaultRoute =>
                \A r \in OnPath(plan) \ job'.todo : routeId[<<<<d>>, r>>] # 0
<1>1. PICK plan \in BroadcastRoutes(EdgeOf[g], g) :
        LET id == BroadcastId(d, s)
            old == IF s = DefaultRoute THEN pairPath[id] ELSE plan
        IN job' = [key |-> <<d, s>>, id |-> id, plan |-> plan,
                   todo |-> Changed(id, old, plan), failed |-> {}, pair |-> FALSE]
  BY DEF ConfigFib, ConfigureBroadcast
<1>2. plan \in Plans /\ Connected(plan)
  BY BroadcastPlans
<1>3. job'.todo \subseteq OnPath(plan)
  BY <1>1 DEF Changed
<1>4. s = DefaultRoute => \A r \in OnPath(plan) \ job'.todo : routeId[<<<<d>>, r>>] # 0
  BY <1>1 DEF Changed, BroadcastId
<1>5. QED
  BY <1>1, <1>2, <1>3, <1>4

\* The configuration that a connection request starts.
LEMMA PairJob ==
  ASSUME Typed, Configure
  PROVE  /\ job' \in Jobs
         /\ job'.key \in Prefixes \X Prefixes /\ job'.id = job'.key
         /\ job'.todo = OnPath(job'.plan) /\ job'.pair
<1>1. conn.stage # "idle"
  BY DEF Configure
<1>2. Direction.dst \in Prefixes /\ Direction.src \in Prefixes
  BY <1>1 DEF Typed, Direction
<1>3. PICK plan \in RoutesFor(Direction) :
        ConfigurePair(Direction.dst, Direction.src, plan, conn.bw)
  BY DEF Configure
<1>4. plan \in Plans
  BY <1>2, PairPlans DEF RoutesFor
<1> DEFINE k == <<Direction.dst, Direction.src>>
<1>5. job' = [key |-> k, id |-> k, plan |-> plan,
             todo |-> OnPath(plan), failed |-> {}, pair |-> TRUE]
  BY <1>3 DEF ConfigurePair, PairId
<1>6. k \in Prefixes \X Prefixes /\ k \in Keys /\ k \in PathIds
  BY <1>2 DEF Keys, PathIds
<1>7. OnPath(plan) \in SUBSET Routers
  BY DEF OnPath
<1>8. QED
  BY <1>4, <1>5, <1>6, <1>7 DEF Jobs

\* The typing holds at the start.
LEMMA TypedInit == ASSUME Init PROVE Typed
<1>1. NoPlan \in Plans
  BY DEF NoPlan, Plans, Hops, NowhereHop
<1>2. job \in Jobs /\ job.todo = {}
  BY <1>1 DEF Init, Jobs
<1>3. conn \in Conns /\ conn.stage = "idle"
  BY DEF Init, Conns
<1>4. table \in [Routers -> [Keys -> Entries]]
  BY DEF Init, NoEntry, Entries
<1>5. QED
  BY <1>2, <1>3, <1>4 DEF Init, Typed

\* What a post does to a switch and to the configuration.
LEMMA PostEffect ==
  ASSUME Typed, NEW r \in Routers, PostHop(r)
  PROVE  /\ job.key \in Keys /\ job.id \in PathIds
         /\ nextId' \in [Routers -> Nat]
         /\ nextId'[r] = nextId[r] + 1
         /\ \A q \in Routers \ {r} : nextId'[q] = nextId[q]
         /\ table' \in [Routers -> [Keys -> Entries]]
         /\ table'[r][job.key] = [id |-> nextId[r], next |-> job.plan[r].next]
         /\ \A q \in Routers, k \in Keys :
               q # r \/ k # job.key => table'[q][k] = table[q][k]
         /\ job' \in Jobs
         /\ job'.todo = job.todo \ {r}
         /\ job'.key = job.key /\ job'.id = job.id
         /\ job'.plan = job.plan /\ job'.pair = job.pair
<1>1. r \in job.todo /\ job.key \in Keys /\ job.id \in PathIds
  BY DEF PostHop, Typed
<1>2. nextId' = [nextId EXCEPT ![r] = @ + 1]
  BY DEF PostHop, SwitchAdds
<1>3. [id |-> nextId[r], next |-> job.plan[r].next] \in Entries
  BY DEF Typed, Entries, Jobs, Plans, Hops
<1>4. table' = [table EXCEPT ![r][job.key] =
                 [id |-> nextId[r], next |-> job.plan[r].next]]
  BY DEF PostHop, SwitchAdds
<1>5. job' = [job EXCEPT !.todo = @ \ {r}]
  BY DEF PostHop
<1>6. job' \in Jobs /\ job'.todo = job.todo \ {r} /\ job'.key = job.key /\ job'.id = job.id
      /\ job'.plan = job.plan /\ job'.pair = job.pair
  BY <1>5 DEF Typed, Jobs
<1>7. nextId' \in [Routers -> Nat] /\ nextId'[r] = nextId[r] + 1
      /\ \A q \in Routers \ {r} : nextId'[q] = nextId[q]
  BY <1>2 DEF Typed
<1>8. table' \in [Routers -> [Keys -> Entries]]
  BY <1>1, <1>3, <1>4 DEF Typed
<1>9. /\ table'[r][job.key] = [id |-> nextId[r], next |-> job.plan[r].next]
      /\ \A q \in Routers, k \in Keys :
            q # r \/ k # job.key => table'[q][k] = table[q][k]
  BY <1>1, <1>4 DEF Typed
<1>10. QED
  BY <1>1, <1>6, <1>7, <1>8, <1>9

\* What a retraction does to the switches.
LEMMA RetractEffect ==
  ASSUME Typed, NEW p \in Prefixes, Retract(p)
  PROVE  /\ table' \in [Routers -> [Keys -> Entries]]
         /\ \A r \in Routers, k \in Keys : table'[r][k] \in {table[r][k], NoEntry}
<1>1. PICK refusing :
        table' = [r \in Routers |->
          IF r \in refusing THEN table[r]
          ELSE [k \in Keys |-> IF table[r][k].id \in Recorded(prefixPaths[p], r)
                               THEN NoEntry ELSE table[r][k]]]
  BY DEF Retract, Deleted
<1>2. \A r \in Routers, k \in Keys : table'[r][k] \in {table[r][k], NoEntry}
  BY <1>1
<1>3. NoEntry \in Entries
  BY DEF NoEntry, Entries
<1>4. \A r \in Routers : table'[r] \in [Keys -> Entries]
  BY <1>1, <1>3 DEF Typed
<1>5. QED
  BY <1>1, <1>2, <1>4

\* Every action of the manager preserves the typing.
LEMMA TypedStep == ASSUME Typed, [Next]_vars PROVE Typed'
<1>1. ASSUME NEW d \in Prefixes, NEW s \in Sources, NEW g \in Gateways, ConfigFib(d, s, g)
      PROVE  Typed'
  <2>1. PICK plan \in Plans :
          /\ job' = [key |-> <<d, s>>, id |-> BroadcastId(d, s), plan |-> plan,
                     todo |-> job'.todo, failed |-> {}, pair |-> FALSE]
          /\ job'.todo \subseteq OnPath(plan)
    BY <1>1, BroadcastJob
  <2>2. s \in Prefixes \cup {DefaultRoute}
    BY RoutingAssumption
  <2>3. <<d, s>> \in Keys /\ BroadcastId(d, s) \in PathIds
    BY <2>2 DEF Keys, BroadcastId, PathIds
  <2>4. job'.todo \in SUBSET Routers
    BY <2>1 DEF OnPath
  <2>5. job' \in Jobs /\ job'.key = <<d, s>> /\ job'.id = BroadcastId(d, s) /\ job'.plan = plan
    <3>1. <<d, s>> \in Keys \cup {<<>>} /\ BroadcastId(d, s) \in PathIds \cup {<<>>}
      BY <2>3
    <3>2. {} \in SUBSET Routers /\ FALSE \in BOOLEAN
      OBVIOUS
    <3> DEFINE k == <<d, s>>
               id == BroadcastId(d, s)
               todo == job'.todo
    <3>3. k \in Keys \cup {<<>>} /\ id \in PathIds \cup {<<>>} /\ todo \in SUBSET Routers
      BY <2>4, <3>1
    <3>4. job' = [key |-> k, id |-> id, plan |-> plan,
                 todo |-> todo, failed |-> {}, pair |-> FALSE]
      BY <2>1
    <3> HIDE DEF k, id, todo
    <3>5. job' \in Jobs /\ job'.key = k /\ job'.id = id /\ job'.plan = plan
      BY <3>2, <3>3, <3>4 DEF Jobs
    <3>6. QED
      BY <3>5 DEF k, id
  <2>6. UNCHANGED <<routeId, table, nextId, conn>>
    BY <1>1 DEF ConfigFib
  <2>7. QED
    BY <2>1, <2>3, <2>5, <2>6 DEF Typed
<1>2. ASSUME NEW r \in Routers, PostHop(r) PROVE Typed'
  <2>1. routeId' \in [PathIds \X Routers -> Nat]
    BY <1>2, PostEffect DEF PostHop, Typed
  <2>2. conn' = conn
    BY <1>2 DEF PostHop
  <2>3. QED
    BY <1>2, <2>1, <2>2, PostEffect DEF Typed, OnPath
<1>3. ASSUME NEW r \in Routers, PostFails(r) PROVE Typed'
  <2>1. job' = [job EXCEPT !.todo = @ \ {r}, !.failed = @ \cup {r}]
    BY <1>3 DEF PostFails
  <2>2. job' \in Jobs /\ job'.todo = job.todo \ {r} /\ job'.key = job.key
        /\ job'.id = job.id /\ job'.plan = job.plan
    BY <2>1 DEF Typed, Jobs
  <2>3. UNCHANGED <<routeId, table, nextId, conn>>
    BY <1>3 DEF PostFails
  <2>4. QED
    BY <2>2, <2>3 DEF Typed, OnPath
<1>4. ASSUME NEW p \in Prefixes, NEW q \in Prefixes, NEW bw \in Bandwidths,
             ConnectionRequest(p, q, bw)
      PROVE  Typed'
  <2>1. UNCHANGED <<routeId, table, nextId, job>>
    BY <1>4 DEF ConnectionRequest
  <2>2. conn' = [self |-> p, target |-> q, bw |-> bw, stage |-> "first"]
    BY <1>4 DEF ConnectionRequest
  <2>3. conn' \in Conns /\ conn'.self \in Prefixes /\ conn'.target \in Prefixes
    BY <2>2, RoutingAssumption DEF Conns
  <2>4. QED
    BY <2>1, <2>3 DEF Typed
<1>5. CASE Configure
  <2>1. job'.key \in Keys /\ job'.id \in PathIds
    BY <1>5, PairJob DEF Keys, PathIds
  <2>2. conn' = [conn EXCEPT !.stage = IF @ = "first" THEN "second" ELSE "answer"]
        /\ conn.stage # "idle"
    BY <1>5 DEF Configure
  <2>3. conn' \in Conns /\ conn'.self \in Prefixes /\ conn'.target \in Prefixes
    BY <2>2 DEF Typed, Conns
  <2>4. UNCHANGED <<routeId, table, nextId>>
    BY <1>5 DEF Configure
  <2>5. QED
    BY <1>5, <2>1, <2>3, <2>4, PairJob DEF Typed
<1>6. CASE ConfigureFails \/ Answer
  <2>1. conn' = [conn EXCEPT !.stage = "idle"]
    BY <1>6 DEF ConfigureFails, Answer
  <2>2. UNCHANGED <<routeId, table, nextId, job>>
    BY <1>6 DEF ConfigureFails, Answer
  <2>3. conn' \in Conns /\ conn'.stage = "idle"
    BY <2>1 DEF Typed, Conns
  <2>4. QED
    BY <2>2, <2>3 DEF Typed
<1>7. ASSUME NEW p \in Prefixes, Retract(p) PROVE Typed'
  <2>1. UNCHANGED <<routeId, nextId, job, conn>>
    BY <1>7 DEF Retract
  <2>2. QED
    BY <1>7, <2>1, RetractEffect DEF Typed
<1>8. CASE UNCHANGED vars
  BY <1>8 DEF vars, Typed
<1>9. QED
  BY <1>1, <1>2, <1>3, <1>4, <1>5, <1>6, <1>7, <1>8 DEF Next

-----------------------------------------------------------------------------
(***************************************************************************)
(* Retraction.  An identifier is recorded for one path and one switch, and *)
(* a switch gives each entry the next identifier, so an identifier below   *)
(* the next one never comes back.                                          *)
(***************************************************************************)
IdsInv ==
  /\ \A r \in Routers, k \in Keys : table[r][k].id < nextId[r]
  /\ \A i \in PathIds, r \in Routers : routeId[<<i, r>>] < nextId[r]
  /\ job.pair /\ job.todo # {} => job.id = job.key
  /\ RetractsItsOwn

\* Every action preserves the bounds and the ownership of identifiers.
LEMMA IdsStep == ASSUME Typed, Typed', IdsInv, [Next]_vars PROVE IdsInv'
<1>1. ASSUME NEW r \in Routers, PostHop(r) PROVE IdsInv'
  <2> DEFINE n == nextId[r]
  <2>1. job.key \in Keys /\ job.id \in PathIds /\ n \in Nat /\ r \in job.todo
    <3>1. job.key \in Keys /\ job.id \in PathIds
      BY <1>1, PostEffect
    <3>2. QED
      BY <1>1, <3>1 DEF Typed, PostHop
  <2>2. \A q \in Routers : nextId[q] \in Nat /\ nextId'[q] \in Nat /\ nextId'[q] >= nextId[q]
    <3>1. nextId'[r] = nextId[r] + 1 /\ \A q \in Routers \ {r} : nextId'[q] = nextId[q]
      BY <1>1, PostEffect
    <3>2. \A q \in Routers : nextId[q] \in Nat
      BY DEF Typed
    <3>3. QED
      BY <3>1, <3>2
  <2>3. \A q \in Routers, k \in Keys :
          table'[q][k].id = IF q = r /\ k = job.key THEN n ELSE table[q][k].id
    <3>1. table'[r][job.key] = [id |-> n, next |-> job.plan[r].next]
      BY <1>1, PostEffect
    <3>2. \A q \in Routers, k \in Keys :
            q # r \/ k # job.key => table'[q][k] = table[q][k]
      BY <1>1, PostEffect
    <3>3. QED
      BY <3>1, <3>2
  <2>4. \A i \in PathIds, q \in Routers :
          routeId'[<<i, q>>] =
            IF job.pair /\ i = job.id /\ q = r THEN n ELSE routeId[<<i, q>>]
    BY <1>1 DEF PostHop, Typed
  <2>5. \A q \in Routers, k \in Keys : table[q][k].id \in Nat
    BY DEF Typed, Entries
  <2>6. \A i \in PathIds, q \in Routers : routeId[<<i, q>>] \in Nat
    BY DEF Typed
  <2>7. nextId'[r] = n + 1
    BY <1>1, PostEffect
  <2>8. \A q \in Routers, k \in Keys : table'[q][k].id < nextId'[q]
    BY <2>1, <2>2, <2>3, <2>5, <2>7 DEF IdsInv
  <2>9. \A i \in PathIds, q \in Routers : routeId'[<<i, q>>] < nextId'[q]
    <3> TAKE i \in PathIds, q \in Routers
    <3>1. routeId[<<i, q>>] < nextId[q] /\ routeId[<<i, q>>] \in Nat
          /\ nextId[q] \in Nat /\ nextId'[q] \in Nat /\ nextId'[q] >= nextId[q]
      BY <2>2, <2>6 DEF IdsInv
    <3>2. CASE routeId'[<<i, q>>] = routeId[<<i, q>>]
      BY <3>1, <3>2
    <3>3. CASE routeId'[<<i, q>>] = n /\ q = r
      BY <2>1, <2>7, <3>3
    <3>4. QED
      BY <2>4, <3>2, <3>3
  <2>10. job'.pair = job.pair /\ job'.id = job.id /\ job'.key = job.key
    BY <1>1, PostEffect
  <2>11. job.pair => job.id = job.key
    BY <2>1 DEF IdsInv
  <2>12. ASSUME NEW i \in PathIds, NEW q \in Routers, NEW k \in Keys,
                routeId'[<<i, q>>] # 0, table'[q][k].id = routeId'[<<i, q>>]
         PROVE  k = i
    <3>1. table[q][k].id < nextId[q] /\ routeId[<<i, q>>] < nextId[q]
          /\ table[q][k].id \in Nat /\ routeId[<<i, q>>] \in Nat /\ nextId[q] \in Nat
      BY <2>2, <2>5, <2>6 DEF IdsInv
    <3>2. CASE q = r /\ k = job.key
      <4>1. table'[q][k].id = n
        BY <2>3, <3>2
      <4>2. routeId'[<<i, q>>] # routeId[<<i, q>>]
        BY <2>12, <3>1, <3>2, <4>1
      <4>3. job.pair /\ i = job.id
        BY <2>4, <4>2
      <4>4. QED
        BY <2>11, <3>2, <4>3
    <3>3. CASE ~ (q = r /\ k = job.key)
      <4>1. table'[q][k].id = table[q][k].id
        BY <2>3, <3>3
      <4>2. ~ (job.pair /\ i = job.id /\ q = r)
        <5> SUFFICES ASSUME job.pair, i = job.id, q = r PROVE FALSE
          OBVIOUS
        <5>1. routeId'[<<i, q>>] = nextId[q]
          BY <2>4
        <5>2. table[q][k].id = nextId[q]
          BY <2>12, <4>1, <5>1
        <5>3. QED
          BY <3>1, <5>2
      <4>3. routeId'[<<i, q>>] = routeId[<<i, q>>]
        BY <2>4, <4>2
      <4>4. QED
        BY <2>12, <4>1, <4>3 DEF IdsInv, RetractsItsOwn
    <3>4. QED
      BY <3>2, <3>3
  <2>13. RetractsItsOwn'
    BY <2>12 DEF RetractsItsOwn
  <2>14. QED
    BY <2>8, <2>9, <2>10, <2>11, <2>13 DEF IdsInv
<1>2. ASSUME NEW p \in Prefixes, Retract(p) PROVE IdsInv'
  <2>1. UNCHANGED <<routeId, nextId, job>>
    BY <1>2 DEF Retract
  <2>2. \A r \in Routers, k \in Keys : table'[r][k] \in {table[r][k], NoEntry}
    BY <1>2, RetractEffect
  <2>3. \A r \in Routers, k \in Keys :
          nextId[r] \in Nat /\ table[r][k].id \in Nat /\ table[r][k].id < nextId[r]
    BY DEF Typed, Entries, IdsInv
  <2>4. \A r \in Routers, k \in Keys : table'[r][k].id < nextId[r]
    BY <2>2, <2>3 DEF NoEntry
  <2>5. RetractsItsOwn'
    <3> SUFFICES ASSUME NEW i \in PathIds, NEW r \in Routers, NEW k \in Keys,
                        routeId'[<<i, r>>] # 0, table'[r][k].id = routeId'[<<i, r>>]
                 PROVE  k = i
      BY DEF RetractsItsOwn
    <3>1. table'[r][k] # NoEntry
      BY <2>1 DEF NoEntry
    <3>2. table'[r][k] = table[r][k]
      BY <2>2, <3>1
    <3>3. QED
      BY <2>1, <3>2 DEF IdsInv, RetractsItsOwn
  <2>6. QED
    BY <2>1, <2>4, <2>5 DEF IdsInv
<1>3. ASSUME UNCHANGED <<routeId, table, nextId>>,
             job'.pair /\ job'.todo # {} => job'.id = job'.key
      PROVE  IdsInv'
  BY <1>3 DEF IdsInv, RetractsItsOwn
<1>4. ASSUME NEW d \in Prefixes, NEW s \in Sources, NEW g \in Gateways, ConfigFib(d, s, g)
      PROVE  IdsInv'
  <2>1. job'.pair = FALSE
    BY <1>4, BroadcastJob
  <2>2. QED
    BY <1>3, <1>4, <2>1 DEF ConfigFib
<1>5. ASSUME NEW r \in Routers, PostFails(r) PROVE IdsInv'
  <2>1. job' = [job EXCEPT !.todo = @ \ {r}, !.failed = @ \cup {r}] /\ r \in job.todo
    BY <1>5 DEF PostFails
  <2>2. job'.pair = job.pair /\ job'.id = job.id /\ job'.key = job.key
    BY <2>1 DEF Typed, Jobs
  <2>3. QED
    BY <1>3, <1>5, <2>1, <2>2 DEF PostFails, IdsInv
<1>6. ASSUME NEW p \in Prefixes, NEW q \in Prefixes, NEW bw \in Bandwidths,
             ConnectionRequest(p, q, bw)
      PROVE  IdsInv'
  BY <1>3, <1>6 DEF ConnectionRequest, IdsInv
<1>7. CASE Configure
  BY <1>3, <1>7, PairJob DEF Configure
<1>8. CASE ConfigureFails \/ Answer
  BY <1>3, <1>8 DEF ConfigureFails, Answer, IdsInv
<1>9. CASE UNCHANGED vars
  BY <1>3, <1>9 DEF vars, IdsInv
<1>10. QED
  BY <1>1, <1>2, <1>4, <1>5, <1>6, <1>7, <1>8, <1>9 DEF Next

\* At the start no identifier has been given out.
LEMMA IdsInit == ASSUME Init PROVE IdsInv
<1>1. \A r \in Routers, k \in Keys : table[r][k].id = 0 /\ nextId[r] = 1
  BY DEF Init, NoEntry
<1>2. \A i \in PathIds, r \in Routers : routeId[<<i, r>>] = 0 /\ nextId[r] = 1
  BY DEF Init
<1>3. job.todo = {}
  BY DEF Init
<1>4. QED
  BY <1>1, <1>2, <1>3 DEF IdsInv, RetractsItsOwn

\* The identifier recorded for a booked path stands for that path and no other
\* match for good, so that retracting a prefix deletes no other route, in any
\* slice and whichever posts and deletions fail.
THEOREM OwnRetracted == Spec => []RetractsItsOwn
<1>1. Init => Typed /\ IdsInv
  BY TypedInit, IdsInit
<1>2. (Typed /\ IdsInv) /\ [Next]_vars => (Typed /\ IdsInv)'
  BY TypedStep, IdsStep
<1>3. IdsInv => RetractsItsOwn
  BY DEF IdsInv
<1>4. QED
  BY <1>1, <1>2, <1>3, PTL DEF Spec

-----------------------------------------------------------------------------
(***************************************************************************)
(* Moving a destination.  The routers posted already lead only to routers  *)
(* posted already, or out of the slice: a circle would have to be in the   *)
(* old entries, or lie among the new ones, and then have been there one    *)
(* post earlier.                                                           *)
(***************************************************************************)
Posted == OnPath(job.plan) \ job.todo

PostedFollowPlan ==
  \A r \in Posted : /\ table[r][job.key].next = job.plan[r].next
                     /\ job.plan[r].next \notin job.todo

OutwardInv ==
  /\ \A d \in Prefixes, r \in Routers : routeId[<<<<d>>, r>>] = 0
  /\ job.todo # {} /\ job.pair => job.key \in Prefixes \X Prefixes /\ job.id = job.key
  /\ job.todo # {} /\ ~ job.pair =>
       Connected(job.plan) /\ (job.key[2] = DefaultRoute => PostedFollowPlan)
  /\ BroadcastsLoopFree

\* getPathID of one prefix is never getPathID of two.
LEMMA NotAPair ==
  ASSUME NEW d, NEW k \in Prefixes \X Prefixes PROVE <<d>> # k
<1>1. PICK a \in Prefixes, b \in Prefixes : k = <<a, b>>
  OBVIOUS
<1>2. Len(<<d>>) = 1 /\ Len(<<a, b>>) = 2
  OBVIOUS
<1>3. QED
  BY <1>1, <1>2

\* Where a post leaves all entries of a key, a circle has been there before.
LEMMA OldCircle ==
  ASSUME NEW k, NEW S \in SUBSET Routers,
         \A r \in S : table'[r][k].next = table[r][k].next, Trapped(S, k)'
  PROVE  Trapped(S, k)
  BY DEF Trapped

\* The step that matters: one more switch is pointed to the new gateway.
LEMMA PostKeepsLoopFree ==
  ASSUME Typed, OutwardInv, NEW r \in Routers, PostHop(r)
  PROVE  BroadcastsLoopFree'
<1> SUFFICES ASSUME NEW d \in Prefixes, NEW S \in SUBSET Routers,
                    Trapped(S, <<d, DefaultRoute>>)'
             PROVE  FALSE
  BY DEF BroadcastsLoopFree
<1> DEFINE k == <<d, DefaultRoute>>
<1>1. k \in Keys
  BY DEF Keys
<1>2. r \in job.todo /\ job.todo \subseteq OnPath(job.plan)
  BY DEF PostHop, Typed
<1>3. /\ table'[r][job.key].next = job.plan[r].next
      /\ \A q \in Routers : q # r \/ k # job.key => table'[q][k] = table[q][k]
  <2>1. table'[r][job.key] = [id |-> nextId[r], next |-> job.plan[r].next]
    BY PostEffect
  <2>2. \A q \in Routers, j \in Keys :
          q # r \/ j # job.key => table'[q][j] = table[q][j]
    BY PostEffect
  <2>3. QED
    BY <1>1, <2>1, <2>2
<1>4. ~ Trapped(S, k)
  BY DEF OutwardInv, BroadcastsLoopFree
<1>5. r \in S /\ k = job.key
  BY <1>3, <1>4, OldCircle
<1>6. ~ job.pair
  <2> SUFFICES ASSUME job.pair PROVE FALSE
    OBVIOUS
  <2>1. k \in Prefixes \X Prefixes
    BY <1>2, <1>5 DEF OutwardInv
  <2>2. QED
    BY <2>1, RoutingAssumption
<1>7. Connected(job.plan) /\ PostedFollowPlan
  BY <1>2, <1>5, <1>6 DEF OutwardInv
<1>8. \A q \in S : table'[q][k].next \in S
  BY DEF Trapped
<1> DEFINE D == S \cap Posted
<1>9. job.plan[r].next \in D
  <2>1. job.plan[r].next \in S /\ job.plan[r].next \in Routers
    BY <1>3, <1>5, <1>8
  <2>2. job.plan[r].next \notin job.todo
    BY <1>6 DEF PostHop, InOrder
  <2>3. job.plan[r].next \in OnPath(job.plan)
    BY <1>7, <2>1 DEF Connected
  <2>4. QED
    BY <2>1, <2>2, <2>3 DEF Posted
<1>10. ASSUME NEW q \in D PROVE table[q][k].next \in D
  <2>1. q \in S /\ q \in Routers /\ q # r
    BY <1>2 DEF Posted
  <2>2. table[q][k] = table'[q][k]
    BY <1>3, <2>1
  <2>3. table[q][k].next \in S
    BY <1>8, <2>1, <2>2
  <2>4. table[q][k].next = job.plan[q].next /\ job.plan[q].next \notin job.todo
    BY <1>5, <1>7 DEF PostedFollowPlan
  <2>5. job.plan[q].next \in OnPath(job.plan)
    BY <1>7, <2>1, <2>3, <2>4 DEF Connected
  <2>6. QED
    BY <2>3, <2>4, <2>5 DEF Posted
<1>11. Trapped(D, k)
  BY <1>9, <1>10 DEF Trapped
<1>12. D \in SUBSET Routers
  OBVIOUS
<1>13. QED
  BY <1>11, <1>12 DEF OutwardInv, BroadcastsLoopFree

\* Every action preserves the order of posts and the absence of circles.
LEMMA OutwardStep ==
  ASSUME ~ PostsMayFail, Typed, OutwardInv, [Next]_vars PROVE OutwardInv'
<1>1. ASSUME NEW r \in Routers, PostHop(r) PROVE OutwardInv'
  <2>1. r \in job.todo /\ job.todo \subseteq OnPath(job.plan) /\ job.plan \in Plans
    BY <1>1 DEF PostHop, Typed, Jobs
  <2>2. /\ job'.todo = job.todo \ {r} /\ job'.key = job.key /\ job'.id = job.id
        /\ job'.plan = job.plan /\ job'.pair = job.pair
    BY <1>1, PostEffect
  <2>3. ASSUME NEW d \in Prefixes, NEW q \in Routers PROVE routeId'[<<<<d>>, q>>] = 0
    <3>1. <<d>> \in PathIds
      BY DEF PathIds
    <3>2. routeId[<<<<d>>, q>>] = 0
      BY DEF OutwardInv
    <3>3. CASE job.pair
      <4>1. job.id \in Prefixes \X Prefixes
        BY <2>1, <3>3 DEF OutwardInv
      <4>2. <<<<d>>, q>> # <<job.id, r>>
        BY <4>1, NotAPair
      <4>3. routeId' = [routeId EXCEPT ![<<job.id, r>>] = nextId[r]]
        BY <1>1, <3>3 DEF PostHop
      <4>4. QED
        BY <3>1, <3>2, <4>2, <4>3 DEF Typed
    <3>4. CASE ~ job.pair
      BY <1>1, <3>2, <3>4 DEF PostHop
    <3>5. QED
      BY <3>3, <3>4
  <2>4. job'.todo # {} /\ job'.pair => job'.key \in Prefixes \X Prefixes /\ job'.id = job'.key
    BY <2>1, <2>2 DEF OutwardInv
  <2>5. ASSUME ~ job'.pair PROVE Connected(job.plan)
    BY <2>1, <2>2, <2>5 DEF OutwardInv
  <2>6. ASSUME ~ job'.pair, job'.key[2] = DefaultRoute PROVE PostedFollowPlan'
    <3>1. PostedFollowPlan
      BY <2>1, <2>2, <2>6 DEF OutwardInv
    <3>2. Posted' = Posted \cup {r}
      BY <2>1, <2>2 DEF Posted
    <3>3. job.key \in Keys
      BY <2>1 DEF Typed
    <3>4. /\ table'[r][job.key].next = job.plan[r].next
          /\ \A q \in Routers : q # r => table'[q][job.key] = table[q][job.key]
      <4>1. table'[r][job.key] = [id |-> nextId[r], next |-> job.plan[r].next]
        BY <1>1, PostEffect
      <4>2. \A q \in Routers, k \in Keys :
              q # r \/ k # job.key => table'[q][k] = table[q][k]
        BY <1>1, PostEffect
      <4>3. QED
        BY <3>3, <4>1, <4>2
    <3>5. job.plan[r].next \notin job.todo
      BY <1>1, <2>2, <2>6 DEF PostHop, InOrder
    <3>6. \A q \in Posted : q \in Routers /\ q # r
      BY <2>1 DEF Posted, OnPath
    <3>7. QED
      BY <2>2, <3>1, <3>2, <3>4, <3>5, <3>6 DEF PostedFollowPlan
  <2>7. BroadcastsLoopFree'
    BY <1>1, PostKeepsLoopFree
  <2>8. QED
    BY <2>2, <2>3, <2>4, <2>5, <2>6, <2>7 DEF OutwardInv
<1>2. ASSUME NEW d \in Prefixes, NEW s \in Sources, NEW g \in Gateways, ConfigFib(d, s, g)
      PROVE  OutwardInv'
  <2>1. PICK plan \in Plans :
          /\ Connected(plan)
          /\ job' = [key |-> <<d, s>>, id |-> BroadcastId(d, s), plan |-> plan,
                     todo |-> job'.todo, failed |-> {}, pair |-> FALSE]
          /\ job'.todo \subseteq OnPath(plan)
          /\ s = DefaultRoute =>
               \A r \in OnPath(plan) \ job'.todo : routeId[<<<<d>>, r>>] # 0
    BY <1>2, BroadcastJob
  <2>2. job'.plan = plan /\ job'.pair = FALSE /\ job'.key = <<d, s>>
    BY <2>1
  <2>3. s = DefaultRoute => Posted' = {}
    BY <2>1, <2>2 DEF Posted, OutwardInv, OnPath
  <2>4. UNCHANGED <<routeId, table>>
    BY <1>2 DEF ConfigFib
  <2>5. BroadcastsLoopFree'
    BY <2>4 DEF OutwardInv, BroadcastsLoopFree, Trapped
  <2>6. job'.key[2] = DefaultRoute => PostedFollowPlan'
    BY <2>2, <2>3 DEF PostedFollowPlan
  <2>7. QED
    BY <2>1, <2>2, <2>4, <2>5, <2>6 DEF OutwardInv
<1>3. ASSUME NEW p \in Prefixes, Retract(p) PROVE OutwardInv'
  <2>1. UNCHANGED <<routeId, job>> /\ job.todo = {}
    BY <1>3 DEF Retract, Idle
  <2>2. BroadcastsLoopFree'
    <3> SUFFICES ASSUME NEW d \in Prefixes, NEW S \in SUBSET Routers,
                        Trapped(S, <<d, DefaultRoute>>)'
                 PROVE  FALSE
      BY DEF BroadcastsLoopFree
    <3> DEFINE k == <<d, DefaultRoute>>
    <3>1. k \in Keys
      BY DEF Keys
    <3>2. \A r \in S : table'[r][k].next \in Routers
      BY DEF Trapped
    <3>3. NoEntry.next \notin Routers
      BY RoutingAssumption DEF NoEntry
    <3>4. \A r \in S : table'[r][k] = table[r][k]
      BY <1>3, <3>1, <3>2, <3>3, RetractEffect
    <3>5. Trapped(S, k)
      BY <3>4, OldCircle
    <3>6. QED
      BY <3>5 DEF OutwardInv, BroadcastsLoopFree
  <2>3. QED
    BY <2>1, <2>2 DEF OutwardInv
<1>4. CASE Configure
  <2>1. UNCHANGED <<routeId, table>>
    BY <1>4 DEF Configure
  <2>2. job'.pair /\ job'.key \in Prefixes \X Prefixes /\ job'.id = job'.key
    BY <1>4, PairJob
  <2>3. BroadcastsLoopFree'
    BY <2>1 DEF OutwardInv, BroadcastsLoopFree, Trapped
  <2>4. QED
    BY <2>1, <2>2, <2>3 DEF OutwardInv
<1>5. ASSUME UNCHANGED <<routeId, table, job>> PROVE OutwardInv'
  BY <1>5 DEF OutwardInv, PostedFollowPlan, Posted, BroadcastsLoopFree, Trapped
<1>6. ASSUME NEW p \in Prefixes, NEW q \in Prefixes, NEW bw \in Bandwidths,
             ConnectionRequest(p, q, bw)
      PROVE  OutwardInv'
  BY <1>5, <1>6 DEF ConnectionRequest
<1>7. CASE ConfigureFails \/ Answer
  BY <1>5, <1>7 DEF ConfigureFails, Answer
<1>8. CASE UNCHANGED vars
  BY <1>5, <1>8 DEF vars
<1>9. ASSUME NEW r \in Routers, PostFails(r) PROVE OutwardInv'
  BY <1>9 DEF PostFails
<1>10. QED
  BY <1>1, <1>2, <1>3, <1>4, <1>6, <1>7, <1>8, <1>9 DEF Next

\* As long as no switch refuses a post, the packets of a destination never go in
\* a circle, in any slice, while configFib moves the destination from gateway to
\* gateway and connections are set up and retracted in between.
THEOREM LoopFree ==
  ASSUME ~ PostsMayFail
  PROVE  Spec => []BroadcastsLoopFree
<1>1. Init => Typed /\ OutwardInv
  <2> SUFFICES ASSUME Init PROVE OutwardInv
    BY TypedInit
  <2>1. \A d \in Prefixes, r \in Routers : routeId[<<<<d>>, r>>] = 0
    BY DEF Init, PathIds
  <2>2. job.todo = {}
    BY DEF Init
  <2>3. \A d \in Prefixes, r \in Routers : table[r][<<d, DefaultRoute>>].next = NoHop
    BY DEF Init, Keys, NoEntry
  <2>4. BroadcastsLoopFree
    <3> SUFFICES ASSUME NEW d \in Prefixes, NEW S \in SUBSET Routers,
                        Trapped(S, <<d, DefaultRoute>>)
                 PROVE  FALSE
      BY DEF BroadcastsLoopFree
    <3>1. PICK r \in S : table[r][<<d, DefaultRoute>>].next \in S
      BY DEF Trapped
    <3>2. QED
      BY <2>3, <3>1, RoutingAssumption
  <2>5. QED
    BY <2>1, <2>2, <2>4 DEF OutwardInv
<1>2. (Typed /\ OutwardInv) /\ [Next]_vars => (Typed /\ OutwardInv)'
  BY TypedStep, OutwardStep
<1>3. OutwardInv => BroadcastsLoopFree
  BY DEF OutwardInv
<1>4. QED
  BY <1>1, <1>2, <1>3, PTL DEF Spec

-----------------------------------------------------------------------------
(***************************************************************************)
(* Booked paths.  What is posted of a path is in the switches under the    *)
(* identifiers that route_id records.  A retraction cannot disturb another *)
(* path, because an identifier has only one owner (IdsInv).                *)
(***************************************************************************)
Pairs == Prefixes \X Prefixes

InPlace(i, S) ==
  \A r \in S : table[r][i] = [id |-> routeId[<<i, r>>], next |-> pairPath[i][r].next]

PlacedInv ==
  /\ pairPath \in [PathIds -> Plans] /\ prefixPaths \in [Prefixes -> SUBSET PathIds]
  /\ \A i \in Pairs :
       InPlace(i, OnPath(pairPath[i]) \ (IF job.id = i THEN job.todo ELSE {}))
  /\ job.todo # {} => IF job.pair THEN job.key = job.id /\ job.id \in Pairs
                                       /\ pairPath[job.id] = job.plan
                      ELSE job.key \notin Pairs /\ job.id \notin Pairs

\* The identifier of a booked path is also what the switches match.
LEMMA PairsAreKeys == Pairs \subseteq Keys /\ Pairs \subseteq PathIds
  BY DEF Pairs, Keys, PathIds

\* One post more, of the path itself or of another configuration.
LEMMA PostKeepsPlaced ==
  ASSUME Typed, PlacedInv, NEW r \in Routers, PostHop(r)
  PROVE  PlacedInv'
<1>1. r \in job.todo /\ job.todo # {} /\ UNCHANGED <<pairPath, prefixPaths>>
  BY DEF PostHop
<1>2. /\ job'.todo = job.todo \ {r} /\ job'.key = job.key /\ job'.id = job.id
      /\ job'.plan = job.plan /\ job'.pair = job.pair
      /\ job.id \in PathIds /\ job.key \in Keys
  BY PostEffect
<1>3. table'[r][job.key] = [id |-> nextId[r], next |-> job.plan[r].next]
  BY PostEffect
<1>4. \A q \in Routers, k \in Keys : q # r \/ k # job.key => table'[q][k] = table[q][k]
  BY PostEffect
<1>5. \A i \in PathIds, q \in Routers :
        routeId'[<<i, q>>] = IF job.pair /\ i = job.id /\ q = r THEN nextId[r]
                             ELSE routeId[<<i, q>>]
  BY DEF PostHop, Typed
<1>6. ASSUME NEW i \in Pairs,
             NEW q \in OnPath(pairPath[i]) \ (IF job.id = i THEN job'.todo ELSE {})
      PROVE  table'[q][i] = [id |-> routeId'[<<i, q>>], next |-> pairPath[i][q].next]
  <2>1. i \in Keys /\ i \in PathIds /\ q \in Routers
    BY PairsAreKeys DEF OnPath
  <2>2. CASE job.pair /\ i = job.id /\ q = r
    BY <1>1, <1>3, <1>5, <2>1, <2>2 DEF PlacedInv
  <2>3. CASE ~ (job.pair /\ i = job.id /\ q = r)
    <3>1. q # r \/ i # job.key
      BY <1>1, <2>3 DEF PlacedInv
    <3>2. q \in OnPath(pairPath[i]) \ (IF job.id = i THEN job.todo ELSE {})
      BY <1>1, <1>2, <2>3 DEF PlacedInv
    <3>3. table[q][i] = [id |-> routeId[<<i, q>>], next |-> pairPath[i][q].next]
      BY <3>2 DEF PlacedInv, InPlace
    <3>4. QED
      BY <1>4, <1>5, <2>1, <2>3, <3>1, <3>3
  <2>4. QED
    BY <2>2, <2>3
<1>7. QED
  BY <1>1, <1>2, <1>6 DEF PlacedInv, InPlace

\* A retraction takes only the entries of the paths that it forgets.
LEMMA RetractKeepsPlaced ==
  ASSUME Typed, IdsInv, PlacedInv, NEW p \in Prefixes, Retract(p), ~ PostsMayFail
  PROVE  PlacedInv'
<1>1. UNCHANGED <<routeId, job, prefixPaths>> /\ job.todo = {}
  BY DEF Retract, Idle
<1>2. pairPath' = [i \in PathIds |-> IF i \in prefixPaths[p] THEN NoPlan ELSE pairPath[i]]
  BY DEF Retract
<1>3. \A r \in Routers, k \in Keys :
        table'[r][k] = IF table[r][k].id \in Recorded(prefixPaths[p], r)
                       THEN NoEntry ELSE table[r][k]
  BY DEF Retract, Deleted
<1>4. NoPlan \in Plans /\ OnPath(NoPlan) = {}
  BY DEF NoPlan, Plans, Hops, NowhereHop, OnPath
<1>5. pairPath' \in [PathIds -> Plans]
  BY <1>2, <1>4 DEF PlacedInv
<1>6. ASSUME NEW i \in Pairs, NEW r \in OnPath(pairPath'[i])
      PROVE  table'[r][i] = [id |-> routeId[<<i, r>>], next |-> pairPath'[i][r].next]
  <2>1. i \in Keys /\ i \in PathIds /\ r \in Routers
    BY PairsAreKeys DEF OnPath
  <2>2. i \notin prefixPaths[p] /\ pairPath'[i] = pairPath[i]
    BY <1>2, <1>4, <2>1
  <2>3. table[r][i] = [id |-> routeId[<<i, r>>], next |-> pairPath[i][r].next]
    BY <1>1, <2>2 DEF PlacedInv, InPlace
  <2>4. table[r][i].id \notin Recorded(prefixPaths[p], r)
    <3> SUFFICES ASSUME table[r][i].id \in Recorded(prefixPaths[p], r) PROVE FALSE
      OBVIOUS
    <3>1. PICK j \in prefixPaths[p] :
            r \in OnPath(pairPath[j]) /\ table[r][i].id = routeId[<<j, r>>]
            /\ routeId[<<j, r>>] # 0
      BY DEF Recorded
    <3>2. j \in PathIds
      BY <3>1 DEF PlacedInv
    <3>3. i = j
      BY <2>1, <3>1, <3>2 DEF IdsInv, RetractsItsOwn
    <3>4. QED
      BY <2>2, <3>3
  <2>5. QED
    BY <1>3, <2>1, <2>2, <2>3, <2>4
<1>7. QED
  BY <1>1, <1>5, <1>6 DEF PlacedInv, InPlace

\* The paths that ConfigFib stores are not those of connections.
LEMMA ConfigFibKeepsPlaced ==
  ASSUME Typed, PlacedInv, Sources \subseteq {DefaultRoute},
         NEW d \in Prefixes, NEW s \in Sources, NEW g \in Gateways, ConfigFib(d, s, g)
  PROVE  PlacedInv'
<1>1. job.todo = {} /\ s = DefaultRoute /\ UNCHANGED <<routeId, table>>
  BY DEF ConfigFib, Idle
<1>2. BroadcastId(d, s) = <<d>> /\ <<d>> \in PathIds
  BY <1>1 DEF BroadcastId, PathIds
<1>3. PICK plan \in BroadcastRoutes(EdgeOf[g], g) :
        LET id == BroadcastId(d, s)
            old == IF s = DefaultRoute THEN pairPath[id] ELSE plan
        IN /\ pairPath' = [pairPath EXCEPT ![id] = plan]
           /\ prefixPaths' = [prefixPaths EXCEPT ![d] = @ \cup {id}]
           /\ job' = [key |-> <<d, s>>, id |-> id, plan |-> plan,
                      todo |-> Changed(id, old, plan), failed |-> {}, pair |-> FALSE]
  BY DEF ConfigFib, ConfigureBroadcast
<1>4. /\ pairPath' = [pairPath EXCEPT ![<<d>>] = plan]
      /\ prefixPaths' = [prefixPaths EXCEPT ![d] = @ \cup {<<d>>}]
      /\ job'.key = <<d, s>> /\ job'.id = <<d>> /\ job'.pair = FALSE
  BY <1>2, <1>3
<1>5. plan \in Plans
  BY BroadcastPlans
<1>6. <<d>> \notin Pairs /\ <<d, s>> \notin Pairs
  <2>1. <<d>> \notin Pairs
    BY NotAPair DEF Pairs
  <2>2. <<d, s>> \notin Pairs
    BY <1>1, RoutingAssumption DEF Pairs
  <2>3. QED
    BY <2>1, <2>2
<1>7. pairPath' \in [PathIds -> Plans] /\ prefixPaths' \in [Prefixes -> SUBSET PathIds]
  BY <1>2, <1>4, <1>5 DEF PlacedInv
<1>8. ASSUME NEW i \in Pairs
      PROVE  InPlace(i, OnPath(pairPath[i]))' /\ job'.id # i
  <2>1. i \in PathIds /\ i # <<d>>
    BY <1>6, PairsAreKeys
  <2>2. pairPath'[i] = pairPath[i]
    BY <1>4, <2>1 DEF PlacedInv
  <2>3. InPlace(i, OnPath(pairPath[i]))
    BY <1>1 DEF PlacedInv, InPlace
  <2>4. QED
    BY <1>1, <1>4, <2>1, <2>2, <2>3 DEF InPlace
<1>9. QED
  BY <1>4, <1>6, <1>7, <1>8 DEF PlacedInv, InPlace

\* A connection request stores its path before the first of its posts.
LEMMA ConfigureKeepsPlaced ==
  ASSUME Typed, PlacedInv, Configure
  PROVE  PlacedInv'
<1>1. job.todo = {} /\ UNCHANGED <<routeId, table>> /\ conn.stage # "idle"
  BY DEF Configure, Idle
<1>2. Direction.dst \in Prefixes /\ Direction.src \in Prefixes
  BY <1>1 DEF Typed, Direction
<1>3. PICK plan \in RoutesFor(Direction) :
        ConfigurePair(Direction.dst, Direction.src, plan, conn.bw)
  BY DEF Configure
<1>4. plan \in Plans
  BY <1>2, PairPlans DEF RoutesFor
<1> DEFINE k == <<Direction.dst, Direction.src>>
<1>5. /\ pairPath' = [pairPath EXCEPT ![k] = plan]
      /\ prefixPaths' = [p \in Prefixes |->
           IF p \in {Direction.dst, Direction.src} THEN prefixPaths[p] \cup {k}
           ELSE prefixPaths[p]]
      /\ job'.key = k /\ job'.id = k /\ job'.plan = plan
      /\ job'.todo = OnPath(plan) /\ job'.pair
  BY <1>3 DEF ConfigurePair, PairId
<1>6. k \in Pairs /\ k \in PathIds
  BY <1>2, PairsAreKeys DEF Pairs
<1> HIDE DEF k
<1>7. pairPath' \in [PathIds -> Plans] /\ prefixPaths' \in [Prefixes -> SUBSET PathIds]
  BY <1>4, <1>5, <1>6 DEF PlacedInv
<1>8. pairPath'[k] = plan /\ \A i \in PathIds \ {k} : pairPath'[i] = pairPath[i]
  BY <1>5, <1>6 DEF PlacedInv
<1>9. ASSUME NEW i \in Pairs,
             NEW q \in OnPath(pairPath'[i]) \ (IF job'.id = i THEN job'.todo ELSE {})
      PROVE  table'[q][i] = [id |-> routeId'[<<i, q>>], next |-> pairPath'[i][q].next]
  <2>1. i # k
    BY <1>5, <1>8
  <2>2. pairPath'[i] = pairPath[i]
    BY <1>8, <2>1, PairsAreKeys
  <2>3. QED
    BY <1>1, <2>2 DEF PlacedInv, InPlace
<1>10. QED
  BY <1>5, <1>6, <1>7, <1>8, <1>9 DEF PlacedInv, InPlace

\* Every action keeps what is posted of booked paths in place.
LEMMA PlacedStep ==
  ASSUME ~ PostsMayFail, Sources \subseteq {DefaultRoute},
         Typed, IdsInv, PlacedInv, [Next]_vars
  PROVE  PlacedInv'
<1>1. ASSUME UNCHANGED <<routeId, table, job, pairPath, prefixPaths>> PROVE PlacedInv'
  BY <1>1 DEF PlacedInv, InPlace
<1>2. ASSUME NEW d \in Prefixes, NEW s \in Sources, NEW g \in Gateways, ConfigFib(d, s, g)
      PROVE  PlacedInv'
  BY <1>2, ConfigFibKeepsPlaced
<1>3. ASSUME NEW r \in Routers, PostHop(r) PROVE PlacedInv'
  BY <1>3, PostKeepsPlaced
<1>4. ASSUME NEW r \in Routers, PostFails(r) PROVE PlacedInv'
  BY <1>4 DEF PostFails
<1>5. ASSUME NEW p \in Prefixes, NEW q \in Prefixes, NEW bw \in Bandwidths,
             ConnectionRequest(p, q, bw)
      PROVE  PlacedInv'
  BY <1>1, <1>5 DEF ConnectionRequest
<1>6. CASE Configure
  BY <1>6, ConfigureKeepsPlaced
<1>7. CASE ConfigureFails \/ Answer
  BY <1>1, <1>7 DEF ConfigureFails, Answer
<1>8. ASSUME NEW p \in Prefixes, Retract(p) PROVE PlacedInv'
  BY <1>8, RetractKeepsPlaced
<1>9. CASE UNCHANGED vars
  BY <1>1, <1>9 DEF vars
<1>10. QED
  BY <1>2, <1>3, <1>4, <1>5, <1>6, <1>7, <1>8, <1>9 DEF Next

\* As long as no switch refuses a post and configFib gives no source, every path
\* booked for a connection and not retracted is in the switches hop for hop, under
\* the identifiers that its retraction will use, once its own posts are made.
THEOREM BookedInPlace ==
  ASSUME ~ PostsMayFail, Sources \subseteq {DefaultRoute}
  PROVE  Spec => []PairsInPlace
<1>1. Init => Typed /\ IdsInv /\ PlacedInv
  <2> SUFFICES ASSUME Init PROVE PlacedInv
    BY TypedInit, IdsInit
  <2>1. NoPlan \in Plans /\ OnPath(NoPlan) = {}
    BY DEF NoPlan, Plans, Hops, NowhereHop, OnPath
  <2>2. job.todo = {}
    BY DEF Init
  <2>3. \A i \in Pairs : OnPath(pairPath[i]) = {}
    BY <2>1, PairsAreKeys DEF Init
  <2>4. QED
    BY <2>1, <2>2, <2>3 DEF Init, PlacedInv, InPlace
<1>2. (Typed /\ IdsInv /\ PlacedInv) /\ [Next]_vars => (Typed /\ IdsInv /\ PlacedInv)'
  BY TypedStep, IdsStep, PlacedStep
<1>3. PlacedInv => PairsInPlace
  <2> SUFFICES ASSUME PlacedInv, NEW d \in Prefixes, NEW s \in Prefixes,
                      job.id # PairId(d, s) \/ Idle
               PROVE  InPlace(PairId(d, s), OnPath(pairPath[PairId(d, s)]))
    BY DEF PairsInPlace, InPlace, PairId
  <2>1. PairId(d, s) \in Pairs
    BY DEF Pairs, PairId
  <2>2. QED
    BY <2>1 DEF PlacedInv, InPlace, Idle
<1>4. QED
  BY <1>1, <1>2, <1>3, PTL DEF Spec

-----------------------------------------------------------------------------
(***************************************************************************)
(* Sums over sets of identifiers.  Each lemma looks at a smallest set for  *)
(* which it would fail.                                                    *)
(***************************************************************************)
\* A slice has finitely many path identifiers.
LEMMA PathIdsFinite == IsFiniteSet(PathIds)
<1>1. IsFiniteSet({<<d>> : d \in Prefixes})
  <2> DEFINE f == [d \in Prefixes |-> <<d>>]
  <2>1. f \in Surjection(Prefixes, {<<d>> : d \in Prefixes})
    BY DEF Surjection
  <2>2. QED
    BY <2>1, RoutingAssumption, FS_Surjection
<1>2. IsFiniteSet(Prefixes \X Prefixes)
  BY RoutingAssumption, FS_Product
<1>3. QED
  BY <1>1, <1>2, FS_Union DEF PathIds

Some(T) == CHOOSE i \in T : TRUE
IsSum(f, g, P) == g = [T \in P |-> IF T = {} THEN 0 ELSE f[Some(T)] + g[T \ {Some(T)}]]

\* A nonempty set of naturals has a least member.
LEMMA LeastNatural ==
  ASSUME NEW T \in SUBSET Nat, T # {}
  PROVE  \E x \in T : \A y \in T : x <= y
<1>1. PICK x \in T : \A y \in T : ~ (<<y, x>> \in OpToRel(<, Nat))
  BY NatLessThanWellFounded, WFMin
<1>2. OpToRel(<, Nat) = {ss \in Nat \X Nat : ss[1] < ss[2]}
  BY Zenon DEF OpToRel
<1>3. ASSUME NEW y \in T PROVE x <= y
  <2>1. <<y, x>> \notin {ss \in Nat \X Nat : ss[1] < ss[2]}
    BY <1>1, <1>2
  <2>2. <<y, x>> \in Nat \X Nat
    OBVIOUS
  <2>3. ~ (y < x)
    BY <2>1, <2>2
  <2>4. QED
    BY <2>3
<1>4. QED
  BY <1>3

\* Sets of identifiers are finite.
LEMMA SubsetsFinite ==
  ASSUME NEW T \in SUBSET PathIds
  PROVE  IsFiniteSet(T) /\ Cardinality(T) \in Nat
  BY PathIdsFinite, FS_Subset, FS_CardinalityType

\* A set without one of its members is smaller.
LEMMA Shrinks ==
  ASSUME NEW T \in SUBSET PathIds, NEW x \in T
  PROVE  Cardinality(T \ {x}) = Cardinality(T) - 1 /\ Cardinality(T) > 0
  BY SubsetsFinite, FS_RemoveElement

Small(n) == {T \in SUBSET PathIds : Cardinality(T) <= n}

\* The recursion of Total has a solution, by the size of the sets: a solution for the
\* sets of fewer than n identifiers gives one for the sets of n.
LEMMA SumExists ==
  ASSUME NEW f
  PROVE  \E g : IsSum(f, g, SUBSET PathIds)
<1> DEFINE Bad == {n \in Nat : \A g : ~ IsSum(f, g, Small(n))}
<1>1. ASSUME Bad # {} PROVE FALSE
  <2>1. PICK n \in Bad : \A y \in Bad : n <= y
    BY <1>1, LeastNatural
  <2>2. n \in Nat /\ \A g : ~ IsSum(f, g, Small(n))
    BY <2>1
  <2>3. CASE n = 0
    <3> DEFINE g == [T \in Small(0) |-> 0]
    <3>1. \A T \in Small(0) : T = {}
      BY SubsetsFinite, FS_EmptySet DEF Small
    <3>2. IsSum(f, g, Small(0))
      BY <3>1 DEF IsSum
    <3>3. QED
      BY <2>2, <2>3, <3>2
  <2>4. CASE n # 0
    <3>1. n - 1 \in Nat /\ n - 1 \notin Bad
      BY <2>1, <2>2, <2>4
    <3>2. PICK h : IsSum(f, h, Small(n - 1))
      BY <3>1
    <3> DEFINE g == [T \in Small(n) |-> IF T = {} THEN 0 ELSE f[Some(T)] + h[T \ {Some(T)}]]
    <3>3. \A T \in Small(n - 1) : T \in Small(n) /\ g[T] = h[T]
      <4> TAKE T \in Small(n - 1)
      <4>1. T \in Small(n)
        BY SubsetsFinite, <2>2 DEF Small
      <4>2. QED
        BY <3>2, <4>1 DEF IsSum
    <3>4. \A T \in Small(n) : T # {} => T \ {Some(T)} \in Small(n - 1)
      <4> SUFFICES ASSUME NEW T \in Small(n), T # {} PROVE T \ {Some(T)} \in Small(n - 1)
        OBVIOUS
      <4>1. Some(T) \in T /\ T \in SUBSET PathIds /\ Cardinality(T) <= n
        BY DEF Some, Small
      <4>2. Cardinality(T \ {Some(T)}) = Cardinality(T) - 1
        BY <4>1, Shrinks
      <4>3. Cardinality(T) \in Nat
        BY <4>1, SubsetsFinite
      <4>4. Cardinality(T \ {Some(T)}) <= n - 1
        BY <2>2, <4>1, <4>2, <4>3
      <4>5. QED
        BY <4>1, <4>4 DEF Small
    <3>5. \A T \in Small(n) : g[T] = IF T = {} THEN 0 ELSE f[Some(T)] + g[T \ {Some(T)}]
      BY <3>3, <3>4
    <3>6. IsSum(f, g, Small(n))
      <4> HIDE DEF g
      <4>1. g = [T \in Small(n) |-> g[T]]
        BY DEF g
      <4>2. QED
        BY <3>5, <4>1 DEF IsSum
    <3>7. QED
      BY <2>2, <3>6
  <2>5. QED
    BY <2>3, <2>4
<1>2. Cardinality(PathIds) \in Nat
  BY PathIdsFinite, FS_CardinalityType
<1>3. Small(Cardinality(PathIds)) = SUBSET PathIds
  BY PathIdsFinite, FS_Subset DEF Small
<1>4. QED
  BY <1>1, <1>2, <1>3

\* Total is a solution of its recursion.
LEMMA TotalIs ==
  ASSUME NEW f
  PROVE  \E g : IsSum(f, g, SUBSET PathIds) /\ \A S : Total(f, S) = g[S]
<1> DEFINE Def(g) == g = [T \in SUBSET PathIds |->
                           IF T = {} THEN 0
                           ELSE LET i == CHOOSE i \in T : TRUE IN f[i] + g[T \ {i}]]
           sum == CHOOSE g : Def(g)
<1>1. \A g : IsSum(f, g, SUBSET PathIds) <=> Def(g)
  BY DEF IsSum, Some
<1>2. Def(sum)
  <2>1. PICK g : IsSum(f, g, SUBSET PathIds)
    BY SumExists
  <2>2. Def(g)
    BY <1>1, <2>1
  <2> HIDE DEF Def
  <2>3. Def(CHOOSE h : Def(h))
    BY <2>2
  <2>4. QED
    BY <2>3
<1>3. \A S : Total(f, S) = sum[S]
  BY DEF Total
<1>4. QED
  BY <1>1, <1>2, <1>3

\* What the recursion says.
LEMMA TotalSteps ==
  ASSUME NEW f
  PROVE  /\ Total(f, {}) = 0
         /\ \A S \in SUBSET PathIds :
              S # {} => Some(S) \in S /\ Total(f, S) = f[Some(S)] + Total(f, S \ {Some(S)})
<1>1. PICK g : IsSum(f, g, SUBSET PathIds) /\ \A S : Total(f, S) = g[S]
  BY TotalIs
<1>2. \A S \in SUBSET PathIds :
        g[S] = IF S = {} THEN 0 ELSE f[Some(S)] + g[S \ {Some(S)}]
  BY <1>1 DEF IsSum
<1>3. \A S : S # {} => Some(S) \in S
  BY DEF Some
<1>4. QED
  BY <1>1, <1>2, <1>3

\* A nonempty set of sets has one that leaves it with each member it loses.
LEMMA SmallestSet ==
  ASSUME NEW Bad \in SUBSET (SUBSET PathIds), Bad # {}
  PROVE  \E S \in Bad : \A x \in S : S \ {x} \notin Bad
<1>1. PICK n \in {Cardinality(S) : S \in Bad} : \A m \in {Cardinality(S) : S \in Bad} : n <= m
  <2>1. {Cardinality(S) : S \in Bad} \in SUBSET Nat /\ {Cardinality(S) : S \in Bad} # {}
    BY SubsetsFinite
  <2>2. QED
    BY <2>1, LeastNatural
<1>2. PICK S \in Bad : n = Cardinality(S)
  BY <1>1
<1>3. ASSUME NEW x \in S, S \ {x} \in Bad PROVE FALSE
  <2>1. Cardinality(S \ {x}) = Cardinality(S) - 1 /\ Cardinality(S) \in Nat
    BY SubsetsFinite, Shrinks
  <2>2. Cardinality(S) <= Cardinality(S \ {x})
    BY <1>1, <1>2, <1>3
  <2>3. QED
    BY <2>1, <2>2
<1>4. QED
  BY <1>2, <1>3

\* A sum of naturals is a natural.
LEMMA TotalType ==
  ASSUME NEW f \in [PathIds -> Nat], NEW S \in SUBSET PathIds
  PROVE  Total(f, S) \in Nat
<1> DEFINE Bad == {T \in SUBSET PathIds : Total(f, T) \notin Nat}
<1>1. ASSUME Bad # {} PROVE FALSE
  <2>1. PICK T \in Bad : \A x \in T : T \ {x} \notin Bad
    BY <1>1, SmallestSet
  <2>2. T # {} /\ T \in SUBSET PathIds
    BY <2>1, TotalSteps
  <2>3. Some(T) \in T /\ Total(f, T) = f[Some(T)] + Total(f, T \ {Some(T)})
    BY <2>2, TotalSteps
  <2>4. Total(f, T \ {Some(T)}) \in Nat
    BY <2>1, <2>2, <2>3
  <2>5. QED
    BY <2>1, <2>2, <2>3, <2>4
<1>2. QED
  BY <1>1

\* A member may be added last, whichever CHOOSE takes.
LEMMA TotalWithout ==
  ASSUME NEW f \in [PathIds -> Nat], NEW S \in SUBSET PathIds, NEW x \in S
  PROVE  Total(f, S) = f[x] + Total(f, S \ {x})
<1> DEFINE Bad == {T \in SUBSET PathIds : \E y \in T : Total(f, T) # f[y] + Total(f, T \ {y})}
<1>1. ASSUME Bad # {} PROVE FALSE
  <2>1. PICK T \in Bad : \A y \in T : T \ {y} \notin Bad
    BY <1>1, SmallestSet
  <2>2. PICK y \in T : Total(f, T) # f[y] + Total(f, T \ {y})
    BY <2>1
  <2> DEFINE c == Some(T)
  <2>3. c \in T /\ Total(f, T) = f[c] + Total(f, T \ {c}) /\ T \in SUBSET PathIds
    BY <2>1, <2>2, TotalSteps
  <2>4. c # y
    BY <2>2, <2>3
  <2> HIDE DEF c
  <2>5. Total(f, T \ {c}) = f[y] + Total(f, (T \ {c}) \ {y})
    BY <2>1, <2>3, <2>4
  <2>6. Total(f, T \ {y}) = f[c] + Total(f, (T \ {y}) \ {c})
    BY <2>1, <2>3, <2>4
  <2>7. (T \ {c}) \ {y} = (T \ {y}) \ {c}
    OBVIOUS
  <2>8. f[c] \in Nat /\ f[y] \in Nat /\ Total(f, (T \ {y}) \ {c}) \in Nat
    BY <2>3, TotalType
  <2>9. QED
    BY <2>2, <2>3, <2>5, <2>6, <2>7, <2>8
<1>2. S \notin Bad
  BY <1>1
<1>3. QED
  BY <1>2

\* The sum depends on the values at the members only.
LEMMA TotalSame ==
  ASSUME NEW f, NEW h, NEW S \in SUBSET PathIds, \A i \in S : f[i] = h[i]
  PROVE  Total(f, S) = Total(h, S)
<1> DEFINE Bad == {T \in SUBSET S : Total(f, T) # Total(h, T)}
<1>1. ASSUME Bad # {} PROVE FALSE
  <2>1. PICK T \in Bad : \A y \in T : T \ {y} \notin Bad
    <3>1. Bad \in SUBSET (SUBSET PathIds)
      OBVIOUS
    <3>2. QED
      BY <1>1, <3>1, SmallestSet
  <2>2. T # {} /\ T \in SUBSET S
    BY <2>1, TotalSteps
  <2>3. /\ Some(T) \in T /\ Total(f, T) = f[Some(T)] + Total(f, T \ {Some(T)})
        /\ Total(h, T) = h[Some(T)] + Total(h, T \ {Some(T)})
    BY <2>2, TotalSteps
  <2>4. Total(f, T \ {Some(T)}) = Total(h, T \ {Some(T)})
    BY <2>1, <2>2, <2>3
  <2>5. f[Some(T)] = h[Some(T)]
    BY <2>2, <2>3
  <2>6. QED
    BY <2>1, <2>3, <2>4, <2>5
<1>2. QED
  BY <1>1

\* A set has no smaller sum than its subsets.
LEMMA TotalGrows ==
  ASSUME NEW f \in [PathIds -> Nat], NEW S \in SUBSET PathIds, NEW R \in SUBSET S
  PROVE  Total(f, R) <= Total(f, S)
<1> DEFINE Bad == {T \in SUBSET PathIds : R \subseteq T /\ ~ (Total(f, R) <= Total(f, T))}
<1>1. ASSUME Bad # {} PROVE FALSE
  <2>1. PICK T \in Bad : \A y \in T : T \ {y} \notin Bad
    BY <1>1, SmallestSet
  <2>2. T # R /\ R \subseteq T /\ T \in SUBSET PathIds
    BY <2>1, TotalType
  <2>3. PICK y \in T : y \notin R
    BY <2>2
  <2>4. Total(f, R) <= Total(f, T \ {y})
    BY <2>1, <2>2, <2>3
  <2>5. Total(f, T) = f[y] + Total(f, T \ {y}) /\ f[y] \in Nat
    BY <2>2, TotalWithout
  <2>6. Total(f, R) \in Nat /\ Total(f, T \ {y}) \in Nat
    BY <2>2, TotalType
  <2>7. Total(f, R) <= Total(f, T)
    BY <2>4, <2>5, <2>6
  <2>8. QED
    BY <2>1, <2>7
<1>2. S \notin Bad
  BY <1>1
<1>3. QED
  BY <1>2

-----------------------------------------------------------------------------
(***************************************************************************)
(* Bandwidth.  What is booked on a link, in each direction, is what the    *)
(* paths configured now were granted and perhaps more, for a path that is  *)
(* replaced or retracted releases nothing; and a search takes only arcs    *)
(* with room for what is asked.                                            *)
(***************************************************************************)
FitInv ==
  /\ pairPath \in [PathIds -> Plans] /\ granted \in [PathIds -> Nat]
  /\ used \in [LinkNames \X Routers -> Nat]
  /\ DOMAIN links = LinkNames
  /\ \A l \in LinkNames : links[l].capacity \in Nat /\ links[l].ends \subseteq Routers
  /\ \A l \in LinkNames, r \in Routers : used[<<l, r>>] <= links[l].capacity
  /\ \A a \in LinkNames \X Routers : Load(a) <= used[a]

\* The steps of a plan that a search finds are arcs that it may take.
LEMMA TreesFollowArcs ==
  ASSUME NEW arcs \in SUBSET (LinkNames \X Routers \X Routers),
         NEW root \in Routers, NEW gateway \in Gateways,
         NEW tree \in Trees(arcs, root, gateway), NEW r \in Routers,
         tree[r].link # NoHop
  PROVE  <<tree[r].link, r, tree[r].next>> \in arcs
<1> DEFINE within == Within(arcs, root)
           reached == Reaching(arcs, root)
           towards(q) ==
             {a \in arcs : a[2] = q /\ \E n \in 1 .. Cardinality(Routers) :
                             q \in within[n] \ within[n - 1] /\ a[3] \in within[n - 1]}
           parents == [q \in reached \ {root} |->
                         {[next |-> a[3], link |-> a[1]] : a \in towards(q)}]
           choices == {f \in [reached \ {root} -> UNION {parents[q] : q \in reached \ {root}}] :
                         \A q \in reached \ {root} : f[q] \in parents[q]}
<1>1. PICK f \in choices :
        tree = [q \in Routers |-> IF q = root THEN [next |-> gateway, link |-> NoHop]
                                  ELSE IF q \in reached THEN f[q] ELSE NowhereHop]
  BY DEF Trees
<1>2. r \in reached \ {root} /\ tree[r] = f[r]
  BY <1>1 DEF NowhereHop
<1>3. f[r] \in parents[r]
  BY <1>2
<1>4. PICK a \in towards(r) : f[r] = [next |-> a[3], link |-> a[1]]
  BY <1>2, <1>3
<1>5. a \in arcs /\ a[2] = r
  OBVIOUS
<1>6. a = <<a[1], a[2], a[3]>>
  BY <1>5
<1>7. tree[r].link = a[1] /\ tree[r].next = a[3]
  BY <1>2, <1>4
<1> HIDE DEF towards, choices
<1>8. QED
  BY <1>5, <1>6, <1>7

\* A path of a connection uses links with room for it, towards its gateway.
LEMMA PairRoom ==
  ASSUME NEW dst \in Prefixes, NEW src \in Prefixes, NEW bw,
         NEW plan \in PairRoutes(NodeOf(dst), NodeOf(src), GatewayOf[dst], bw),
         NEW r \in Routers, plan[r].link # NoHop
  PROVE  used[<<plan[r].link, r>>] + bw <= links[plan[r].link].capacity
<1>1. ArcsWith(bw) \in SUBSET (LinkNames \X Routers \X Routers)
  BY DEF AllArcs, ArcsWith
<1>2. NodeOf(dst) \in Routers /\ GatewayOf[dst] \in Gateways
  BY RoutingAssumption DEF NodeOf
<1>3. PICK tree \in Trees(ArcsWith(bw), NodeOf(dst), GatewayOf[dst]) :
        plan = [q \in Routers |->
                  IF q \in Branch(tree, NodeOf(src)) THEN tree[q] ELSE NowhereHop]
  BY DEF PairRoutes
<1>4. plan[r] = tree[r]
  BY <1>3 DEF NowhereHop
<1>5. <<plan[r].link, r, plan[r].next>> \in ArcsWith(bw)
  BY <1>1, <1>2, <1>4, TreesFollowArcs
<1>6. QED
  BY <1>5 DEF ArcsWith

\* What a change of one path, or of its grant, does to the load of a link.
LEMMA LoadChange ==
  ASSUME FitInv, NEW id \in PathIds, NEW bw \in Nat, NEW a \in LinkNames \X Routers,
         granted' = [granted EXCEPT ![id] = bw],
         \A i \in PathIds \ {id} : pairPath'[i] = pairPath[i]
  PROVE  Load(a)' <= IF pairPath'[id][a[2]].link = a[1] THEN used[a] + bw ELSE used[a]
<1> DEFINE old == Users(a)
           new == Users(a)'
<1>1. old \in SUBSET PathIds /\ new \in SUBSET PathIds
  BY DEF Users
<1>2. old \ {id} = new \ {id}
  BY DEF Users
<1>3. id \in new <=> pairPath'[id][a[2]].link = a[1]
  BY DEF Users
<1> HIDE DEF old, new
<1>4. granted \in [PathIds -> Nat] /\ granted' \in [PathIds -> Nat] /\ granted'[id] = bw
  BY DEF FitInv
<1>5. Total(granted', new \ {id}) = Total(granted, old \ {id})
  <2> DEFINE S == new \ {id}
             f == granted'
  <2>1. \A i \in S : f[i] = granted[i]
    BY <1>1, <1>4
  <2>2. S \in SUBSET PathIds
    BY <1>1
  <2> HIDE DEF S, f
  <2>3. Total(f, S) = Total(granted, S)
    BY <2>1, <2>2, TotalSame
  <2>4. QED
    BY <1>2, <2>3 DEF S, f
<1>6. Total(granted, old \ {id}) <= Total(granted, old)
  BY <1>1, <1>4, TotalGrows
<1>7. Total(granted, old) <= used[a] /\ used[a] \in Nat
  BY DEF FitInv, Load, old
<1>8. Total(granted', new) = IF id \in new THEN bw + Total(granted', new \ {id})
                             ELSE Total(granted', new \ {id})
  <2>1. CASE id \in new
    BY <1>1, <1>4, <2>1, TotalWithout
  <2>2. CASE id \notin new
    BY <2>2
  <2>3. QED
    BY <2>1, <2>2
<1>9. Total(granted, old \ {id}) \in Nat /\ Total(granted, old) \in Nat
  BY <1>1, <1>4, TotalType
<1>10. Load(a)' = Total(granted', new)
  BY DEF Load, new
<1>11. QED
  BY <1>3, <1>5, <1>6, <1>7, <1>8, <1>9, <1>10

\* ConfigFib grants nothing to the path it stores.
LEMMA ConfigFibFits ==
  ASSUME FitInv, NEW d \in Prefixes, NEW s \in Sources, NEW g \in Gateways,
         ConfigFib(d, s, g)
  PROVE  FitInv'
<1> DEFINE id == BroadcastId(d, s)
<1>1. UNCHANGED <<links, used>>
  BY DEF ConfigFib
<1>2. s \in Prefixes \cup {DefaultRoute}
  BY RoutingAssumption
<1>3. id \in PathIds
  BY <1>2 DEF BroadcastId, PathIds
<1>4. PICK plan \in BroadcastRoutes(EdgeOf[g], g) :
        /\ pairPath' = [pairPath EXCEPT ![id] = plan]
        /\ granted' = [granted EXCEPT ![id] = 0]
  BY DEF ConfigFib, ConfigureBroadcast
<1>5. plan \in Plans
  BY BroadcastPlans
<1> HIDE DEF id
<1>6. /\ pairPath' \in [PathIds -> Plans] /\ granted' \in [PathIds -> Nat]
      /\ \A i \in PathIds \ {id} : pairPath'[i] = pairPath[i]
  BY <1>3, <1>4, <1>5 DEF FitInv
<1>7. ASSUME NEW a \in LinkNames \X Routers PROVE Load(a)' <= used[a]
  <2>1. Load(a)' <= IF pairPath'[id][a[2]].link = a[1] THEN used[a] + 0 ELSE used[a]
    BY <1>3, <1>4, <1>6, LoadChange
  <2>2. used[a] \in Nat
    BY DEF FitInv
  <2>3. QED
    BY <2>1, <2>2
<1>8. QED
  BY <1>1, <1>6, <1>7 DEF FitInv

\* A connection books its bandwidth on every link that its path sends over, and
\* the search has found the room.
LEMMA ConfigureFits ==
  ASSUME Typed, FitInv, Configure
  PROVE  FitInv'
<1> DEFINE k == PairId(Direction.dst, Direction.src)
<1>1. links' = links /\ conn.stage # "idle" /\ conn.bw \in Nat
  BY DEF Configure, Typed, Conns
<1>2. Direction.dst \in Prefixes /\ Direction.src \in Prefixes
  BY <1>1 DEF Typed, Direction
<1>3. k \in PathIds
  BY <1>2 DEF PairId, PathIds
<1>4. PICK plan \in RoutesFor(Direction) :
        /\ pairPath' = [pairPath EXCEPT ![k] = plan]
        /\ used' = Book(plan, conn.bw)
        /\ granted' = [granted EXCEPT ![k] = conn.bw]
  BY DEF Configure, ConfigurePair
<1>5. plan \in Plans
  BY <1>2, PairPlans DEF RoutesFor
<1> HIDE DEF k
<1>6. /\ pairPath' \in [PathIds -> Plans] /\ granted' \in [PathIds -> Nat]
      /\ pairPath'[k] = plan /\ \A i \in PathIds \ {k} : pairPath'[i] = pairPath[i]
  BY <1>1, <1>3, <1>4, <1>5 DEF FitInv
<1>7. \A a \in LinkNames \X Routers :
        used'[a] = IF plan[a[2]].link = a[1] THEN used[a] + conn.bw ELSE used[a]
  BY <1>4 DEF Book
<1>8. used' \in [LinkNames \X Routers -> Nat]
  <2>1. DOMAIN used' = LinkNames \X Routers /\ used' = [a \in LinkNames \X Routers |-> used'[a]]
    BY <1>4 DEF Book
  <2>2. \A a \in LinkNames \X Routers : used'[a] \in Nat
    BY <1>1, <1>7 DEF FitInv
  <2>3. QED
    BY <2>1, <2>2
<1>9. ASSUME NEW l \in LinkNames, NEW r \in Routers
      PROVE  used'[<<l, r>>] <= links[l].capacity
  <2>1. CASE plan[r].link = l
    <3>1. plan[r].link # NoHop
      BY <2>1, RoutingAssumption
    <3>2. used[<<plan[r].link, r>>] + conn.bw <= links[plan[r].link].capacity
      BY <1>2, <3>1, PairRoom DEF RoutesFor
    <3>3. QED
      BY <1>7, <2>1, <3>2
  <2>2. CASE plan[r].link # l
    BY <1>7, <2>2 DEF FitInv
  <2>3. QED
    BY <2>1, <2>2
<1>10. ASSUME NEW a \in LinkNames \X Routers PROVE Load(a)' <= used'[a]
  <2>1. Load(a)' <= IF pairPath'[k][a[2]].link = a[1] THEN used[a] + conn.bw ELSE used[a]
    BY <1>1, <1>3, <1>4, <1>6, LoadChange
  <2>2. QED
    BY <1>6, <1>7, <2>1
<1>11. QED
  BY <1>1, <1>6, <1>8, <1>9, <1>10 DEF FitInv

\* A retraction takes paths off their links and releases nothing.
LEMMA RetractFits ==
  ASSUME FitInv, NEW p \in Prefixes, Retract(p)
  PROVE  FitInv'
<1>1. UNCHANGED <<links, used, granted>>
  BY DEF Retract
<1>2. pairPath' = [i \in PathIds |-> IF i \in prefixPaths[p] THEN NoPlan ELSE pairPath[i]]
  BY DEF Retract
<1>3. NoPlan \in Plans
  BY DEF NoPlan, Plans, Hops, NowhereHop
<1>4. pairPath' \in [PathIds -> Plans]
  BY <1>2, <1>3 DEF FitInv
<1>5. ASSUME NEW a \in LinkNames \X Routers PROVE Load(a)' <= used[a]
  <2>1. Users(a)' \subseteq Users(a)
    <3> SUFFICES ASSUME NEW i \in PathIds, pairPath'[i][a[2]].link = a[1]
                 PROVE  pairPath[i][a[2]].link = a[1]
      BY DEF Users
    <3>1. a[1] # NoHop /\ a[2] \in Routers
      BY RoutingAssumption
    <3>2. pairPath'[i] # NoPlan
      BY <3>1 DEF NoPlan, NowhereHop
    <3>3. QED
      BY <1>2, <3>2
  <2>2. Users(a) \in SUBSET PathIds
    BY DEF Users
  <2>3. Total(granted, Users(a)') <= Total(granted, Users(a))
    BY <2>1, <2>2, TotalGrows DEF FitInv
  <2>4. Total(granted, Users(a)') \in Nat /\ Total(granted, Users(a)) \in Nat
    BY <2>1, <2>2, TotalType DEF FitInv
  <2>5. Total(granted, Users(a)) <= used[a] /\ used[a] \in Nat
    BY DEF FitInv, Load
  <2>6. Load(a)' = Total(granted, Users(a)')
    BY <1>1 DEF Load
  <2>7. QED
    BY <2>3, <2>4, <2>5, <2>6
<1>6. QED
  BY <1>1, <1>4, <1>5 DEF FitInv

\* A new link is as good as an unused name, on which nothing can be booked.
LEMMA RequestFits ==
  ASSUME FitInv, NEW p \in Prefixes, NEW q \in Prefixes, NEW bw \in Bandwidths,
         ConnectionRequest(p, q, bw)
  PROVE  FitInv'
<1>1. UNCHANGED <<used, pairPath, granted>>
  BY DEF ConnectionRequest
<1>2. \A a \in LinkNames \X Routers : Load(a)' = Load(a)
  BY <1>1 DEF Load, Users
<1>3. CASE links' = links
  BY <1>1, <1>2, <1>3 DEF FitInv
<1>4. CASE Provision(NodeOf(p), NodeOf(q), bw)
  <2>1. PICK l \in LinkNames :
          /\ links[l] = NoLink
          /\ links' = [links EXCEPT ![l] = NewLink(NodeOf(p), NodeOf(q), LinkBw(bw))]
    BY <1>4 DEF Provision, NewInternalLink
  <2>2. LinkBw(bw) \in Nat
    BY RoutingAssumption DEF LinkBw
  <2>3. DOMAIN links' = LinkNames /\ links'[l].capacity = LinkBw(bw)
        /\ links'[l].ends \subseteq Routers /\ \A m \in LinkNames \ {l} : links'[m] = links[m]
    BY <2>1, RoutingAssumption DEF FitInv, NewLink, NodeOf
  <2>4. links[l].capacity = 0
    BY <2>1 DEF NoLink
  <2>5. ASSUME NEW m \in LinkNames, NEW r \in Routers
        PROVE  used[<<m, r>>] <= links'[m].capacity /\ links'[m].capacity \in Nat
    <3>1. used[<<m, r>>] \in Nat /\ used[<<m, r>>] <= links[m].capacity
          /\ links[m].capacity \in Nat
      BY DEF FitInv
    <3>2. QED
      BY <2>2, <2>3, <2>4, <3>1
  <2>6. \A m \in LinkNames :
          links'[m].capacity \in Nat /\ links'[m].ends \subseteq Routers
    BY <2>2, <2>3 DEF FitInv
  <2>7. QED
    BY <1>1, <1>2, <2>3, <2>5, <2>6 DEF FitInv
<1>5. QED
  BY <1>3, <1>4 DEF ConnectionRequest

\* Every action keeps the books.
LEMMA FitStep == ASSUME Typed, FitInv, [Next]_vars PROVE FitInv'
<1>1. ASSUME UNCHANGED <<links, used, pairPath, granted>> PROVE FitInv'
  BY <1>1 DEF FitInv, Load, Users
<1>2. ASSUME NEW d \in Prefixes, NEW s \in Sources, NEW g \in Gateways, ConfigFib(d, s, g)
      PROVE  FitInv'
  BY <1>2, ConfigFibFits
<1>3. ASSUME NEW r \in Routers, PostHop(r) PROVE FitInv'
  BY <1>1, <1>3 DEF PostHop
<1>4. ASSUME NEW r \in Routers, PostFails(r) PROVE FitInv'
  BY <1>1, <1>4 DEF PostFails
<1>5. ASSUME NEW p \in Prefixes, NEW q \in Prefixes, NEW bw \in Bandwidths,
             ConnectionRequest(p, q, bw)
      PROVE  FitInv'
  BY <1>5, RequestFits
<1>6. CASE Configure
  BY <1>6, ConfigureFits
<1>7. CASE ConfigureFails \/ Answer
  BY <1>1, <1>7 DEF ConfigureFails, Answer
<1>8. ASSUME NEW p \in Prefixes, Retract(p) PROVE FitInv'
  BY <1>8, RetractFits
<1>9. CASE UNCHANGED vars
  BY <1>1, <1>9 DEF vars
<1>10. QED
  BY <1>2, <1>3, <1>4, <1>5, <1>6, <1>7, <1>8, <1>9 DEF Next

\* The paths that connection requests have been granted fit their links together, in
\* any slice and whatever posts fail: no link is promised twice.
THEOREM GrantsFit == Spec => []LivePathsFit
<1>1. Init => Typed /\ FitInv
  <2> SUFFICES ASSUME Init PROVE FitInv
    BY TypedInit
  <2>1. NoPlan \in Plans
    BY DEF NoPlan, Plans, Hops, NowhereHop
  <2>2. pairPath \in [PathIds -> Plans] /\ granted \in [PathIds -> Nat]
        /\ used \in [LinkNames \X Routers -> Nat]
    BY <2>1 DEF Init
  <2>3. /\ DOMAIN links = LinkNames
        /\ \A l \in LinkNames : links[l].capacity \in Nat /\ links[l].ends \subseteq Routers
    BY RoutingAssumption DEF Init, NoLink
  <2>4. \A l \in LinkNames, r \in Routers : used[<<l, r>>] <= links[l].capacity
    BY <2>3 DEF Init
  <2>5. ASSUME NEW a \in LinkNames \X Routers PROVE Load(a) <= used[a]
    <3>1. Users(a) = {}
      <4> SUFFICES ASSUME NEW i \in PathIds, pairPath[i][a[2]].link = a[1] PROVE FALSE
        BY DEF Users
      <4>1. a[1] # NoHop /\ a[2] \in Routers
        BY RoutingAssumption
      <4>2. QED
        BY <4>1 DEF Init, NoPlan, NowhereHop
    <3>2. Load(a) = 0
      BY <3>1, TotalSteps DEF Load
    <3>3. QED
      BY <3>2 DEF Init
  <2>6. QED
    BY <2>2, <2>3, <2>4, <2>5 DEF FitInv
<1>2. (Typed /\ FitInv) /\ [Next]_vars => (Typed /\ FitInv)'
  BY TypedStep, FitStep
<1>3. FitInv => LivePathsFit
  <2> SUFFICES ASSUME FitInv, NEW l \in LinkNames, NEW r \in links[l].ends
               PROVE  Load(<<l, r>>) <= links[l].capacity
    BY DEF LivePathsFit
  <2>1. r \in Routers
    BY DEF FitInv
  <2>2. Load(<<l, r>>) <= used[<<l, r>>] /\ used[<<l, r>>] <= links[l].capacity
    BY <2>1 DEF FitInv
  <2>3. Load(<<l, r>>) \in Nat /\ used[<<l, r>>] \in Nat /\ links[l].capacity \in Nat
    BY <2>1, TotalType DEF FitInv, Load, Users
  <2>4. QED
    BY <2>2, <2>3
<1>4. QED
  BY <1>1, <1>2, <1>3, PTL DEF Spec
=============================================================================
