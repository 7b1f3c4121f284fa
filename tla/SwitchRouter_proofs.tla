------------------------- MODULE SwitchRouter_proofs -------------------------
(***************************************************************************)
(* Proofs about SwitchRouter, for any routes, gateways and packets.        *)
(***************************************************************************)
EXTENDS SwitchRouter, FiniteSetTheorems, SequenceTheorems, WellFoundedInduction, TLAPS

Rows == [id : Nat, gateway : Gateways, mac : Macs \cup {Unknown}]

\* The routing table holds rows with identifiers that have been given out.
RowsOK ==
  /\ nextId \in Nat
  /\ \A k \in DOMAIN table : table[k] \in Rows /\ table[k].id < nextId

\* What is remembered of neighbours is MACs.
MacsOK == \A g \in DOMAIN ipMac : ipMac[g] \in Macs

IInv == RowsOK /\ MacsOK /\ FlowsFollowTable /\ GatewayMacs

\* When the routes of gateway g get its MAC, their flows get it too, provided
\* that flows and routes agreed before, except for routes of g without one.
LEMMA Learning ==
  ASSUME NEW routes, NEW old, NEW g \in Gateways, NEW mac \in Macs,
         \A k \in DOMAIN routes : routes[k] \in Rows,
         DOMAIN old \subseteq DOMAIN routes,
         \A k \in DOMAIN routes :
           \/ routes[k].gateway = g /\ routes[k].mac = Unknown
           \/ k \in DOMAIN old /\ old[k] = [id |-> routes[k].id, mac |-> routes[k].mac]
  PROVE  LET learnt == WithMac(routes, g, mac)
             set    == FlowsWithMac(old, routes, g, mac)
         IN  /\ DOMAIN learnt = DOMAIN routes
             /\ DOMAIN set = DOMAIN routes
             /\ \A k \in DOMAIN routes :
                  /\ learnt[k] \in Rows
                  /\ learnt[k].id = routes[k].id
                  /\ learnt[k].gateway = routes[k].gateway
                  /\ learnt[k].mac = IF routes[k].gateway = g THEN mac ELSE routes[k].mac
                  /\ set[k] = [id |-> learnt[k].id, mac |-> learnt[k].mac]
<1> DEFINE learnt == WithMac(routes, g, mac)
           set    == FlowsWithMac(old, routes, g, mac)
<1>1. DOMAIN learnt = DOMAIN routes
  BY DEF WithMac
<1>2. DOMAIN set = DOMAIN routes
  BY DEF FlowsWithMac
<1>3. ASSUME NEW k \in DOMAIN routes
      PROVE  /\ learnt[k] \in Rows
             /\ learnt[k].id = routes[k].id
             /\ learnt[k].gateway = routes[k].gateway
             /\ learnt[k].mac = IF routes[k].gateway = g THEN mac ELSE routes[k].mac
  <2>1. routes[k] \in Rows
    BY <1>3
  <2>2. learnt[k] = IF routes[k].gateway = g THEN [routes[k] EXCEPT !.mac = mac]
                                             ELSE routes[k]
    BY <1>3 DEF WithMac
  <2>3. QED
    BY <2>1, <2>2 DEF Rows
<1>4. ASSUME NEW k \in DOMAIN routes
      PROVE  set[k] = [id |-> learnt[k].id, mac |-> learnt[k].mac]
  <2>1. set[k] = IF routes[k].gateway = g /\ routes[k].mac # mac
                 THEN [id |-> routes[k].id, mac |-> mac]
                 ELSE old[k]
    BY <1>4 DEF FlowsWithMac, RoutingFlow
  <2>2. CASE routes[k].gateway = g /\ routes[k].mac # mac
    BY <1>3, <1>4, <2>1, <2>2
  <2>3. CASE ~ (routes[k].gateway = g /\ routes[k].mac # mac)
    <3>1. old[k] = [id |-> routes[k].id, mac |-> routes[k].mac]
      BY <1>4, <2>3, UnknownAssumption
    <3>2. learnt[k].mac = routes[k].mac /\ learnt[k].id = routes[k].id
      BY <1>3, <1>4, <2>3
    <3>3. QED
      BY <2>1, <2>3, <3>1, <3>2
  <2>4. QED
    BY <2>2, <2>3
<1> HIDE DEF learnt, set
<1>5. QED
  BY <1>1, <1>2, <1>3, <1>4 DEF learnt, set

LEMMA InitStep == Init => IInv
  BY DEF Init, IInv, RowsOK, MacsOK, FlowsFollowTable, GatewayMacs

\* A posted route replaces the one of its key in both tables.
LEMMA AddRouteStep ==
  ASSUME IInv, NEW t \in Clients, NEW k \in Keys, NEW g \in Gateways,
         AddRoute(t, k, g)
  PROVE  IInv'
<1> DEFINE added  == [id |-> nextId, gateway |-> g, mac |-> Unknown]
           routes == [j \in DOMAIN table \cup {k} |-> IF j = k THEN added ELSE table[j]]
<1>1. /\ nextId' = nextId + 1 /\ nextId \in Nat
      /\ ipMac' = ipMac
  BY DEF AddRoute, IInv, RowsOK
<1>2. \A j \in DOMAIN routes :
        /\ routes[j] \in Rows
        /\ j # k => j \in DOMAIN table /\ routes[j] = table[j] /\ routes[j].id < nextId
        /\ j = k => routes[j] = added
  BY <1>1 DEF IInv, RowsOK, Rows
<1>3. \A i, j \in DOMAIN routes : routes[i].id = routes[j].id => i = j
  <2>1. \A j \in DOMAIN routes : j = k => routes[j].id = nextId
    BY <1>2
  <2>2. \A i, j \in DOMAIN table : table[i].id = table[j].id => i = j
    BY DEF IInv, FlowsFollowTable
  <2>3. \A j \in DOMAIN routes : j # k => routes[j].id # nextId
    BY <1>1, <1>2 DEF Rows
  <2>4. QED
    BY <1>2, <2>1, <2>2, <2>3
<1>4. CASE g \notin DOMAIN ipMac
  <2>1. /\ table' = routes
        /\ flows' = [j \in DOMAIN flows \cup {k} |->
                       IF j = k THEN [id |-> nextId, mac |-> Unknown] ELSE flows[j]]
    BY <1>4 DEF AddRoute, WithFlow, PacketInFlow
  <2>2. RowsOK' /\ MacsOK'
    <3>1. ASSUME NEW j \in DOMAIN routes
          PROVE  routes[j].id < nextId + 1
      <4>1. CASE j = k
        BY <1>1, <4>1
      <4>2. CASE j # k
        <5>1. routes[j] \in Rows /\ routes[j].id < nextId
          BY <1>2, <3>1, <4>2
        <5>2. QED
          BY <1>1, <5>1 DEF Rows
      <4>3. QED
        BY <4>1, <4>2
    <3>2. \A j \in DOMAIN routes : routes[j] \in Rows
      BY <1>2
    <3> HIDE DEF routes
    <3>3. RowsOK'
      BY <1>1, <2>1, <3>1, <3>2 DEF RowsOK
    <3>4. QED
      BY <1>1, <3>3 DEF IInv, MacsOK
  <2>3. FlowsFollowTable'
    <3>1. DOMAIN flows' = DOMAIN table'
      BY <2>1 DEF IInv, FlowsFollowTable
    <3>2. ASSUME NEW j \in DOMAIN table'
          PROVE  flows'[j] = [id |-> table'[j].id, mac |-> table'[j].mac]
      BY <1>2, <2>1, <3>2 DEF IInv, FlowsFollowTable
    <3>3. QED
      BY <1>3, <2>1, <3>1, <3>2 DEF FlowsFollowTable
  <2>4. GatewayMacs'
    BY <1>1, <1>2, <1>4, <2>1 DEF IInv, GatewayMacs
  <2>5. QED
    BY <2>2, <2>3, <2>4 DEF IInv
<1>5. CASE g \in DOMAIN ipMac
  <2>1. table' = WithMac(routes, g, ipMac[g]) /\ flows' = FlowsWithMac(flows, routes, g, ipMac[g])
    BY <1>5 DEF AddRoute
  <2>2. ipMac[g] \in Macs
    BY <1>5 DEF IInv, MacsOK
  <2>3. DOMAIN flows \subseteq DOMAIN routes
    BY DEF IInv, FlowsFollowTable
  <2>4. \A j \in DOMAIN routes :
          \/ routes[j].gateway = g /\ routes[j].mac = Unknown
          \/ j \in DOMAIN flows /\ flows[j] = [id |-> routes[j].id, mac |-> routes[j].mac]
    BY <1>2 DEF IInv, FlowsFollowTable
  <2>5. \A j \in DOMAIN routes : routes[j] \in Rows
    BY <1>2
  <2> HIDE DEF routes
  <2>6. /\ DOMAIN table' = DOMAIN routes
        /\ DOMAIN flows' = DOMAIN routes
        /\ \A j \in DOMAIN routes :
             /\ table'[j] \in Rows
             /\ table'[j].id = routes[j].id
             /\ table'[j].gateway = routes[j].gateway
             /\ table'[j].mac = IF routes[j].gateway = g THEN ipMac[g] ELSE routes[j].mac
             /\ flows'[j] = [id |-> table'[j].id, mac |-> table'[j].mac]
    BY <2>1, <2>2, <2>3, <2>4, <2>5, Learning
  <2>7. RowsOK' /\ MacsOK'
    BY <1>1, <1>2, <2>6 DEF IInv, RowsOK, MacsOK, Rows
  <2>8. FlowsFollowTable'
    BY <1>3, <2>6 DEF FlowsFollowTable
  <2>9. GatewayMacs'
    BY <1>1, <1>2, <2>6 DEF IInv, GatewayMacs
  <2>10. QED
    BY <2>7, <2>8, <2>9 DEF IInv
<1>6. QED
  BY <1>4, <1>5

\* What is deleted is deleted by identifier from both tables.
LEMMA DeleteRoutesStep ==
  ASSUME IInv, NEW t \in Clients, DeleteRoutes(t)
  PROVE  IInv'
<1> DEFINE ids == {flow.id : flow \in task[t].read}
           kept == {k \in DOMAIN table : table[k].id \notin ids}
<1>1. /\ table' = [k \in kept |-> table[k]]
      /\ flows' = [k \in {j \in DOMAIN flows : flows[j].id \notin ids} |-> flows[k]]
      /\ nextId' = nextId /\ ipMac' = ipMac
  BY DEF DeleteRoutes, RowsWithout, FlowsWithout
<1>2. {k \in DOMAIN flows : flows[k].id \notin ids} = kept
  BY DEF IInv, FlowsFollowTable
<1> HIDE DEF ids
<1>3. RowsOK' /\ MacsOK'
  BY <1>1 DEF IInv, RowsOK, MacsOK
<1>4. FlowsFollowTable'
  BY <1>1, <1>2 DEF IInv, FlowsFollowTable
<1>5. GatewayMacs'
  BY <1>1 DEF IInv, GatewayMacs
<1>6. QED
  BY <1>3, <1>4, <1>5 DEF IInv

\* An accepted ARP packet gives the gateway's routes its MAC, and whether the
\* MAC is remembered or not, it is the one that is remembered from then on.
LEMMA ArpStep ==
  ASSUME IInv, NEW g \in Gateways, NEW mac \in Macs,
         Accepted(g, mac), Learns(g, mac),
         Remembers(g, mac) \/ UNCHANGED ipMac, UNCHANGED nextId
  PROVE  IInv'
<1>1. /\ DOMAIN table' = DOMAIN table
      /\ DOMAIN flows' = DOMAIN table
      /\ \A k \in DOMAIN table :
           /\ table'[k] \in Rows
           /\ table'[k].id = table[k].id
           /\ table'[k].gateway = table[k].gateway
           /\ table'[k].mac = IF table[k].gateway = g THEN mac ELSE table[k].mac
           /\ flows'[k] = [id |-> table'[k].id, mac |-> table'[k].mac]
  <2>1. \A k \in DOMAIN table : table[k] \in Rows
    BY DEF IInv, RowsOK
  <2>2. DOMAIN flows \subseteq DOMAIN table
    BY DEF IInv, FlowsFollowTable
  <2>3. \A k \in DOMAIN table :
          \/ table[k].gateway = g /\ table[k].mac = Unknown
          \/ k \in DOMAIN flows /\ flows[k] = [id |-> table[k].id, mac |-> table[k].mac]
    BY DEF IInv, FlowsFollowTable
  <2>4. QED
    BY <2>1, <2>2, <2>3, Learning DEF Learns
<1>2. /\ g \in DOMAIN ipMac => ipMac[g] = mac
      /\ \A h \in DOMAIN ipMac : ipMac[h] = mac => h = g
  BY DEF Accepted
<1>3. /\ DOMAIN ipMac' = DOMAIN ipMac \cup {g} \/ ipMac' = ipMac
      /\ \A h \in DOMAIN ipMac' : ipMac'[h] = IF h = g THEN mac ELSE ipMac[h]
      /\ \A h \in DOMAIN ipMac' : h # g => h \in DOMAIN ipMac
  <2>1. CASE Remembers(g, mac)
    BY <2>1 DEF Remembers
  <2>2. CASE UNCHANGED ipMac
    BY <1>2, <2>2
  <2>3. QED
    BY <2>1, <2>2
<1>4. RowsOK' /\ MacsOK'
  BY <1>1, <1>3 DEF IInv, RowsOK, MacsOK
<1>5. FlowsFollowTable'
  BY <1>1 DEF IInv, FlowsFollowTable
<1>6. GatewayMacs'
  <2>1. ASSUME NEW k \in DOMAIN table', table'[k].gateway \in DOMAIN ipMac'
        PROVE  table'[k].mac = ipMac'[table'[k].gateway]
    BY <1>1, <1>3, <2>1 DEF IInv, GatewayMacs
  <2>2. ASSUME NEW h \in DOMAIN ipMac', NEW i \in DOMAIN ipMac', ipMac'[h] = ipMac'[i]
        PROVE  h = i
    BY <1>2, <1>3, <2>2 DEF IInv, GatewayMacs
  <2>3. QED
    BY <2>1, <2>2 DEF GatewayMacs
<1>7. QED
  BY <1>4, <1>5, <1>6 DEF IInv

LEMMA NextStep == IInv /\ [Next]_vars => IInv'
<1> SUFFICES ASSUME IInv, [Next]_vars
             PROVE  IInv'
  OBVIOUS
<1>1. CASE UNCHANGED <<table, flows, nextId, ipMac>>
  BY <1>1 DEF IInv, RowsOK, MacsOK, FlowsFollowTable, GatewayMacs
<1>2. ASSUME NEW t \in Clients, NEW k \in Keys, NEW g \in Gateways, AddRoute(t, k, g)
      PROVE  IInv'
  BY <1>2, AddRouteStep
<1>3. ASSUME NEW t \in Clients, DeleteRoutes(t)
      PROVE  IInv'
  BY <1>3, DeleteRoutesStep
<1>4. ASSUME NEW g \in Gateways, NEW mac \in Macs, ArpRequest(g, mac)
      PROVE  IInv'
  BY <1>4, ArpStep DEF ArpRequest
<1>5. ASSUME NEW g \in Gateways, NEW mac \in Macs, ArpReply(g, mac)
      PROVE  IInv'
  BY <1>5, ArpStep DEF ArpReply
<1>6. ASSUME NEW t \in Clients, NEW read, ReadRoutes(t, read)
      PROVE  IInv'
  BY <1>1, <1>6 DEF ReadRoutes, routeVars
<1>7. ASSUME NEW t \in Clients, NEW n \in Networks,
             DeleteAddress(t) \/ SetAddress(t, n) \/ ReadAddress(t, n)
      PROVE  IInv'
  BY <1>1, <1>7 DEF DeleteAddress, SetAddress, ReadAddress, routeVars
<1>8. ASSUME NEW t \in Clients, DeleteAddress(t)
      PROVE  IInv'
  BY <1>1, <1>8 DEF DeleteAddress, routeVars
<1>9. ASSUME NEW p \in Packets, PacketIn(p) \/ Timeout(p)
      PROVE  IInv'
  BY <1>1, <1>9 DEF PacketIn, Timeout, routeVars
<1>10. CASE Answered
  BY <1>1, <1>10 DEF Answered, routeVars
<1>11. ASSUME NEW t \in Greenlets, TakeNext(t) \/ Finish(t)
       PROVE  IInv'
  BY <1>1, <1>11 DEF TakeNext, Finish, routeVars
<1>12. CASE UNCHANGED vars
  BY <1>1, <1>12 DEF vars
<1>13. QED
  BY <1>2, <1>3, <1>4, <1>5, <1>6, <1>7, <1>8, <1>9, <1>10, <1>11, <1>12 DEF Next

THEOREM Invariance == Spec => []IInv
  BY InitStep, NextStep, PTL DEF Spec

\* Flows and routing table never drift apart, however deletions overlap with
\* posts and ARP packets (FlowsFollowTable).
THEOREM FlowsFollow == Spec => []FlowsFollowTable
<1>1. IInv => FlowsFollowTable
  BY DEF IInv
<1>2. QED
  BY <1>1, Invariance, PTL

\* Routes have the MAC that is remembered of their gateway (GatewayMacs).
THEOREM MacsRight == Spec => []GatewayMacs
<1>1. IInv => GatewayMacs
  BY DEF IInv
<1>2. QED
  BY <1>1, Invariance, PTL

------------------------------------------------------------------------------
(***************************************************************************)
(* Lists: what is taken out of the buffer, and how the list of what a      *)
(* neighbour's answer releases is put together.                            *)
(***************************************************************************)
\* A nonempty set of naturals has a least member.
LEMMA LeastNatural ==
  ASSUME NEW T \in SUBSET Nat, T # {}
  PROVE  \E x \in T : \A y \in T : x <= y
<1>1. PICK x \in T : \A y \in T : ~ (<<y, x>> \in OpToRel(<, Nat))
  BY NatLessThanWellFounded, WFMin
<1>2. OpToRel(<, Nat) = {ss \in Nat \X Nat : ss[1] < ss[2]}
  BY Zenon DEF OpToRel
<1>3. ASSUME NEW y \in T PROVE x <= y
  <2>1. <<y, x>> \notin {ss \in Nat \X Nat : ss[1] < ss[2]}
    BY <1>1, <1>2
  <2>2. <<y, x>> \in Nat \X Nat
    OBVIOUS
  <2>3. ~ (y < x)
    BY <2>1, <2>2
  <2>4. QED
    BY <2>3
<1>4. QED
  BY <1>3

Distinct(s) == \A i, j \in 1 .. Len(s) : s[i] = s[j] => i = j

\* list.remove takes the one occurrence of its argument out of a list of distinct things.
LEMMA Removal ==
  ASSUME NEW S, NEW s \in Seq(S), Distinct(s), NEW e
  PROVE  /\ RemoveFirst(s, e) \in Seq(S)
         /\ Distinct(RemoveFirst(s, e))
         /\ ToSet(RemoveFirst(s, e)) = ToSet(s) \ {e}
<1> DEFINE I == {i \in 1 .. Len(s) : s[i] = e}
<1>1. CASE I = {}
  <2>1. RemoveFirst(s, e) = s
    BY <1>1 DEF RemoveFirst
  <2>2. e \notin ToSet(s)
    BY <1>1 DEF ToSet
  <2>3. QED
    BY <2>1, <2>2
<1>2. CASE I # {}
  <2>1. PICK m \in I : \A j \in I : m <= j
    <3>1. I \in SUBSET Nat
      OBVIOUS
    <3>2. QED
      BY <1>2, <3>1, LeastNatural
  <2>2. I = {m} /\ m \in 1 .. Len(s) /\ s[m] = e
    BY <2>1 DEF Distinct
  <2>3. SelectInSeq(s, LAMBDA v : v = e) = m
    <3>1. SelectInSeq(s, LAMBDA v : v = e) = Min(I)
      BY <1>2 DEF SelectInSeq
    <3>2. Min(I) = CHOOSE x \in I : \A y \in I : x <= y
      BY DEF Min
    <3>3. QED
      BY <2>1, <2>2, <3>1, <3>2
  <2> DEFINE t == SubSeq(s, 1, m - 1) \o SubSeq(s, m + 1, Len(s))
  <2>4. RemoveFirst(s, e) = t
    BY <2>2, <2>3 DEF RemoveFirst, RemoveAt
  <2> DEFINE u == SubSeq(s, 1, m - 1)
             v == SubSeq(s, m + 1, Len(s))
  <2>5. Len(s) \in Nat /\ m \in Nat /\ \A i \in 1 .. Len(s) : s[i] \in S
    BY <2>2
  <2>6. u \in Seq(S) /\ Len(u) = m - 1 /\ \A i \in 1 .. m - 1 : u[i] = s[i]
    <3>1. \A i \in 1 .. m - 1 : s[i] \in S
      BY <2>2, <2>5
    <3>2. /\ SubSeq(s, 1, m - 1) \in Seq(S)
          /\ Len(SubSeq(s, 1, m - 1)) = IF 1 <= m - 1 THEN m - 1 - 1 + 1 ELSE 0
          /\ \A i \in 1 .. m - 1 - 1 + 1 : SubSeq(s, 1, m - 1)[i] = s[1 + i - 1]
      BY <2>5, <3>1, SubSeqProperties
    <3> HIDE DEF u
    <3>3. QED
      BY <2>2, <2>5, <3>2 DEF u
  <2>7. v \in Seq(S) /\ Len(v) = Len(s) - m /\ \A i \in 1 .. Len(s) - m : v[i] = s[m + i]
    <3>1. \A i \in m + 1 .. Len(s) : s[i] \in S
      BY <2>2, <2>5
    <3>2. /\ SubSeq(s, m + 1, Len(s)) \in Seq(S)
          /\ Len(SubSeq(s, m + 1, Len(s))) = IF m + 1 <= Len(s) THEN Len(s) - (m + 1) + 1 ELSE 0
          /\ \A i \in 1 .. Len(s) - (m + 1) + 1 : SubSeq(s, m + 1, Len(s))[i] = s[m + 1 + i - 1]
      BY <2>5, <3>1, SubSeqProperties
    <3>3. QED
      BY <2>2, <2>5, <3>2
  <2> HIDE DEF u, v
  <2>8. t = u \o v
    BY DEF u, v
  <2> HIDE DEF t
  <2>9. /\ t \in Seq(S) /\ Len(t) = Len(u) + Len(v)
         /\ \A i \in 1 .. Len(u) + Len(v) : t[i] = IF i <= Len(u) THEN u[i] ELSE v[i - Len(u)]
    BY <2>6, <2>7, <2>8, ConcatProperties
  <2>10. t \in Seq(S) /\ Len(t) = Len(s) - 1
    BY <2>2, <2>5, <2>6, <2>7, <2>9
  <2>11. \A j \in 1 .. Len(t) : t[j] = IF j < m THEN s[j] ELSE s[j + 1]
    <3> TAKE j \in 1 .. Len(t)
    <3>1. t[j] = IF j <= Len(u) THEN u[j] ELSE v[j - Len(u)]
      BY <2>9
    <3>2. CASE j < m
      BY <2>5, <2>6, <3>1, <3>2
    <3>3. CASE ~ (j < m)
      <4>1. j - (m - 1) \in 1 .. Len(s) - m /\ m + (j - (m - 1)) = j + 1
        BY <2>10, <2>5, <3>3
      <4>2. t[j] = v[j - (m - 1)]
        BY <2>5, <2>6, <3>1, <3>3
      <4>3. QED
        BY <2>7, <3>3, <4>1, <4>2
    <3>4. QED
      BY <3>2, <3>3
  <2>12. Distinct(t)
    <3> DEFINE old(j) == IF j < m THEN j ELSE j + 1
    <3>1. \A j \in 1 .. Len(t) : old(j) \in 1 .. Len(s) /\ t[j] = s[old(j)]
      BY <2>5, <2>10, <2>11
    <3>2. \A i, j \in 1 .. Len(t) : old(i) = old(j) => i = j
      BY <2>5, <2>10
    <3> HIDE DEF old
    <3>3. QED
      BY <3>1, <3>2 DEF Distinct
  <2>13. ASSUME NEW x \in ToSet(s), x # e PROVE x \in ToSet(t)
    <3>1. PICK j \in 1 .. Len(s) : s[j] = x
      BY <2>13 DEF ToSet
    <3>2. CASE j < m
      <4>1. j \in 1 .. Len(t) /\ t[j] = x
        BY <2>2, <2>10, <2>11, <3>1, <3>2
      <4>2. QED
        BY <2>10, <4>1 DEF ToSet
    <3>3. CASE j > m
      <4>1. j - 1 \in 1 .. Len(t) /\ t[j - 1] = x
        BY <2>2, <2>10, <2>11, <3>1, <3>3
      <4>2. QED
        BY <2>10, <4>1 DEF ToSet
    <3>4. QED
      BY <2>2, <2>13, <3>1, <3>2, <3>3
  <2>14. ASSUME NEW x \in ToSet(t) PROVE x \in ToSet(s) /\ x # e
    <3>1. PICK j \in 1 .. Len(t) : t[j] = x
      BY <2>10 DEF ToSet
    <3>2. j \in 1 .. Len(s) /\ j + 1 \in 1 .. Len(s)
      BY <2>10
    <3>3. (x = s[j] /\ j # m) \/ (x = s[j + 1] /\ j + 1 # m)
      BY <2>2, <2>10, <2>11, <2>5, <3>1
    <3>4. QED
      BY <2>2, <3>2, <3>3 DEF ToSet, Distinct
  <2>15. QED
    BY <2>4, <2>10, <2>12, <2>13, <2>14
<1>3. QED
  BY <1>1, <1>2

IsFlat(F, ss, m) == F = [i \in 1 .. m |-> IF i = 1 THEN ss[i] ELSE F[i - 1] \o ss[i]]

\* The recursion of FlattenSeq has a solution, one sequence at a time.
LEMMA FlatExists ==
  ASSUME NEW ss, NEW k \in Nat
  PROVE  \E F : IsFlat(F, ss, k)
<1> DEFINE Bad == {n \in Nat : \A F : ~ IsFlat(F, ss, n)}
<1>1. ASSUME Bad # {} PROVE FALSE
  <2>1. PICK n \in Bad : \A y \in Bad : n <= y
    BY <1>1, LeastNatural
  <2>2. n \in Nat /\ \A F : ~ IsFlat(F, ss, n)
    BY <2>1
  <2>3. n # 0
    <3> DEFINE F == [i \in 1 .. 0 |-> ss[i]]
    <3>1. IsFlat(F, ss, 0)
      BY DEF IsFlat
    <3>2. QED
      BY <2>2, <3>1
  <2>4. n - 1 \in Nat /\ n - 1 \notin Bad
    BY <2>1, <2>2, <2>3
  <2>5. PICK H : IsFlat(H, ss, n - 1)
    BY <2>4
  <2> DEFINE F == [i \in 1 .. n |-> IF i = 1 THEN ss[i] ELSE H[i - 1] \o ss[i]]
  <2>6. \A i \in 1 .. n - 1 : F[i] = H[i]
    <3> TAKE i \in 1 .. n - 1
    <3>1. i \in 1 .. n
      BY <2>2
    <3>2. F[i] = IF i = 1 THEN ss[i] ELSE H[i - 1] \o ss[i]
      BY <3>1
    <3>3. H[i] = IF i = 1 THEN ss[i] ELSE H[i - 1] \o ss[i]
      BY <2>5 DEF IsFlat
    <3> HIDE DEF F
    <3>4. QED
      BY <3>2, <3>3
  <2>7. \A i \in 1 .. n : F[i] = IF i = 1 THEN ss[i] ELSE F[i - 1] \o ss[i]
    <3> TAKE i \in 1 .. n
    <3>1. i # 1 => i - 1 \in 1 .. n - 1
      BY <2>2
    <3>2. i # 1 => F[i - 1] = H[i - 1]
      BY <2>6, <3>1
    <3>3. F[i] = IF i = 1 THEN ss[i] ELSE H[i - 1] \o ss[i]
      OBVIOUS
    <3> HIDE DEF F
    <3>4. QED
      BY <3>2, <3>3
  <2>8. F = [i \in 1 .. n |-> F[i]]
    OBVIOUS
  <2> HIDE DEF F
  <2>9. IsFlat(F, ss, n)
    BY <2>7, <2>8 DEF IsFlat
  <2>10. QED
    BY <2>2, <2>9
<1>2. QED
  BY <1>1

\* Sequences of things of S make a sequence of things of S.
LEMMA Flattened ==
  ASSUME NEW S, NEW ss \in Seq(Seq(S))
  PROVE  FlattenSeq(ss) \in Seq(S)
<1>1. CASE Len(ss) = 0
  <2>1. FlattenSeq(ss) = ss /\ ss = << >>
    BY <1>1 DEF FlattenSeq
  <2>2. QED
    BY <2>1
<1>2. CASE Len(ss) # 0
  <2> DEFINE Def(F) == F = [i \in 1 .. Len(ss) |-> IF i = 1 THEN ss[i] ELSE F[i - 1] \o ss[i]]
             flat == CHOOSE F : Def(F)
             Bad == {n \in 1 .. Len(ss) : flat[n] \notin Seq(S)}
  <2>1. Len(ss) \in Nat
    OBVIOUS
  <2>2. PICK F : IsFlat(F, ss, Len(ss))
    BY <2>1, FlatExists
  <2>3. Def(F)
    BY <2>2 DEF IsFlat
  <2>4. Def(flat)
    <3> HIDE DEF Def
    <3>1. QED
      BY <2>3
  <2>5. FlattenSeq(ss) = flat[Len(ss)]
    BY <1>2 DEF FlattenSeq
  <2> HIDE DEF flat
  <2>6. ASSUME Bad # {} PROVE FALSE
    <3>1. PICK n \in Bad : \A y \in Bad : n <= y
      <4>1. Bad \in SUBSET Nat
        OBVIOUS
      <4>2. QED
        BY <2>6, <4>1, LeastNatural
    <3>2. n \in 1 .. Len(ss) /\ ss[n] \in Seq(S)
      OBVIOUS
    <3>3. flat[n] = IF n = 1 THEN ss[n] ELSE flat[n - 1] \o ss[n]
      BY <2>4, <3>2
    <3>4. CASE n = 1
      BY <3>2, <3>3, <3>4
    <3>5. CASE n # 1
      <4>1. n - 1 \in 1 .. Len(ss) /\ ~ (n <= n - 1)
        BY <3>2, <3>5
      <4>2. flat[n - 1] \in Seq(S)
        BY <3>1, <4>1
      <4>3. flat[n] = flat[n - 1] \o ss[n]
        BY <3>3, <3>5
      <4>4. flat[n] \in Seq(S)
        BY <3>2, <4>2, <4>3, ConcatProperties
      <4>5. QED
        BY <4>4
    <3>6. QED
      BY <3>4, <3>5
  <2>7. QED
    BY <1>2, <2>1, <2>5, <2>6
<1>3. QED
  BY <1>1, <1>2

\* What is listed of the buffer is in the buffer.
LEMMA ListedIsBuffered ==
  ASSUME buffer \in Seq(Packets), NEW times, \A i \in DOMAIN buffer : times[i] \in Nat
  PROVE  Listed(times) \in Seq(ToSet(buffer))
<1> DEFINE S == ToSet(buffer)
           copies == [i \in DOMAIN buffer |-> [j \in 1 .. times[i] |-> buffer[i]]]
<1>1. DOMAIN buffer = 1 .. Len(buffer) /\ Len(buffer) \in Nat
  OBVIOUS
<1>2. \A i \in DOMAIN buffer : copies[i] \in Seq(S)
  <2> TAKE i \in DOMAIN buffer
  <2>1. buffer[i] \in S /\ times[i] \in Nat
    BY DEF ToSet
  <2> HIDE DEF S
  <2>2. [j \in 1 .. times[i] |-> buffer[i]] \in [1 .. times[i] -> S]
    BY <2>1
  <2>3. QED
    BY <2>1, <2>2, SeqDef
<1> HIDE DEF S
<1>3. copies \in [1 .. Len(buffer) -> Seq(S)]
  BY <1>1, <1>2
<1> HIDE DEF copies
<1>4. copies \in Seq(Seq(S))
  BY <1>1, <1>3, SeqDef
<1>5. FlattenSeq(copies) \in Seq(S)
  BY <1>4, Flattened
<1>6. QED
  BY <1>5 DEF Listed, copies, S

\* So is what the answer of a neighbour releases.
LEMMA WaitingIsBuffered ==
  ASSUME buffer \in Seq(Packets), NEW routes, IsFiniteSet(routes), NEW g
  PROVE  Waiting(routes, g) \in Seq(ToSet(buffer))
<1>1. ASSUME NEW p PROVE TimesListed(routes, p, g) \in Nat
  <2> DEFINE matching == {route \in routes : Matches(route.key, p)}
             other == {route \in matching : route.gateway # g}
             listing == {route \in matching \ other : \A q \in other : Before(route, q)}
  <2>1. listing \in SUBSET routes
    OBVIOUS
  <2>2. Cardinality(listing) \in Nat
    BY <2>1, FS_Subset, FS_CardinalityType
  <2>3. TimesListed(routes, p, g) = IF p.dst = g THEN 1 ELSE Cardinality(listing)
    BY DEF TimesListed
  <2> HIDE DEF listing
  <2>4. QED
    BY <2>2, <2>3
<1> DEFINE times == [i \in DOMAIN buffer |-> TimesListed(routes, buffer[i], g)]
<1>2. \A i \in DOMAIN buffer : times[i] \in Nat
  BY <1>1
<1> HIDE DEF times
<1>3. Listed(times) \in Seq(ToSet(buffer))
  BY <1>2, ListedIsBuffered
<1>4. QED
  BY <1>3 DEF Waiting, times

------------------------------------------------------------------------------
(***************************************************************************)
(* Packets.  The buffer holds no packet twice, a greenlet that takes out   *)
(* packets holds those it has taken out so far, and a packet is in one     *)
(* place only.  It gets into a greenlet's hands from the buffer, whatever  *)
(* list the greenlet works on, because list.remove fails otherwise.        *)
(***************************************************************************)
Working(u) ==
  "at" \in DOMAIN task[u] /\ task[u].list \in Seq(Packets) /\ task[u].at \in 1 .. Len(task[u].list)

PacketInv ==
  /\ buffer \in Seq(Packets) /\ Distinct(buffer)
  /\ fresh \subseteq Packets
  /\ IsFiniteSet(known)
  /\ DOMAIN task = Greenlets
  /\ \A u \in TakesOut : Working(u)
  /\ AnsweredOnce

\* Greenlet t takes packet p, which is in the buffer, and works on; the others
\* and the packets that have been answered are left alone.
LEMMA TakingOut ==
  ASSUME PacketInv, NEW t \in Greenlets, NEW p \in ToSet(buffer),
         buffer' = RemoveFirst(buffer, p),
         DOMAIN task' = Greenlets, \A u \in Greenlets \ {t} : task'[u] = task[u],
         TakesOut' = TakesOut \cup {t}, Working(t)',
         Taken(t)' = (IF t \in TakesOut THEN Taken(t) ELSE {}) \cup {p},
         UNCHANGED packetVars, IsFiniteSet(known')
  PROVE  PacketInv'
<1>1. UNCHANGED <<fresh, forwarded, unreachable>>
  BY DEF packetVars
<1>2. /\ buffer' \in Seq(Packets) /\ Distinct(buffer')
      /\ ToSet(buffer') = ToSet(buffer) \ {p}
  BY Removal DEF PacketInv
<1>3. \A u \in TakesOut' : u # t => u \in TakesOut /\ Taken(u)' = Taken(u)
  BY DEF TakesOut, Taken
<1>4. \A u \in TakesOut' : Working(u)'
  BY <1>3 DEF PacketInv, Working, TakesOut
<1>5. AnsweredOnce'
  <2>1. AnsweredOnce
    BY DEF PacketInv
  <2>2. p \in ToSet(buffer) /\ p \notin fresh /\ p \notin forwarded /\ p \notin unreachable
        /\ \A u \in TakesOut : p \notin Taken(u)
    BY <2>1 DEF AnsweredOnce
  <2>3. ASSUME NEW u \in TakesOut'
        PROVE  Taken(u)' \cap (fresh \cup ToSet(buffer') \cup forwarded \cup unreachable) = {}
    <3>1. CASE u = t
      BY <1>2, <2>1, <2>2, <3>1 DEF AnsweredOnce
    <3>2. CASE u # t
      BY <1>2, <1>3, <2>1, <3>2 DEF AnsweredOnce
    <3>3. QED
      BY <3>1, <3>2
  <2>4. ASSUME NEW u \in TakesOut', NEW v \in TakesOut' \ {u}
        PROVE  Taken(u)' \cap Taken(v)' = {}
    <3>1. CASE u # t /\ v # t
      BY <1>3, <2>1, <3>1 DEF AnsweredOnce
    <3>2. CASE u = t
      BY <1>3, <2>1, <2>2, <3>2 DEF AnsweredOnce
    <3>3. CASE v = t
      BY <1>3, <2>1, <2>2, <3>3 DEF AnsweredOnce
    <3>4. QED
      BY <3>1, <3>2, <3>3
  <2>5. QED
    BY <1>1, <1>2, <2>1, <2>3, <2>4 DEF AnsweredOnce
<1>6. QED
  BY <1>1, <1>2, <1>4, <1>5 DEF PacketInv

\* A greenlet goes on to something else, and what it had taken out, if anything,
\* is forwarded or gone.
LEMMA GoingOn ==
  ASSUME PacketInv, NEW t \in Greenlets, NEW work, work.kind \notin {"release", "discard"},
         task' = [task EXCEPT ![t] = work],
         UNCHANGED <<buffer, fresh, unreachable>>,
         forwarded' = forwarded \/ (t \in TakesOut /\ forwarded' = forwarded \cup Taken(t)),
         IsFiniteSet(known')
  PROVE  PacketInv'
<1>1. DOMAIN task' = Greenlets /\ task'[t] = work /\ \A u \in Greenlets \ {t} : task'[u] = task[u]
  BY DEF PacketInv
<1>2. TakesOut' = TakesOut \ {t}
  BY <1>1 DEF TakesOut
<1>3. \A u \in TakesOut' : u \in TakesOut /\ Taken(u)' = Taken(u) /\ task'[u] = task[u] /\ u # t
  BY <1>1, <1>2 DEF TakesOut, Taken
<1>4. \A u \in TakesOut' : Working(u)'
  BY <1>3 DEF PacketInv, Working
<1>5. AnsweredOnce'
  BY <1>3 DEF PacketInv, AnsweredOnce
<1>6. QED
  BY <1>1, <1>4, <1>5 DEF PacketInv

\* A greenlet begins to take out packets that are listed from the buffer.
LEMMA Beginning ==
  ASSUME PacketInv, NEW t \in Greenlets, task[t] = Idle \/ task[t].kind = "unregister",
         NEW packets \in Seq(ToSet(buffer)), NEW work,
         work.kind \in {"release", "discard"}, work.list = packets,
         "at" \in DOMAIN work, work.at = 1,
         Begin(t, packets, work), UNCHANGED packetVars, IsFiniteSet(known')
  PROVE  PacketInv'
<1>1. t \notin TakesOut
  BY DEF TakesOut, Idle
<1>2. CASE packets = << >>
  <2>1. task' = [task EXCEPT ![t] = Idle] /\ UNCHANGED buffer
    BY <1>2 DEF Begin
  <2>2. Idle.kind \notin {"release", "discard"}
    BY DEF Idle
  <2>3. QED
    BY <2>1, <2>2, GoingOn DEF packetVars
<1>3. CASE packets # << >>
  <2>1. task' = [task EXCEPT ![t] = work] /\ buffer' = RemoveFirst(buffer, packets[1])
    BY <1>3 DEF Begin
  <2>2. Len(packets) \in Nat \ {0} /\ packets[1] \in ToSet(buffer)
    BY <1>3, EmptySeq, ElementOfSeq
  <2>3. DOMAIN task' = Greenlets /\ task'[t] = work
        /\ \A u \in Greenlets \ {t} : task'[u] = task[u]
    BY <2>1 DEF PacketInv
  <2>4. TakesOut' = TakesOut \cup {t}
    BY <2>3 DEF TakesOut
  <2>5. ToSet(buffer) \subseteq Packets
    BY DEF PacketInv, ToSet
  <2>6. packets \in Seq(Packets)
    BY <2>5, SeqMonotonic
  <2>7. Working(t)'
    BY <2>2, <2>3, <2>6 DEF Working
  <2>8. Taken(t)' = {packets[1]}
    BY <2>2, <2>3 DEF Taken
  <2>9. QED
    BY <1>1, <2>1, <2>2, <2>3, <2>4, <2>7, <2>8, TakingOut
<1>4. QED
  BY <1>2, <1>3

\* A greenlet wakes up and takes out the next packet, if it is still there.
LEMMA NextTaken ==
  ASSUME PacketInv, NEW t \in Greenlets, TakeNext(t)
  PROVE  PacketInv'
<1> DEFINE n == task[t].at
           p == task[t].list[n + 1]
<1>1. t \in TakesOut /\ n < Len(task[t].list) /\ UNCHANGED <<packetVars, known>>
  BY DEF TakeNext, routeVars
<1>2. task[t].list \in Seq(Packets) /\ n \in 1 .. Len(task[t].list)
  BY <1>1 DEF PacketInv, Working
<1>3. CASE Fails(t)
  <2>1. task' = [task EXCEPT ![t] = Idle] /\ UNCHANGED buffer
    BY <1>3 DEF TakeNext
  <2>2. Idle.kind \notin {"release", "discard"}
    BY DEF Idle
  <2>3. QED
    BY <1>1, <2>1, <2>2, GoingOn DEF packetVars, PacketInv
<1>4. CASE ~ Fails(t)
  <2>1. task' = [task EXCEPT ![t].at = @ + 1] /\ buffer' = RemoveFirst(buffer, p)
    BY <1>4 DEF TakeNext
  <2>2. p \in ToSet(buffer)
    BY <1>4 DEF Fails
  <2>3. DOMAIN task' = Greenlets /\ task'[t] = [task[t] EXCEPT !.at = n + 1]
        /\ \A u \in Greenlets \ {t} : task'[u] = task[u]
    BY <2>1 DEF PacketInv
  <2>4. task'[t].kind = task[t].kind /\ task'[t].list = task[t].list
    BY <2>3
  <2>5. "at" \in DOMAIN task'[t] /\ task'[t].at = n + 1
    <3>1. "at" \in DOMAIN task[t]
      BY <1>1 DEF PacketInv, Working
    <3>2. QED
      BY <2>3, <3>1
  <2>6. TakesOut' = TakesOut \cup {t}
    BY <1>1, <2>3, <2>4 DEF TakesOut
  <2>7. Working(t)'
    BY <1>1, <1>2, <2>4, <2>5 DEF Working
  <2>8. Taken(t)' = Taken(t) \cup {p}
    <3>1. 1 .. n + 1 = (1 .. n) \cup {n + 1}
      BY <1>2
    <3>2. QED
      BY <2>4, <2>5, <3>1 DEF Taken
  <2>9. QED
    BY <1>1, <2>1, <2>2, <2>3, <2>6, <2>7, <2>8, TakingOut DEF PacketInv
<1>5. QED
  BY <1>3, <1>4

\* Every step keeps each packet in its one place.
LEMMA PacketStep ==
  ASSUME PacketInv, [Next]_vars
  PROVE  PacketInv'
<1> DEFINE Others == <<buffer, packetVars, known>>
<1>1. ASSUME NEW t \in Greenlets, NEW work, task[t] = Idle \/ t \notin TakesOut,
             work.kind \notin {"release", "discard"}, task' = [task EXCEPT ![t] = work],
             UNCHANGED Others
      PROVE  PacketInv'
  BY <1>1, GoingOn DEF packetVars, PacketInv
<1>2. ASSUME UNCHANGED <<buffer, packetVars, task>>, IsFiniteSet(known') PROVE PacketInv'
  <2>1. TakesOut' = TakesOut /\ \A u \in TakesOut : task'[u] = task[u] /\ Taken(u)' = Taken(u)
    BY <1>2 DEF TakesOut, Taken
  <2>2. QED
    BY <1>2, <2>1 DEF packetVars, PacketInv, Working, AnsweredOnce
<1>3. ASSUME NEW t \in Clients, NEW k \in Keys, NEW g \in Gateways, AddRoute(t, k, g)
      PROVE  PacketInv'
  <2>1. IsFiniteSet(known')
    BY <1>3, FS_AddElement DEF AddRoute, PacketInv
  <2>2. UNCHANGED packetVars /\ task[t] = Idle /\ t \in Greenlets
    BY <1>3 DEF AddRoute, packetVars, Greenlets
  <2>3. CASE UNCHANGED <<buffer, task>>
    BY <1>2, <2>1, <2>2, <2>3
  <2>4. CASE Begin(t, Waiting(known', g), Releasing(Waiting(known', g), 1))
    <3>1. Waiting(known', g) \in Seq(ToSet(buffer))
      BY <2>1, WaitingIsBuffered DEF PacketInv
    <3> DEFINE packets == Waiting(known', g)
               work == Releasing(packets, 1)
    <3>2. work.kind \in {"release", "discard"} /\ work.list = packets /\ work.at = 1
          /\ "at" \in DOMAIN work
      BY DEF Releasing
    <3> HIDE DEF packets, work
    <3>3. QED
      BY <2>1, <2>2, <2>4, <3>1, <3>2, Beginning DEF packets, work
  <2>5. QED
    BY <1>3, <2>3, <2>4 DEF AddRoute
<1>4. ASSUME NEW t \in Clients, NEW read, ReadRoutes(t, read) PROVE PacketInv'
  <2>1. task' = [task EXCEPT ![t] = [kind |-> "delete", read |-> read]]
        /\ UNCHANGED Others /\ task[t] = Idle /\ t \in Greenlets
    BY <1>4 DEF ReadRoutes, routeVars, Greenlets
  <2>2. QED
    BY <1>1, <2>1
<1>5. ASSUME NEW t \in Clients, DeleteRoutes(t) PROVE PacketInv'
  <2>1. task' = [task EXCEPT ![t] = Idle] /\ UNCHANGED <<buffer, packetVars>>
        /\ t \in Greenlets
    BY <1>5 DEF DeleteRoutes, Greenlets
  <2>2. IsFiniteSet(known')
    <3>1. known' \in SUBSET known
      BY <1>5 DEF DeleteRoutes, KnownWithout
    <3>2. QED
      BY <3>1, FS_Subset DEF PacketInv
  <2>3. Idle.kind \notin {"release", "discard"}
    BY DEF Idle
  <2>4. QED
    BY <2>1, <2>2, <2>3, GoingOn DEF packetVars
<1>6. ASSUME NEW t \in Clients, NEW n \in Networks, SetAddress(t, n) \/ ReadAddress(t, n)
      PROVE  PacketInv'
  <2>1. CASE SetAddress(t, n)
    BY <1>2, <2>1 DEF SetAddress, routeVars, PacketInv
  <2>2. CASE ReadAddress(t, n)
    <3>1. task' = [task EXCEPT ![t] = [kind |-> "unregister", id |-> addresses[n]]]
          /\ UNCHANGED Others /\ task[t] = Idle /\ t \in Greenlets
      BY <2>2 DEF ReadAddress, routeVars, Greenlets
    <3>2. QED
      BY <1>1, <3>1
  <2>3. QED
    BY <1>6, <2>1, <2>2
<1>7. ASSUME NEW t \in Clients, DeleteAddress(t) PROVE PacketInv'
  <2> DEFINE id == task[t].id
             inNetwork(p) == \E n \in NetworkOf(p.dst) : addresses[n] = id
             times == [i \in DOMAIN buffer |-> IF inNetwork(buffer[i]) THEN 1 ELSE 0]
             packets == Listed(times)
             work == Discarding(id, packets, 1)
  <2>1. Begin(t, packets, work) /\ UNCHANGED <<packetVars, known>>
        /\ task[t].kind = "unregister" /\ t \in Greenlets
    BY <1>7 DEF DeleteAddress, routeVars, Greenlets
  <2>2. \A i \in DOMAIN buffer : times[i] \in Nat
    OBVIOUS
  <2> HIDE DEF times
  <2>3. packets \in Seq(ToSet(buffer))
    BY <2>2, ListedIsBuffered DEF PacketInv
  <2> HIDE DEF packets
  <2>4. work.kind \in {"release", "discard"} /\ work.list = packets /\ work.at = 1
        /\ "at" \in DOMAIN work
    BY DEF Discarding
  <2> HIDE DEF work
  <2>5. QED
    BY <2>1, <2>3, <2>4, Beginning DEF PacketInv
<1>8. ASSUME NEW p \in Packets, PacketIn(p) PROVE PacketInv'
  <2>1. p \in fresh /\ task[Handler] = Idle /\ fresh' = fresh \ {p}
        /\ UNCHANGED <<known, forwarded, unreachable>>
    BY <1>8 DEF PacketIn, routeVars
  <2>2. PICK work : /\ buffer' \in {buffer, Append(buffer, p)}
                    /\ task' = [task EXCEPT ![Handler] = work]
                    /\ work.kind \notin {"release", "discard"}
    BY <1>8 DEF PacketIn, Suspends, Idle
  <2>3. DOMAIN task' = Greenlets /\ \A u \in Greenlets \ {Handler} : task'[u] = task[u]
        /\ task'[Handler] = work
    BY <2>2 DEF PacketInv, Greenlets
  <2>4. Handler \notin TakesOut /\ Handler \notin TakesOut'
    BY <2>1, <2>2, <2>3 DEF TakesOut, Idle
  <2>5. \A u \in Greenlets : u \in TakesOut' <=> u \in TakesOut
    BY <2>3, <2>4 DEF TakesOut
  <2>6. \A u \in TakesOut' : u \in TakesOut /\ task'[u] = task[u] /\ Taken(u)' = Taken(u)
    BY <2>3, <2>4, <2>5 DEF TakesOut, Taken
  <2>7. p \notin ToSet(buffer) /\ p \in Packets
    BY <2>1 DEF PacketInv, AnsweredOnce
  <2>8. buffer' \in Seq(Packets) /\ Distinct(buffer')
        /\ ToSet(buffer') \in {ToSet(buffer), ToSet(buffer) \cup {p}}
    <3>1. CASE buffer' = buffer
      BY <3>1 DEF PacketInv
    <3>2. CASE buffer' = Append(buffer, p)
      <4>1. /\ buffer' \in Seq(Packets) /\ Len(buffer') = Len(buffer) + 1
            /\ \A i \in 1 .. Len(buffer) : buffer'[i] = buffer[i]
            /\ buffer'[Len(buffer) + 1] = p
        BY <2>7, <3>2, AppendProperties DEF PacketInv
      <4>2. DOMAIN buffer = 1 .. Len(buffer) /\ Len(buffer) \in Nat
            /\ DOMAIN buffer' = 1 .. Len(buffer) + 1
        BY <4>1 DEF PacketInv
      <4>3. \A i \in 1 .. Len(buffer) : buffer[i] # p
        BY <2>7, <4>2 DEF ToSet
      <4>4. Distinct(buffer')
        BY <4>1, <4>2, <4>3 DEF PacketInv, Distinct
      <4>5. ToSet(buffer') = ToSet(buffer) \cup {p}
        <5>1. 1 .. Len(buffer) + 1 = (1 .. Len(buffer)) \cup {Len(buffer) + 1}
          BY <4>2
        <5>2. QED
          BY <4>1, <4>2, <5>1 DEF ToSet
      <4>6. QED
        BY <4>1, <4>4, <4>5
    <3>3. QED
      BY <2>2, <3>1, <3>2
  <2>9. AnsweredOnce'
    BY <2>1, <2>6, <2>8 DEF PacketInv, AnsweredOnce
  <2>10. QED
    BY <2>1, <2>3, <2>6, <2>8, <2>9 DEF PacketInv, Working
<1>9. ASSUME NEW p \in Packets, Timeout(p) PROVE PacketInv'
  <2>1. p \in ToSet(buffer) /\ buffer' = RemoveFirst(buffer, p)
        /\ unreachable' = unreachable \cup {p}
        /\ UNCHANGED <<known, task, fresh, forwarded>>
    BY <1>9 DEF Timeout, routeVars
  <2>2. /\ buffer' \in Seq(Packets) /\ Distinct(buffer')
        /\ ToSet(buffer') = ToSet(buffer) \ {p}
    BY <2>1, Removal DEF PacketInv
  <2>3. TakesOut' = TakesOut /\ \A u \in Greenlets : Taken(u)' = Taken(u)
    BY <2>1 DEF TakesOut, Taken
  <2>4. TakesOut \subseteq Greenlets
    BY DEF TakesOut
  <2>5. AnsweredOnce'
    BY <2>1, <2>2, <2>3, <2>4 DEF PacketInv, AnsweredOnce
  <2>6. QED
    BY <2>1, <2>2, <2>3, <2>5 DEF PacketInv, Working
<1>10. CASE Answered
  <2>1. task' = [task EXCEPT ![Handler] = Idle] /\ UNCHANGED Others
        /\ task[Handler].kind = "query" /\ Handler \in Greenlets
    BY <1>10 DEF Answered, routeVars, Greenlets
  <2>2. Idle.kind \notin {"release", "discard"} /\ Handler \notin TakesOut
    BY <2>1 DEF Idle, TakesOut
  <2>3. QED
    BY <1>1, <2>1, <2>2
<1>11. ASSUME NEW g \in Gateways, NEW mac \in Macs, ArpRequest(g, mac) PROVE PacketInv'
  BY <1>2, <1>11 DEF ArpRequest, PacketInv
<1>12. ASSUME NEW g \in Gateways, NEW mac \in Macs, ArpReply(g, mac) PROVE PacketInv'
  <2> DEFINE packets == Waiting(known, g)
             work == Releasing(packets, 1)
  <2>1. Begin(Handler, packets, work) /\ UNCHANGED <<packetVars, known>>
        /\ task[Handler] = Idle /\ Handler \in Greenlets
    BY <1>12 DEF ArpReply, Greenlets
  <2>2. packets \in Seq(ToSet(buffer))
    BY WaitingIsBuffered DEF PacketInv
  <2> HIDE DEF packets
  <2>3. work.kind \in {"release", "discard"} /\ work.list = packets /\ work.at = 1
        /\ "at" \in DOMAIN work
    BY DEF Releasing
  <2> HIDE DEF work
  <2>4. QED
    BY <2>1, <2>2, <2>3, Beginning DEF PacketInv
<1>13. ASSUME NEW t \in Greenlets, TakeNext(t) PROVE PacketInv'
  BY <1>13, NextTaken
<1>14. ASSUME NEW t \in Greenlets, Finish(t) PROVE PacketInv'
  <2>1. t \in TakesOut /\ task[t].at = Len(task[t].list) /\ task' = [task EXCEPT ![t] = Idle]
        /\ UNCHANGED <<buffer, fresh, unreachable, known>>
    BY <1>14 DEF Finish, routeVars
  <2>2. Taken(t) = ToSet(task[t].list)
    BY <2>1 DEF Taken, ToSet, PacketInv, Working
  <2>3. forwarded' = forwarded \/ forwarded' = forwarded \cup Taken(t)
    BY <1>14, <2>2 DEF Finish
  <2>4. Idle.kind \notin {"release", "discard"}
    BY DEF Idle
  <2>5. QED
    BY <2>1, <2>3, <2>4, GoingOn DEF PacketInv
<1>15. CASE UNCHANGED vars
  BY <1>2, <1>15 DEF vars, packetVars, PacketInv
<1>16. QED
  BY <1>3, <1>4, <1>5, <1>6, <1>7, <1>8, <1>9, <1>10, <1>11, <1>12, <1>13, <1>14, <1>15
  DEF Next

\* A packet is in one place, the buffer, the hands of one greenlet, forwarded or
\* given up, for any packets, routes and requests: it is never answered twice.
THEOREM OneAnswer == Spec => []AnsweredOnce
<1>1. Init => PacketInv
  <2> SUFFICES ASSUME Init PROVE PacketInv
    OBVIOUS
  <2>1. buffer = << >> /\ ToSet(buffer) = {} /\ Distinct(buffer) /\ buffer \in Seq(Packets)
    BY DEF Init, ToSet, Distinct
  <2>2. IsFiniteSet(known)
    BY FS_EmptySet DEF Init
  <2>3. TakesOut = {}
    BY DEF Init, TakesOut, Idle
  <2>4. QED
    BY <2>1, <2>2, <2>3 DEF Init, PacketInv, AnsweredOnce
<1>2. PacketInv /\ [Next]_vars => PacketInv'
  BY PacketStep
<1>3. PacketInv => AnsweredOnce
  BY DEF PacketInv
<1>4. QED
  BY <1>1, <1>2, <1>3, PTL DEF Spec
==============================================================================
