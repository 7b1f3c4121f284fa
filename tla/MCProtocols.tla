----------------------------- MODULE MCProtocols ------------------------------
(***************************************************************************)
(* Four protocols whose messages must get through, one per behaviour: the  *)
(* tokens of a route among four peers, one of them not trusted, and three  *)
(* protocols of switches.  Behaviours of a fifth kind use the spatial      *)
(* index.  The variables of RoutePropagation are its own, the others share *)
(* x1 to x9, which keep their value 0 where not used.                      *)
(***************************************************************************)
EXTENDS RoutePropagation, Naturals

CONSTANTS p1, p2, p3, p4, g, e1, e2, n1, n2, n3, none

VARIABLES part, x1, x2, x3, x4, x5, x6, x7, x8, x9

own == <<x1, x2, x3, x4, x5, x6, x7, x8, x9>>
mcvars == <<vars, part, own>>

MCPeers == {p1, p2, p3, p4}
MCTrusted == {p1, p2, p3}

-----------------------------------------------------------------------------
(* A triangle of bridges.                                                    *)
Triangle == {{<<1, 1>>, <<2, 1>>}, {<<1, 2>>, <<3, 1>>}, {<<2, 2>>, <<3, 2>>}}

Tree == INSTANCE SpanningTree WITH
    Bridge <- 1..3, Links <- Triangle, PathCost <- [p \in UNION Triangle |-> 1], MaxAge <- 4,
    MaxFaults <- 2, InTurn <- TRUE, None <- none,
    root <- x1, port <- x2, wire <- x3, jobs <- x4, cable <- x5, member <- x6, faults <- x7

(* A line of three bridges, the first of them the root.                      *)
Change == INSTANCE TopologyChange WITH
    Bridge <- 1..3, Parent <- [b \in 2..3 |-> b - 1], Apart <- TRUE, MaxChanges <- 2,
    state <- x1, tc <- x2, tcTimer <- x3, heard <- x4, tcn <- x5, down <- x6, up <- x7,
    stale <- x8, changes <- x9

(* A gateway that has three NICs in turn, and a switch with two ports.       *)
Watch == INSTANCE GatewayWatch WITH
    Gateway <- {g}, Port <- {e1, e2}, Nic <- {n1, n2, n3}, Absent <- none,
    Socket <- [n \in {n1, n2, n3} |-> IF n = n3 THEN {e2} ELSE {e1}],
    MaxChanges <- 4,
    nic <- x1, plug <- x2, up <- x3, portData <- x4, mac <- x5, flow <- x6, asked <- x7,
    said <- x8, changes <- x9

-----------------------------------------------------------------------------
\* Rectangles over an 8 by 8 space that cross the root, a quarter or a sixteenth,
\* in x and in y, enough others in one quarter to split it, and one in another
\* quarter.
PairOf(dest, destLen, src, srcLen) ==
  [x |-> [start |-> dest, length |-> 2 ^ (3 - destLen)],
   y |-> [start |-> src, length |-> 2 ^ (3 - srcLen)]]

IndexKeys ==
  {PairOf(0, 0, 4, 1), PairOf(4, 2, 0, 0),
   PairOf(0, 1, 2, 2), PairOf(0, 1, 0, 3), PairOf(2, 2, 0, 1),
   PairOf(0, 2, 0, 2), PairOf(0, 2, 0, 3), PairOf(1, 3, 1, 3),
   PairOf(4, 2, 6, 2)}

Index == INSTANCE AreaBasedQuadTree WITH
    AddressBits <- 3, MaxCached <- 1, Keys <- IndexKeys, tree <- x1, stored <- x2

-----------------------------------------------------------------------------
MCInit ==
    /\ Init
    /\ \/ /\ part = "tokens"
          /\ x1 = 0 /\ x2 = 0 /\ x3 = 0 /\ x4 = 0 /\ x5 = 0
          /\ x6 = 0 /\ x7 = 0 /\ x8 = 0 /\ x9 = 0
       \/ part = "tree" /\ Tree!Init /\ x8 = 0 /\ x9 = 0
       \/ part = "change" /\ Change!Init
       \/ part = "watch" /\ Watch!Init
       \/ /\ part = "index" /\ Index!Init
          /\ x3 = 0 /\ x4 = 0 /\ x5 = 0 /\ x6 = 0 /\ x7 = 0 /\ x8 = 0 /\ x9 = 0

MCNext ==
    \/ part = "tokens" /\ Next /\ UNCHANGED <<part, own>>
    \/ part = "tree" /\ Tree!Next /\ UNCHANGED <<vars, part, x8, x9>>
    \/ part = "change" /\ Change!Next /\ UNCHANGED <<vars, part>>
    \/ part = "watch" /\ Watch!Next /\ UNCHANGED <<vars, part>>
    \/ part = "index" /\ Index!Next /\ UNCHANGED <<vars, part, x3, x4, x5, x6, x7, x8, x9>>

(* The fairness of each part, as its module has it.                          *)
TokensFair ==
    /\ WF_vars(part = "tokens" /\ (\E p \in Peers : Refuse(p) \/ Advertise(p)))
    /\ \A p \in Peers : WF_vars(part = "tokens" /\ Deliver(p))

treeVars == <<x1, x2, x3, x4, x5, x6, x7>>

TreeFair == WF_treeVars(part = "tree" /\ Tree!Protocol)

ChangeFair ==
    /\ \A p \in Change!Port : WF_own(part = "change" /\ Change!TransmitConfig(p))
    /\ \A b \in 2..3 : /\ WF_own(part = "change" /\ Change!TransmitTcn(b))
                       /\ WF_own(part = "change" /\ Change!RcvConfigBpdu(b))
                       /\ WF_own(part = "change" /\ Change!RcvTcnBpdu(b))

WatchFair ==
    /\ WF_own(part = "watch" /\ Watch!CyclicUpdate)
    /\ WF_own(part = "watch" /\ Watch!UpdateRouter)
    /\ SF_own(part = "watch" /\ Watch!Answer(g))
    /\ SF_own(part = "watch" /\ \E n \in {n1, n2, n3}, e \in {e1, e2} : Watch!ArpIn(g, n, e))

MCSpec == MCInit /\ [][MCNext]_mcvars /\ TokensFair /\ TreeFair /\ ChangeFair /\ WatchFair

-----------------------------------------------------------------------------
(* The properties of the modules, each in the behaviours of its part.        *)
QuietTree == part = "tree" => Tree!QuietTree

QueryExact == part = "index" => Index!QueryExact

TokensTold == <>[](part = "tokens" => \A p \in Trusted : Told(p))

EventuallyTree == <>[](part = "tree" => Tree!Tree)

AllFlush == []<>(part = "change" => x8 = {})

EventuallyReached == <>[](part = "watch" => Watch!Reached)
=============================================================================
