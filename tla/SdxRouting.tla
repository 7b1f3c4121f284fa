----------------------------- MODULE SdxRouting ------------------------------
(***************************************************************************)
(* SdxNetwork for one prefix pair and a SAFE server that grants everything *)
(* implements PathVector: what an SDX has in its route table are the paths *)
(* it knows, and the route chosen for the prefix pair is the one it uses.  *)
(***************************************************************************)
EXTENDS SdxNetwork

CONSTANTS
  Dest,     \* the prefix that is advertised
  Origin    \* the customer that owns it

\* The prefix has hosts, as those whose rectangles the indexes keep.
ASSUME DestAssumption == Dest \in HostPrefixes

\* Prefixes are written with their network address, and so each in one way:
\* the forwarding tables are keyed by how a prefix is written.
ASSUME NormalAssumption ==
  /\ Normal(Dest)
  /\ \A m \in Offered : m.kind = "policy" =>
       /\ m.adv.dest \in HostPrefixes /\ Normal(m.adv.dest)
       /\ m.adv.src \in HostPrefixes /\ Normal(m.adv.src)

ASSUME OriginAssumption ==
  /\ \A m \in Offered : m.kind = "bgp" =>
       m.adv = [dest |-> Dest, src |-> NoPrefix, owner |-> Origin,
                advertiser |-> Origin, route |-> <<Origin>>]
  /\ \/ Answers = {TRUE}
     \/ \A m \in Offered : m.kind = "policy" => m.adv.token = NoToken

Pair == PrefixPairToRectangle(Dest, DefaultPrefix)

Known == [a \in Sdxes |-> {r.route : r \in am[a].routes}]

Used == [a \in Sdxes |->
           IF Pair \in DOMAIN am[a].chosen THEN am[a].chosen[Pair].route ELSE <<>>]

PV == INSTANCE PathVector WITH
        Nodes <- Sdxes, Owner <- Origin, known <- Known, used <- Used

\* Whatever the order in which SDXes stitch and advertisements arrive, every
\* step of the network is a step of the path-vector protocol or none; so its
\* forwarding never goes round in circles.
ImplementsPathVector == PV!Spec
==============================================================================
