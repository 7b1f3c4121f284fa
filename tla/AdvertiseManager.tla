--------------------------- MODULE AdvertiseManager --------------------------
(***************************************************************************)
(* One AdvertiseManager and an environment that hands it route and policy  *)
(* advertisements, any number of times and in any order.  Its two entry    *)
(* points run one at a time: the SDX manager's handlers that call them are *)
(* synchronized.                                                           *)
(***************************************************************************)
EXTENDS AdvertiseEngine, FiniteSets

CONSTANTS
  Routes,     \* the route advertisements the environment may hand over
  Policies    \* the policy advertisements the environment may hand over

ASSUME OfferedAssumption ==
  /\ Routes \subseteq RouteAdvertises
  /\ Policies \subseteq PolicyAdvertises

\* Prefixes have hosts in them: for the others the indexes do not keep their
\* contract (run quadtree_hosts).
ASSUME PrefixesAssumption ==
  /\ \A r \in Routes : r.dest \in HostPrefixes /\ r.src \in HostPrefixes \cup {NoPrefix}
  /\ \A p \in Policies : p.dest \in HostPrefixes /\ p.src \in HostPrefixes

VARIABLE engine

vars == <<engine>>

Init == engine = InitEngine

Verdicts(pairs) == [pairs \ DOMAIN engine.checked -> BOOLEAN]

Advertise(r) ==
  \E verdict \in Verdicts(AdvertiseAsks(engine, r)) :
    engine' = ReceiveAdvertise(engine, r, verdict)

Policy(p) ==
  \E verdict \in Verdicts({p} \X PolicyRoutes(engine, p)) :
    \E scan \in PolicyScans(engine, p, verdict) :
      engine' = ReceiveOutboundPolicy(engine, p, verdict, scan)

Next ==
  \/ \E r \in Routes : Advertise(r)
  \/ \E p \in Policies : Policy(p)

Spec == Init /\ [][Next]_vars

------------------------------------------------------------------------------
\* The engine's fields hold values of their kinds: the tables are keyed by
\* prefix pairs, and what they hold has been handed over by someone.
TypeOK ==
  /\ engine.routes \subseteq Routes
  /\ engine.advertised \subseteq Routes
  /\ DOMAIN engine.policies \subseteq Rectangles
  /\ \A k \in DOMAIN engine.policies :
       engine.policies[k] \in Policies \cup {DefaultPolicy}
  /\ DOMAIN engine.matches \subseteq Rectangles
  /\ \A n \in DOMAIN engine.matches : engine.matches[n] \in Rectangles \X Rectangles
  /\ DOMAIN engine.chosen \subseteq Rectangles
  /\ \A n \in DOMAIN engine.chosen : engine.chosen[n] \in Routes
  /\ \A n \in DOMAIN engine.fib : engine.fib[n] \in Pids
  /\ DOMAIN engine.checked \subseteq (Policies \cup {DefaultPolicy}) \X Routes
  /\ \A pair \in DOMAIN engine.checked : engine.checked[pair] \in BOOLEAN

(***************************************************************************)
(* What is forwarded was authorised.  For every prefix pair with a chosen  *)
(* route there is a policy that meets the route in exactly that pair, and  *)
(* with which SAFE found that very route compliant; the route leads to all *)
(* of the pair's destinations, for all of its sources.                     *)
(***************************************************************************)
ChosenAuthorised ==
  \A n \in DOMAIN engine.chosen :
    LET r == engine.chosen[n]
    IN  /\ r \in engine.routes
        /\ Contains(RouteKey(r), n)
        /\ \E pair \in DOMAIN engine.checked :
             /\ engine.checked[pair]
             /\ pair[2] = r
             /\ Intersect(PolicyKey(pair[1]), RouteKey(r)) = n

(***************************************************************************)
(* The forwarding table serves the choices although the two are keyed      *)
(* differently: chosenRoutes by the intersection of two rectangles, fib by *)
(* the longer of two prefixes, as it happens to be written.  For every     *)
(* prefix pair with a choice there is an entry for exactly this pair that  *)
(* leads to the neighbour who advertised the choice, and no entry is for a *)
(* pair without a choice.  There may be more entries for the pair, if its  *)
(* prefixes are written in several ways, and those are left behind.        *)
(***************************************************************************)
FibFollowsChoice ==
  /\ \A n \in DOMAIN engine.chosen :
       \E key \in DOMAIN engine.fib :
         PairOf(key) = n /\ engine.fib[key] = engine.chosen[n].advertiser
  /\ \A key \in DOMAIN engine.fib : PairOf(key) \in DOMAIN engine.chosen

(***************************************************************************)
(* No meeting is missed.  Whichever of the two arrives first, a policy and *)
(* a route whose prefix pairs meet have their intersection on record.      *)
(***************************************************************************)
MeetingsMatched ==
  \A pk \in DOMAIN engine.policies, rk \in RouteKeys(engine) :
    Meets(pk, rk) => Intersect(pk, rk) \in DOMAIN engine.matches

(***************************************************************************)
(* The match on record is the best there is: its two keys are known, they  *)
(* meet in that prefix pair, and no other known policy and route that meet *)
(* in it have keys of at least its priorities, one of them higher.  This   *)
(* must not depend on the order of arrival.                                *)
(***************************************************************************)
MatchesUndominated ==
  \A n \in DOMAIN engine.matches :
    LET pk == engine.matches[n][1]
        rk == engine.matches[n][2]
    IN  /\ pk \in DOMAIN engine.policies
        /\ rk \in RouteKeys(engine)
        /\ Meets(pk, rk) /\ Intersect(pk, rk) = n
        /\ \A pk2 \in DOMAIN engine.policies, rk2 \in RouteKeys(engine) :
             (/\ Meets(pk2, rk2)
              /\ Intersect(pk2, rk2) = n
              /\ OutboundAtLeast(pk2, pk)
              /\ InboundAtLeast(rk2, rk))
             => ~ OutboundAbove(pk2, pk) /\ ~ InboundAbove(rk2, rk)

(***************************************************************************)
(* An SDX propagates what it forwards to: every route ever passed on was   *)
(* found compliant with a policy whose traffic it carries, and every       *)
(* chosen route has been passed on.                                        *)
(***************************************************************************)
AdvertisedAuthorised ==
  /\ \A r \in engine.advertised :
       \E pair \in DOMAIN engine.checked :
         /\ engine.checked[pair]
         /\ pair[2] = r
         /\ Meets(PolicyKey(pair[1]), RouteKey(r))
  /\ \A n \in DOMAIN engine.chosen : engine.chosen[n] \in engine.advertised

(***************************************************************************)
(* As long as SAFE has refused nothing, the chosen route is a shortest one *)
(* among the routes of the matched route key, whatever the order in which  *)
(* routes and policies arrived.                                            *)
(***************************************************************************)
ShortestChosen ==
  (\A pair \in DOMAIN engine.checked : engine.checked[pair]) =>
    \A n \in DOMAIN engine.matches :
      /\ n \in DOMAIN engine.chosen
      /\ RouteKey(engine.chosen[n]) = engine.matches[n][2]
      /\ \A r \in RoutesAt(engine, engine.matches[n][2]) :
           Len(engine.chosen[n].route) <= Len(r.route)

(***************************************************************************)
(* The route chosen for a prefix pair is compliant with the policy that    *)
(* governs it, the one of the matched policy key (dev-notes.txt, point 3). *)
(***************************************************************************)
ChosenObeysPolicy ==
  \A n \in DOMAIN engine.chosen :
    LET p == engine.policies[engine.matches[n][1]]
    IN  /\ <<p, engine.chosen[n]>> \in DOMAIN engine.checked
        /\ engine.checked[<<p, engine.chosen[n]>>]
==============================================================================
