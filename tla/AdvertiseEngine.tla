--------------------------- MODULE AdvertiseEngine ---------------------------
(***************************************************************************)
(* What one AdvertiseManager does: the route and policy engine of an SDX.  *)
(*                                                                         *)
(* The module is a set of operators over one engine's state, a record:     *)
(*   routes      routeTable and routeIndex: the route advertisements kept  *)
(*   policies    outboundPolicyTable and outboundPolicyIndex: a policy per *)
(*               prefix pair, the latest one received for that pair        *)
(*   matches     matchesMap: for a prefix pair, the pair of keys (policy's *)
(*               and route's) whose intersection it is                     *)
(*   chosen      chosenRoutes: the route forwarded to, per prefix pair     *)
(*   fib         the neighbour traffic is handed to, by source and         *)
(*               destination prefix as they are written, not by prefix pair *)
(*   advertised  advertisedRoutes: the routes already propagated           *)
(*   checked     checkedPairs: the verdicts of the SAFE server, cached     *)
(*                                                                         *)
(* The two indexes are taken by their contract: query(key) returns the     *)
(* stored keys that meet key.  AreaBasedQuadTree is a module of its own;   *)
(* run quadtree shows the contract for prefixes with hosts in them (up to  *)
(* /30), run quadtree_hosts that it fails for longer ones.                 *)
(***************************************************************************)
EXTENDS PrefixPairs, Sequences

CONSTANTS
  Pids,        \* principals: SDXes and customers, the ASes of a path
  NoPrefix,    \* a null srcPrefix
  NoPid,       \* a null ownerPID or advertiserPID
  Tokens,      \* the tokens of SAFE certificate sets
  NoToken,     \* a null safeToken
  SafeEnabled  \* whether the SAFE server is consulted at all

ASSUME NullAssumption ==
  NoPrefix \notin Prefixes /\ NoPid \notin Pids /\ NoToken \notin Tokens

ASSUME SafeEnabledAssumption == SafeEnabled \in BOOLEAN

(***************************************************************************)
(* Advertisements.  A route advertisement names the principal that handed  *)
(* it on (advertiser) and the path of principals its traffic will cross.   *)
(* A policy advertisement's path is the one it has come along itself.      *)
(***************************************************************************)
RouteAdvertises ==
  [dest : Prefixes, src : Prefixes \cup {NoPrefix}, owner : Pids,
   advertiser : Pids, route : Seq(Pids)]

PolicyAdvertises ==
  [dest : Prefixes, src : Prefixes, owner : Pids \cup {NoPid},
   advertiser : Pids \cup {NoPid}, route : Seq(Pids), token : Tokens \cup {NoToken}]

DefaultPolicy ==
  [dest |-> DefaultPrefix, src |-> DefaultPrefix,
   owner |-> NoPid, advertiser |-> NoPid, route |-> <<>>, token |-> NoToken]

RouteKey(r) ==
  PrefixPairToRectangle(r.dest, IF r.src = NoPrefix THEN DefaultPrefix ELSE r.src)

PolicyKey(p) == PrefixPairToRectangle(p.dest, p.src)

EmptyMap == [k \in {} |-> k]

InitEngine ==
  [routes     |-> {},
   policies   |-> [k \in {PolicyKey(DefaultPolicy)} |-> DefaultPolicy],
   matches    |-> EmptyMap,
   chosen     |-> EmptyMap,
   fib        |-> EmptyMap,
   advertised |-> {},
   checked    |-> EmptyMap]

\* The map f after every entry of g has been put into it.
PutAll(f, g) ==
  [k \in DOMAIN f \cup DOMAIN g |-> IF k \in DOMAIN g THEN g[k] ELSE f[k]]

RouteKeys(s) == {RouteKey(r) : r \in s.routes}

RoutesAt(s, k) == {r \in s.routes : RouteKey(r) = k}

(***************************************************************************)
(* isCompliant.  SAFE answers TRUE at once for a policy without a token,   *)
(* and for every policy when SafeEnabled is off; it is asked once about    *)
(* any other pair and the answer is kept for good.  verdict gives what the *)
(* server answers during this call, for the pairs that are not cached.     *)
(***************************************************************************)
IsCompliant(s, verdict, p, r) ==
  IF <<p, r>> \in DOMAIN s.checked
  THEN s.checked[<<p, r>>]
  ELSE \/ ~ SafeEnabled
       \/ p.token = NoToken
       \/ verdict[<<p, r>>]

\* A mutation of Accepts: one of the two comparisons left out.
AcceptsByPolicy(s, n, pk, rk) ==
  n \in DOMAIN s.matches => OutboundAtLeast(pk, s.matches[n][1])

\* A match replaces the one on record for the prefix pair n when neither its
\* policy key pk nor its route key rk has a lower priority.
Accepts(s, n, pk, rk) ==
  n \in DOMAIN s.matches =>
    /\ OutboundAtLeast(pk, s.matches[n][1])
    /\ InboundAtLeast(rk, s.matches[n][2])

\* A mutation: the shorter of the two.
OverlapPrefixShorter(a, b) ==
  CASE a = NoPrefix -> b
    [] b = NoPrefix -> a
    [] OTHER        -> IF a.len > b.len THEN b ELSE a

\* getOverlapPrefix: the longer of two prefixes that meet, as it is written; of
\* two of one length the first.
OverlapPrefix(a, b) ==
  CASE a = NoPrefix -> b
    [] b = NoPrefix -> a
    [] OTHER        -> IF a.len < b.len THEN b ELSE a

\* The key of the forwarding entry for the meeting of two advertisements: the
\* source and the destination prefix of a ForwardInfo.
FibKey(first, second) ==
  <<OverlapPrefix(first.src, second.src), OverlapPrefix(first.dest, second.dest)>>

\* The prefix pair that a key of the forwarding table stands for.
PairOf(key) == PrefixPairToRectangle(key[2], key[1])

\* A mutation: a choice is not marked advertised.
UpdatedUnmarked(s, routes, policies, matchedNow, chosenNow, fibNow, checkedNow) ==
  [routes     |-> routes,
   policies   |-> policies,
   matches    |-> PutAll(s.matches, matchedNow),
   chosen     |-> PutAll(s.chosen, chosenNow),
   fib        |-> PutAll(s.fib, fibNow),
   advertised |-> s.advertised,
   checked    |-> PutAll(s.checked, checkedNow)]

\* The engine after a call: its tables with what the call has put into them.
\* Every choice is marked advertised; the entries for the choices go into the
\* forwarding table (addFib) under keys of their own.
Updated(s, routes, policies, matchedNow, chosenNow, fibNow, checkedNow) ==
  [routes     |-> routes,
   policies   |-> policies,
   matches    |-> PutAll(s.matches, matchedNow),
   chosen     |-> PutAll(s.chosen, chosenNow),
   fib        |-> PutAll(s.fib, fibNow),
   advertised |-> s.advertised \cup {chosenNow[n] : n \in DOMAIN chosenNow},
   checked    |-> PutAll(s.checked, checkedNow)]

(***************************************************************************)
(* receiveAdvertise(r).  The policy keys that meet the route's key are     *)
(* visited from the highest outbound priority down, so that of those with  *)
(* the same intersection only the first can be accepted.  The route is     *)
(* taken for an intersection if it is compliant with the policy there and  *)
(* either nothing was matched, its key is narrower than the matched one,   *)
(* nothing was chosen, or it is shorter than the chosen route.             *)
(***************************************************************************)
\* A mutation: only the policies that cover the route's whole prefix pair.
PoliciesCovering(s, r) == {pk \in DOMAIN s.policies : Contains(pk, RouteKey(r))}

PoliciesMeeting(s, r) == {pk \in DOMAIN s.policies : Meets(RouteKey(r), pk)}

AdvertiseMeetings(s, r) == {Intersect(RouteKey(r), pk) : pk \in PoliciesMeeting(s, r)}

PolicyFor(s, r, n) ==
  CHOOSE pk \in PoliciesMeeting(s, r) :
    /\ Intersect(RouteKey(r), pk) = n
    /\ \A other \in PoliciesMeeting(s, r) :
         Intersect(RouteKey(r), other) = n => OutboundAtLeast(pk, other)

AdvertiseAccepted(s, r) ==
  {n \in AdvertiseMeetings(s, r) : Accepts(s, n, PolicyFor(s, r, n), RouteKey(r))}

\* Mutations: compliance is not looked at; the first route, or the last, wins.
AdvertiseTakenUnchecked(s, r, verdict) ==
  {n \in AdvertiseAccepted(s, r) :
     \/ n \notin DOMAIN s.matches
     \/ InboundAbove(RouteKey(r), s.matches[n][2])
     \/ n \notin DOMAIN s.chosen
     \/ Len(r.route) < Len(s.chosen[n].route)}

AdvertiseTakenFirst(s, r, verdict) ==
  {n \in AdvertiseAccepted(s, r) :
     /\ IsCompliant(s, verdict, s.policies[PolicyFor(s, r, n)], r)
     /\ \/ n \notin DOMAIN s.matches
        \/ InboundAbove(RouteKey(r), s.matches[n][2])
        \/ n \notin DOMAIN s.chosen}

AdvertiseTakenLast(s, r, verdict) ==
  {n \in AdvertiseAccepted(s, r) :
     IsCompliant(s, verdict, s.policies[PolicyFor(s, r, n)], r)}

AdvertiseTaken(s, r, verdict) ==
  {n \in AdvertiseAccepted(s, r) :
     /\ IsCompliant(s, verdict, s.policies[PolicyFor(s, r, n)], r)
     /\ \/ n \notin DOMAIN s.matches
        \/ InboundAbove(RouteKey(r), s.matches[n][2])
        \/ n \notin DOMAIN s.chosen
        \/ Len(r.route) < Len(s.chosen[n].route)}

\* The pairs receiveAdvertise asks SAFE about.
AdvertiseAsks(s, r) ==
  {<<s.policies[PolicyFor(s, r, n)], r>> : n \in AdvertiseAccepted(s, r)}

\* The key of the entry for r and the policy it is taken with.
AdvertiseFibKey(s, r, n) == FibKey(r, s.policies[PolicyFor(s, r, n)])

ReceiveAdvertise(s, r, verdict) ==
  Updated(s, s.routes \cup {r}, s.policies,
          [n \in AdvertiseAccepted(s, r) |-> <<PolicyFor(s, r, n), RouteKey(r)>>],
          [n \in AdvertiseTaken(s, r, verdict) |-> r],
          [key \in {AdvertiseFibKey(s, r, n) : n \in AdvertiseTaken(s, r, verdict)} |->
             r.advertiser],
          [pair \in AdvertiseAsks(s, r) |-> IsCompliant(s, verdict, pair[1], pair[2])])

\* The route it returns for propagation: r, the first time r is chosen.
AdvertisePropagates(s, r, verdict) ==
  IF AdvertiseTaken(s, r, verdict) # {} THEN {r} \ s.advertised ELSE {}

(***************************************************************************)
(* receiveOutboundPolicy(p).  The policy replaces the one on record for    *)
(* its prefix pair.  The route keys that meet the policy's key are visited *)
(* from the highest inbound priority down; for every accepted intersection *)
(* the routes of the key are tried by increasing length until one is       *)
(* compliant.  Routes of one length come in the order of a hash set, so    *)
(* which of them have been tried is a choice: a scan is such a set.        *)
(***************************************************************************)
RouteKeysMeeting(s, p) == {rk \in RouteKeys(s) : Meets(PolicyKey(p), rk)}

PolicyMeetings(s, p) == {Intersect(PolicyKey(p), rk) : rk \in RouteKeysMeeting(s, p)}

RouteKeyFor(s, p, n) ==
  CHOOSE rk \in RouteKeysMeeting(s, p) :
    /\ Intersect(PolicyKey(p), rk) = n
    /\ \A other \in RouteKeysMeeting(s, p) :
         Intersect(PolicyKey(p), other) = n => InboundAtLeast(rk, other)

PolicyAccepted(s, p) ==
  {n \in PolicyMeetings(s, p) : Accepts(s, n, PolicyKey(p), RouteKeyFor(s, p, n))}

\* The routes of the accepted route keys, those the loop may try.
PolicyRoutes(s, p) ==
  {r \in s.routes : \E n \in PolicyAccepted(s, p) : RouteKey(r) = RouteKeyFor(s, p, n)}

\* The sets of routes that may have been tried when the loop over the accepted
\* intersections ends: for every route key, routes by increasing length up to
\* the first compliant one, or all of them.
PolicyScans(s, p, verdict) ==
  LET ok(r) == IsCompliant(s, verdict, p, r)
  IN  {scan \in SUBSET PolicyRoutes(s, p) :
         /\ \A q \in PolicyRoutes(s, p) \ scan :
              \E r \in scan :
                RouteKey(r) = RouteKey(q) /\ ok(r) /\ Len(r.route) <= Len(q.route)
         /\ \A q, r \in scan :
              RouteKey(r) = RouteKey(q) /\ ok(r) =>
                Len(q.route) <= Len(r.route) /\ (ok(q) => q = r)}

\* The route found compliant for the accepted intersection n, if any.
Passed(s, p, verdict, scan, n) ==
  {r \in scan : RouteKey(r) = RouteKeyFor(s, p, n) /\ IsCompliant(s, verdict, p, r)}

PolicyChosen(s, p, verdict, scan) ==
  [n \in {m \in PolicyAccepted(s, p) : Passed(s, p, verdict, scan, m) # {}} |->
     CHOOSE r \in Passed(s, p, verdict, scan, n) : TRUE]

\* The entries for what a policy's call chooses.  Different choices have
\* different keys, for prefixes with hosts.
PolicyEntries(p, now) ==
  [key \in {FibKey(p, now[n]) : n \in DOMAIN now} |->
     now[CHOOSE n \in DOMAIN now : FibKey(p, now[n]) = key].advertiser]

ReceiveOutboundPolicy(s, p, verdict, scan) ==
  Updated(s, s.routes, PutAll(s.policies, [k \in {PolicyKey(p)} |-> p]),
          [n \in PolicyAccepted(s, p) |-> <<PolicyKey(p), RouteKeyFor(s, p, n)>>],
          PolicyChosen(s, p, verdict, scan),
          PolicyEntries(p, PolicyChosen(s, p, verdict, scan)),
          [pair \in {p} \X scan |-> IsCompliant(s, verdict, pair[1], pair[2])])

\* The routes it returns for propagation, besides the policy itself.
PolicyPropagates(s, p, verdict, scan) ==
  LET now == PolicyChosen(s, p, verdict, scan)
  IN  {now[n] : n \in DOMAIN now} \ s.advertised
==============================================================================
