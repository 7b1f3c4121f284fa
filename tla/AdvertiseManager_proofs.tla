----------------------- MODULE AdvertiseManager_proofs -----------------------
(***************************************************************************)
(* Theorems about one route and policy engine, for every address width,    *)
(* every set of advertisements and every behaviour of the SAFE server.     *)
(***************************************************************************)
EXTENDS AdvertiseManager, AdvertiseEngine_proofs

(***************************************************************************)
(* What a call puts into the tables: fresh matches, choices and verdicts.  *)
(***************************************************************************)
MatchesPut(fresh) ==
  /\ DOMAIN engine'.matches = DOMAIN engine.matches \cup DOMAIN fresh
  /\ \A n \in DOMAIN fresh : engine'.matches[n] = fresh[n]
  /\ \A n \in DOMAIN engine.matches \ DOMAIN fresh : engine'.matches[n] = engine.matches[n]

ChoicesPut(fresh) ==
  /\ DOMAIN engine'.chosen = DOMAIN engine.chosen \cup DOMAIN fresh
  /\ \A n \in DOMAIN fresh : engine'.chosen[n] = fresh[n]
  /\ \A n \in DOMAIN engine.chosen \ DOMAIN fresh : engine'.chosen[n] = engine.chosen[n]
  /\ engine'.advertised = engine.advertised \cup {fresh[n] : n \in DOMAIN fresh}

FibPut(fresh) ==
  /\ DOMAIN engine'.fib = DOMAIN engine.fib \cup DOMAIN fresh
  /\ \A key \in DOMAIN fresh : engine'.fib[key] = fresh[key]
  /\ \A key \in DOMAIN engine.fib \ DOMAIN fresh : engine'.fib[key] = engine.fib[key]

VerdictsPut(fresh) ==
  /\ DOMAIN engine'.checked = DOMAIN engine.checked \cup DOMAIN fresh
  /\ \A pair \in DOMAIN fresh : engine'.checked[pair] = fresh[pair]
  /\ \A pair \in DOMAIN engine.checked \ DOMAIN fresh :
       engine'.checked[pair] = engine.checked[pair]

LEMMA UpdatedPuts ==
  ASSUME NEW routes, NEW policies, NEW matchedNow, NEW chosenNow, NEW fibNow,
         NEW checkedNow,
         engine' = Updated(engine, routes, policies, matchedNow, chosenNow, fibNow, checkedNow)
  PROVE  /\ engine'.routes = routes
         /\ engine'.policies = policies
         /\ MatchesPut(matchedNow)
         /\ ChoicesPut(chosenNow)
         /\ FibPut(fibNow)
         /\ VerdictsPut(checkedNow)
<1>1. /\ engine'.routes = routes
      /\ engine'.policies = policies
      /\ engine'.matches = PutAll(engine.matches, matchedNow)
      /\ engine'.chosen = PutAll(engine.chosen, chosenNow)
      /\ engine'.fib = PutAll(engine.fib, fibNow)
      /\ engine'.advertised = engine.advertised \cup {chosenNow[n] : n \in DOMAIN chosenNow}
      /\ engine'.checked = PutAll(engine.checked, checkedNow)
  BY UpdatedFields
<1>2. MatchesPut(matchedNow)
  BY <1>1 DEF PutAll, MatchesPut
<1>3. ChoicesPut(chosenNow)
  BY <1>1 DEF PutAll, ChoicesPut
<1>4. VerdictsPut(checkedNow)
  BY <1>1, Zenon DEF PutAll, VerdictsPut
<1>5. FibPut(fibNow)
  BY <1>1, Zenon DEF PutAll, FibPut
<1> QED BY <1>1, <1>2, <1>3, <1>4, <1>5

(***************************************************************************)
(* The entries that belong to fresh choices: each choice has one whose key *)
(* stands for its prefix pair, and there are no others.                    *)
(***************************************************************************)
EntriesFor(entries, fresh) ==
  /\ \A n \in DOMAIN fresh :
       \E key \in DOMAIN entries : PairOf(key) = n /\ entries[key] = fresh[n].advertiser
  /\ \A key \in DOMAIN entries :
       PairOf(key) \in DOMAIN fresh /\ entries[key] = fresh[PairOf(key)].advertiser

FibServes(fresh) == \E entries : FibPut(entries) /\ EntriesFor(entries, fresh)

LEMMA PolicyEntriesFor ==
  ASSUME NEW p, NEW now, \A n \in DOMAIN now : PairOf(FibKey(p, now[n])) = n
  PROVE  EntriesFor(PolicyEntries(p, now), now)
<1> DEFINE entries == PolicyEntries(p, now)
<1>1. \A key \in DOMAIN entries :
        \E n \in DOMAIN now : FibKey(p, now[n]) = key /\ entries[key] = now[n].advertiser
  BY PolicyEntriesAre
<1>2. \A n \in DOMAIN now : FibKey(p, now[n]) \in DOMAIN entries
  BY PolicyEntriesAre
<1> HIDE DEF entries
<1>3. \A key \in DOMAIN entries :
        PairOf(key) \in DOMAIN now /\ entries[key] = now[PairOf(key)].advertiser
  BY <1>1
<1> QED BY <1>2, <1>3 DEF EntriesFor, entries

LEMMA OfferedTypes ==
  /\ \A r \in Routes : r \in RouteAdvertises /\ RouteKey(r) \in Rectangles
  /\ \A p \in Policies : p \in PolicyAdvertises /\ PolicyKey(p) \in Rectangles
BY OfferedAssumption, KeyTypes

LEMMA OfferedHosts ==
  /\ \A r \in Routes : HostRoute(r)
  /\ \A p \in Policies \cup {DefaultPolicy} : HostPolicy(p)
BY PrefixesAssumption, DefaultIsHost DEF HostRoute, HostPolicy, DefaultPolicy

\* What SAFE is taken to say of a pair is a boolean, and what is on record if
\* the pair has been checked before.
LEMMA CompliantType ==
  ASSUME TypeOK, NEW p, NEW r,
         NEW pairs, NEW verdict \in Verdicts(pairs), <<p, r>> \in pairs
  PROVE  /\ IsCompliant(engine, verdict, p, r) \in BOOLEAN
         /\ <<p, r>> \in DOMAIN engine.checked =>
              IsCompliant(engine, verdict, p, r) = engine.checked[<<p, r>>]
<1>1. CASE <<p, r>> \in DOMAIN engine.checked
  <2>1. engine.checked[<<p, r>>] \in BOOLEAN
    BY <1>1 DEF TypeOK
  <2>2. IsCompliant(engine, verdict, p, r) = engine.checked[<<p, r>>]
    BY <1>1, Zenon DEF IsCompliant
  <2> QED BY <2>1, <2>2, Zenon
<1>2. CASE <<p, r>> \notin DOMAIN engine.checked
  <2>1. <<p, r>> \in pairs \ DOMAIN engine.checked
    BY <1>2
  <2>2. verdict[<<p, r>>] \in BOOLEAN
    BY <2>1, Zenon DEF Verdicts
  <2>3. IsCompliant(engine, verdict, p, r) =
          (~ SafeEnabled \/ p.token = NoToken \/ verdict[<<p, r>>])
    BY <1>2, Zenon DEF IsCompliant
  <2>4. (~ SafeEnabled \/ p.token = NoToken \/ verdict[<<p, r>>]) \in BOOLEAN
    OBVIOUS
  <2> QED BY <1>2, <2>3, <2>4, Zenon
<1> QED BY <1>1, <1>2

(***************************************************************************)
(* A call and what it relies on: each fresh match is for a policy key and  *)
(* a route key that are in the tables and meet there, and is not of lower  *)
(* priority than the one on record; each fresh choice is a received route  *)
(* of a fresh match's route key, compliant with a policy; no first meeting  *)
(* of two keys is missed or outranks the match on record; the verdicts on   *)
(* record are kept.  Both entry points of the engine make such a step.     *)
(***************************************************************************)
FreshMatch(n, match) ==
  /\ n \in Rectangles
  /\ match \in Rectangles \X Rectangles
  /\ match[1] \in DOMAIN engine'.policies
  /\ match[2] \in RouteKeys(engine)'
  /\ Meets(match[1], match[2])
  /\ Intersect(match[1], match[2]) = n
  /\ Accepts(engine, n, match[1], match[2])

FreshChoice(n, r) ==
  /\ n \in Rectangles
  /\ r \in engine'.routes
  /\ Contains(RouteKey(r), n)
  /\ \E pair \in DOMAIN engine'.checked :
       /\ engine'.checked[pair]
       /\ pair[2] = r
       /\ Intersect(PolicyKey(pair[1]), RouteKey(r)) = n
       /\ Meets(PolicyKey(pair[1]), RouteKey(r))

\* The pair pk, rk has priorities of at least those of match, one of them higher.
Dominates(pk, rk, match) ==
  /\ OutboundAtLeast(pk, match[1])
  /\ InboundAtLeast(rk, match[2])
  /\ OutboundAbove(pk, match[1]) \/ InboundAbove(rk, match[2])

\* A policy key and a route key that meet for the first time.
NewMeeting(pk, rk) ==
  /\ pk \in DOMAIN engine'.policies
  /\ rk \in RouteKeys(engine)'
  /\ pk \notin DOMAIN engine.policies \/ rk \notin RouteKeys(engine)
  /\ Meets(pk, rk)

Call(matchedNow, chosenNow) ==
  /\ MatchesPut(matchedNow)
  /\ ChoicesPut(chosenNow)
  /\ FibServes(chosenNow)
  /\ \A n \in DOMAIN matchedNow : FreshMatch(n, matchedNow[n])
  /\ \A n \in DOMAIN chosenNow : FreshChoice(n, chosenNow[n])
  /\ \A pk, rk : NewMeeting(pk, rk) =>
       /\ Intersect(pk, rk) \in DOMAIN engine'.matches
       /\ ~ Dominates(pk, rk, engine'.matches[Intersect(pk, rk)])
  /\ engine.routes \subseteq engine'.routes
  /\ engine'.routes \subseteq Routes
  /\ DOMAIN engine'.policies \subseteq Rectangles
  /\ \A k \in DOMAIN engine'.policies :
       /\ engine'.policies[k] \in Policies \cup {DefaultPolicy}
       /\ PolicyKey(engine'.policies[k]) = k
  /\ DOMAIN engine.policies \subseteq DOMAIN engine'.policies
  /\ DOMAIN engine'.checked \subseteq (Policies \cup {DefaultPolicy}) \X Routes
  /\ \A pair \in DOMAIN engine'.checked : engine'.checked[pair] \in BOOLEAN
  /\ \A pair \in DOMAIN engine.checked :
       pair \in DOMAIN engine'.checked /\ engine'.checked[pair] = engine.checked[pair]


\* The policy table is keyed by its policies' prefix pairs.
PoliciesKeyed ==
  \A k \in DOMAIN engine.policies : PolicyKey(engine.policies[k]) = k

LEMMA KeysTyped ==
  ASSUME TypeOK
  PROVE  /\ engine.routes \subseteq RouteAdvertises
         /\ engine.routes \subseteq Routes
         /\ RouteKeys(engine) \subseteq Rectangles
         /\ DOMAIN engine.policies \subseteq Rectangles
BY OfferedTypes DEF TypeOK, RouteKeys

\* What is put on record for the pairs a call has asked about.
LEMMA VerdictsKept ==
  ASSUME TypeOK, NEW pairs, NEW verdict \in Verdicts(pairs),
         NEW asked, asked \subseteq pairs,
         NEW fresh, VerdictsPut(fresh), DOMAIN fresh = asked,
         \A p, r : <<p, r>> \in asked => fresh[<<p, r>>] = IsCompliant(engine, verdict, p, r),
         asked \subseteq (Policies \cup {DefaultPolicy}) \X Routes
  PROVE  /\ DOMAIN engine'.checked \subseteq (Policies \cup {DefaultPolicy}) \X Routes
         /\ \A pair \in DOMAIN engine'.checked : engine'.checked[pair] \in BOOLEAN
         /\ \A pair \in DOMAIN engine.checked :
              pair \in DOMAIN engine'.checked /\ engine'.checked[pair] = engine.checked[pair]
<1>1. /\ DOMAIN engine.checked \subseteq (Policies \cup {DefaultPolicy}) \X Routes
      /\ \A pair \in DOMAIN engine.checked : engine.checked[pair] \in BOOLEAN
  BY DEF TypeOK
<1>2. DOMAIN engine'.checked = DOMAIN engine.checked \cup asked
  BY DEF VerdictsPut
<1>3. ASSUME NEW pair \in asked
      PROVE  /\ engine'.checked[pair] \in BOOLEAN
             /\ pair \in DOMAIN engine.checked => engine'.checked[pair] = engine.checked[pair]
  <2>1. PICK p \in Policies \cup {DefaultPolicy}, r \in Routes : pair = <<p, r>>
    OBVIOUS
  <2>2. /\ IsCompliant(engine, verdict, p, r) \in BOOLEAN
        /\ <<p, r>> \in DOMAIN engine.checked =>
             IsCompliant(engine, verdict, p, r) = engine.checked[<<p, r>>]
    BY <2>1, CompliantType
  <2>3. engine'.checked[pair] = fresh[pair]
    BY Zenon DEF VerdictsPut
  <2>4. fresh[<<p, r>>] = IsCompliant(engine, verdict, p, r)
    BY <2>1, Zenon
  <2> QED BY <2>1, <2>2, <2>3, <2>4, Zenon
<1>4. \A pair \in DOMAIN engine.checked \ asked : engine'.checked[pair] = engine.checked[pair]
  BY Zenon DEF VerdictsPut
<1> QED BY <1>1, <1>2, <1>3, <1>4, Zenon

LEMMA AdvertiseCall ==
  ASSUME TypeOK, PoliciesKeyed, NEW r \in Routes, Advertise(r)
  PROVE  \E matchedNow, chosenNow : Call(matchedNow, chosenNow)
<1>1. PICK verdict \in Verdicts(AdvertiseAsks(engine, r)) :
        engine' = ReceiveAdvertise(engine, r, verdict)
  BY DEF Advertise
<1> DEFINE rk   == RouteKey(r)
           acc  == AdvertiseAccepted(engine, r)
           now  == AdvertiseTaken(engine, r, verdict)
           asks == AdvertiseAsks(engine, r)
           mNow == [n \in acc |-> <<PolicyFor(engine, r, n), rk>>]
           cNow == [n \in now |-> r]
           keys == {AdvertiseFibKey(engine, r, n) : n \in now}
           fNow == [key \in keys |-> r.advertiser]
           kNow == [pair \in asks |-> IsCompliant(engine, verdict, pair[1], pair[2])]
<1>2. /\ engine'.routes = engine.routes \cup {r}
      /\ engine'.policies = engine.policies
      /\ MatchesPut(mNow)
      /\ ChoicesPut(cNow)
      /\ FibPut(fNow)
      /\ VerdictsPut(kNow)
  BY <1>1, UpdatedPuts, Zenon DEF ReceiveAdvertise
<1>3. /\ DOMAIN mNow = acc
      /\ \A n \in acc : mNow[n] = <<PolicyFor(engine, r, n), rk>>
      /\ \A n \in acc : mNow[n][1] = PolicyFor(engine, r, n) /\ mNow[n][2] = rk
      /\ DOMAIN cNow = now
      /\ \A n \in now : cNow[n] = r
      /\ DOMAIN fNow = keys
      /\ \A key \in keys : fNow[key] = r.advertiser
  OBVIOUS
<1>4. /\ DOMAIN kNow = asks
      /\ \A p, q : <<p, q>> \in asks => kNow[<<p, q>>] = IsCompliant(engine, verdict, p, q)
  <2>1. DOMAIN kNow = asks
    BY Zenon
  <2>2. ASSUME NEW p, NEW q, <<p, q>> \in asks
        PROVE  kNow[<<p, q>>] = IsCompliant(engine, verdict, p, q)
    <3>1. <<p, q>>[1] = p /\ <<p, q>>[2] = q
      OBVIOUS
    <3>2. kNow[<<p, q>>] = IsCompliant(engine, verdict, <<p, q>>[1], <<p, q>>[2])
      BY <2>2, Zenon
    <3> QED BY <3>1, <3>2, Zenon
  <2> QED BY <2>1, <2>2
<1> HIDE DEF mNow, cNow, fNow, kNow
<1>5. r \in RouteAdvertises /\ rk \in Rectangles
  BY OfferedTypes
<1>6. \A n \in AdvertiseMeetings(engine, r) :
        /\ PolicyFor(engine, r, n) \in DOMAIN engine.policies
        /\ PolicyFor(engine, r, n) \in Rectangles
        /\ Meets(rk, PolicyFor(engine, r, n))
        /\ Intersect(rk, PolicyFor(engine, r, n)) = n
        /\ \A other \in DOMAIN engine.policies :
             Meets(rk, other) /\ Intersect(rk, other) = n =>
               OutboundAtLeast(PolicyFor(engine, r, n), other)
        /\ n \in Rectangles
  BY <1>5, KeysTyped, PolicyForSpec DEF PoliciesMeeting
<1>7. \A n \in acc :
        /\ n \in AdvertiseMeetings(engine, r)
        /\ Accepts(engine, n, PolicyFor(engine, r, n), rk)
        /\ <<engine.policies[PolicyFor(engine, r, n)], r>> \in asks
  BY DEF AdvertiseAsks, AdvertiseAccepted
<1>8. asks \subseteq (Policies \cup {DefaultPolicy}) \X Routes
  BY <1>6, <1>7 DEF AdvertiseAsks, TypeOK
<1>9. /\ DOMAIN engine'.checked \subseteq (Policies \cup {DefaultPolicy}) \X Routes
      /\ \A pair \in DOMAIN engine'.checked : engine'.checked[pair] \in BOOLEAN
      /\ \A pair \in DOMAIN engine.checked :
           pair \in DOMAIN engine'.checked /\ engine'.checked[pair] = engine.checked[pair]
  BY <1>2, <1>4, <1>8, VerdictsKept, Zenon
<1>10. ASSUME NEW n \in acc PROVE FreshMatch(n, mNow[n])
  <2>1. rk \in RouteKeys(engine)'
    BY <1>2 DEF RouteKeys
  <2>2. Meets(PolicyFor(engine, r, n), rk) /\ Intersect(PolicyFor(engine, r, n), rk) = n
    BY <1>5, <1>6, <1>7, IntersectCommutes
  <2>3. /\ PolicyFor(engine, r, n) \in DOMAIN engine'.policies
        /\ PolicyFor(engine, r, n) \in Rectangles
        /\ n \in Rectangles
    BY <1>2, <1>6, <1>7
  <2>4. /\ mNow[n] \in Rectangles \X Rectangles
        /\ mNow[n][1] = PolicyFor(engine, r, n) /\ mNow[n][2] = rk
    BY <1>3, <1>5, <2>3
  <2> QED BY <1>7, <2>1, <2>2, <2>3, <2>4 DEF FreshMatch
<1>11. ASSUME NEW n \in now PROVE FreshChoice(n, cNow[n])
  <2> DEFINE pk == PolicyFor(engine, r, n)
             p  == engine.policies[pk]
  <2>1. n \in acc /\ IsCompliant(engine, verdict, p, r)
    BY DEF AdvertiseTaken
  <2>2. <<p, r>> \in asks /\ PolicyKey(p) = pk
    BY <1>6, <1>7, <2>1 DEF PoliciesKeyed
  <2>3. Contains(rk, n)
    BY <1>5, <1>6, <1>7, <2>1, IntersectContained
  <2>4. Meets(pk, rk) /\ Intersect(pk, rk) = n
    BY <1>5, <1>6, <1>7, <2>1, IntersectCommutes
  <2>5. <<p, r>> \in DOMAIN engine'.checked /\ engine'.checked[<<p, r>>]
    BY <1>2, <1>4, <2>1, <2>2, Zenon DEF VerdictsPut
  <2>6. <<p, r>>[1] = p /\ <<p, r>>[2] = r
    OBVIOUS
  <2>7. /\ n \in Rectangles /\ r \in engine'.routes /\ cNow[n] = r
    BY <1>2, <1>3, <1>6, <1>7, <2>1
  <2> QED BY <2>2, <2>3, <2>4, <2>5, <2>6, <2>7, Zenon DEF FreshChoice
<1>12. ASSUME NEW pk, NEW rk2, NewMeeting(pk, rk2)
       PROVE  /\ Intersect(pk, rk2) \in DOMAIN engine'.matches
              /\ ~ Dominates(pk, rk2, engine'.matches[Intersect(pk, rk2)])
  <2> DEFINE n == Intersect(pk, rk2)
  <2>1. pk \in DOMAIN engine.policies /\ rk2 = rk /\ Meets(pk, rk)
    BY <1>2, <1>12 DEF NewMeeting, RouteKeys
  <2>2. pk \in Rectangles /\ Meets(rk, pk) /\ Intersect(rk, pk) = n
    BY <1>5, <2>1, KeysTyped, IntersectCommutes
  <2> DEFINE pf == PolicyFor(engine, r, n)
  <2>3. n \in AdvertiseMeetings(engine, r)
    BY <2>1, <2>2 DEF AdvertiseMeetings, PoliciesMeeting
  <2>4. pf \in Rectangles /\ OutboundAtLeast(pf, pk)
    BY <1>6, <2>1, <2>2, <2>3
  <2> HIDE DEF n, pf
  <2>5. CASE n \in acc
    <3>1. n \in DOMAIN engine'.matches /\ engine'.matches[n] = mNow[n]
      BY <1>2, <1>3, <2>5 DEF MatchesPut
    <3>2. mNow[n][1] = pf /\ mNow[n][2] = rk
      BY <1>3, <2>5 DEF pf
    <3>3. ~ OutboundAbove(pk, pf)
      BY <2>4 DEF OutboundAtLeast
    <3>4. ~ InboundAbove(rk, rk)
      BY <1>5 DEF InboundAbove, Rectangles, Ranges
    <3> QED BY <2>1, <3>1, <3>2, <3>3, <3>4 DEF Dominates, n
  <2>6. CASE n \notin acc
    <3>1. ~ Accepts(engine, n, pf, rk)
      BY <2>3, <2>6 DEF AdvertiseAccepted, pf
    <3>2. /\ n \in DOMAIN engine.matches
          /\ ~ (/\ OutboundAtLeast(pf, engine.matches[n][1])
                /\ InboundAtLeast(rk, engine.matches[n][2]))
      BY <3>1 DEF Accepts
    <3>3. engine.matches[n][1] \in Rectangles
      BY <3>2 DEF TypeOK
    <3>4. ~ (/\ OutboundAtLeast(pk, engine.matches[n][1])
            /\ InboundAtLeast(rk, engine.matches[n][2]))
      BY <2>2, <2>4, <3>2, <3>3, PrioritiesOrder
    <3>5. engine'.matches[n] = engine.matches[n] /\ n \in DOMAIN engine'.matches
      BY <1>2, <1>3, <2>6, <3>2 DEF MatchesPut
    <3> QED BY <2>1, <3>4, <3>5 DEF Dominates, n
  <2> QED BY <2>5, <2>6 DEF n
<1>13. /\ engine.routes \subseteq engine'.routes
       /\ engine'.routes \subseteq Routes
       /\ DOMAIN engine'.policies \subseteq Rectangles
       /\ \A k \in DOMAIN engine'.policies :
            /\ engine'.policies[k] \in Policies \cup {DefaultPolicy}
            /\ PolicyKey(engine'.policies[k]) = k
       /\ DOMAIN engine.policies \subseteq DOMAIN engine'.policies
  BY <1>2, KeysTyped DEF TypeOK, PoliciesKeyed
<1>14. \A n \in now : PairOf(AdvertiseFibKey(engine, r, n)) = n
  <2> SUFFICES ASSUME NEW n \in now PROVE PairOf(AdvertiseFibKey(engine, r, n)) = n
    OBVIOUS
  <2> DEFINE pk == PolicyFor(engine, r, n)
             p  == engine.policies[pk]
  <2>1. n \in AdvertiseMeetings(engine, r)
    BY <1>7 DEF AdvertiseTaken
  <2>2. /\ pk \in DOMAIN engine.policies /\ Meets(rk, pk) /\ Intersect(rk, pk) = n
        /\ PolicyKey(p) = pk /\ p \in Policies \cup {DefaultPolicy}
    BY <1>6, <2>1 DEF PoliciesKeyed, TypeOK
  <2> HIDE DEF pk, p
  <2>3. HostRoute(r) /\ HostPolicy(p)
    BY <2>2, OfferedHosts
  <2> QED BY <2>2, <2>3, FibKeyPair DEF AdvertiseFibKey, p, pk
<1>15. EntriesFor(fNow, cNow)
  BY <1>3, <1>14 DEF EntriesFor
<1>16. FibServes(cNow)
  BY <1>2, <1>15 DEF FibServes
<1>17. Call(mNow, cNow)
  BY <1>2, <1>3, <1>9, <1>10, <1>11, <1>12, <1>13, <1>16, Zenon DEF Call
<1> QED BY <1>17

\* The routes the loop over an accepted key may try have been received.
LEMMA ScannedRoutes ==
  ASSUME NEW p, NEW verdict, NEW scan \in PolicyScans(engine, p, verdict)
  PROVE  scan \subseteq PolicyRoutes(engine, p) /\ scan \subseteq engine.routes
BY DEF PolicyScans, PolicyRoutes

LEMMA PolicyCall ==
  ASSUME TypeOK, PoliciesKeyed, NEW p \in Policies, Policy(p)
  PROVE  \E matchedNow, chosenNow : Call(matchedNow, chosenNow)
<1> DEFINE pairs == {p} \X PolicyRoutes(engine, p)
<1>1. PICK verdict \in Verdicts(pairs) :
        \E scan \in PolicyScans(engine, p, verdict) :
          engine' = ReceiveOutboundPolicy(engine, p, verdict, scan)
  BY DEF Policy
<1>2. PICK scan \in PolicyScans(engine, p, verdict) :
        engine' = ReceiveOutboundPolicy(engine, p, verdict, scan)
  BY <1>1
<1> DEFINE pk   == PolicyKey(p)
           acc  == PolicyAccepted(engine, p)
           asks == {p} \X scan
           pNow == [k \in {pk} |-> p]
           mNow == [n \in acc |-> <<pk, RouteKeyFor(engine, p, n)>>]
           cNow == PolicyChosen(engine, p, verdict, scan)
           fNow == PolicyEntries(p, cNow)
           kNow == [pair \in asks |-> IsCompliant(engine, verdict, pair[1], pair[2])]
<1>3. /\ engine'.routes = engine.routes
      /\ engine'.policies = PutAll(engine.policies, pNow)
      /\ MatchesPut(mNow)
      /\ ChoicesPut(cNow)
      /\ FibPut(fNow)
      /\ VerdictsPut(kNow)
  BY <1>2, UpdatedPuts, Zenon DEF ReceiveOutboundPolicy
<1>4. /\ DOMAIN mNow = acc
      /\ \A n \in acc : mNow[n] = <<pk, RouteKeyFor(engine, p, n)>>
      /\ \A n \in acc : mNow[n][1] = pk /\ mNow[n][2] = RouteKeyFor(engine, p, n)
  OBVIOUS
<1>5. /\ DOMAIN kNow = asks
      /\ \A p2, q : <<p2, q>> \in asks => kNow[<<p2, q>>] = IsCompliant(engine, verdict, p2, q)
  <2>1. DOMAIN kNow = asks
    BY Zenon
  <2>2. ASSUME NEW p2, NEW q, <<p2, q>> \in asks
        PROVE  kNow[<<p2, q>>] = IsCompliant(engine, verdict, p2, q)
    <3>1. <<p2, q>>[1] = p2 /\ <<p2, q>>[2] = q
      OBVIOUS
    <3>2. kNow[<<p2, q>>] = IsCompliant(engine, verdict, <<p2, q>>[1], <<p2, q>>[2])
      BY <2>2, Zenon
    <3> QED BY <3>1, <3>2, Zenon
  <2> QED BY <2>1, <2>2
<1>6. /\ DOMAIN engine'.policies = DOMAIN engine.policies \cup {pk}
      /\ engine'.policies[pk] = p
      /\ \A k \in DOMAIN engine.policies \ {pk} : engine'.policies[k] = engine.policies[k]
  <2>1. DOMAIN pNow = {pk} /\ pNow[pk] = p
    OBVIOUS
  <2> HIDE DEF pNow
  <2> QED BY <1>3, <2>1 DEF PutAll
<1>7. \A n \in DOMAIN cNow :
        /\ n \in acc
        /\ cNow[n] \in scan
        /\ RouteKey(cNow[n]) = RouteKeyFor(engine, p, n)
        /\ IsCompliant(engine, verdict, p, cNow[n])
  BY PolicyChosenSpec
<1>8. p \in PolicyAdvertises /\ pk \in Rectangles
  BY OfferedTypes
<1>9. /\ scan \subseteq Routes
      /\ asks \subseteq pairs
      /\ asks \subseteq (Policies \cup {DefaultPolicy}) \X Routes
  BY ScannedRoutes, KeysTyped
<1> HIDE DEF mNow, cNow, fNow, kNow, pNow, pairs
<1>10. \A n \in PolicyMeetings(engine, p) :
         /\ RouteKeyFor(engine, p, n) \in RouteKeys(engine)
         /\ RouteKeyFor(engine, p, n) \in Rectangles
         /\ Meets(pk, RouteKeyFor(engine, p, n))
         /\ Intersect(pk, RouteKeyFor(engine, p, n)) = n
         /\ \A other \in RouteKeys(engine) :
              Meets(pk, other) /\ Intersect(pk, other) = n =>
                InboundAtLeast(RouteKeyFor(engine, p, n), other)
         /\ n \in Rectangles
  BY <1>8, KeysTyped, RouteKeyForSpec DEF RouteKeysMeeting
<1>11. \A n \in acc :
         /\ n \in PolicyMeetings(engine, p)
         /\ Accepts(engine, n, pk, RouteKeyFor(engine, p, n))
  BY DEF PolicyAccepted
<1>12. RouteKeys(engine)' = RouteKeys(engine)
  BY <1>3 DEF RouteKeys
<1>13. /\ DOMAIN engine'.checked \subseteq (Policies \cup {DefaultPolicy}) \X Routes
       /\ \A pair \in DOMAIN engine'.checked : engine'.checked[pair] \in BOOLEAN
       /\ \A pair \in DOMAIN engine.checked :
            pair \in DOMAIN engine'.checked /\ engine'.checked[pair] = engine.checked[pair]
  <2> HIDE DEF asks
  <2>1. verdict \in Verdicts(pairs) /\ VerdictsPut(kNow) /\ DOMAIN kNow = asks
    BY <1>3, <1>5
  <2> QED BY <1>5, <1>9, <2>1, VerdictsKept, Zenon
<1>14. ASSUME NEW n \in acc PROVE FreshMatch(n, mNow[n])
  <2>1. /\ n \in Rectangles
        /\ RouteKeyFor(engine, p, n) \in Rectangles
        /\ RouteKeyFor(engine, p, n) \in RouteKeys(engine)'
        /\ Meets(pk, RouteKeyFor(engine, p, n))
        /\ Intersect(pk, RouteKeyFor(engine, p, n)) = n
    BY <1>10, <1>11, <1>12
  <2>2. /\ mNow[n] \in Rectangles \X Rectangles
        /\ mNow[n][1] = pk /\ mNow[n][2] = RouteKeyFor(engine, p, n)
    BY <1>4, <1>8, <2>1
  <2> QED BY <1>6, <1>11, <2>1, <2>2 DEF FreshMatch
<1>15. ASSUME NEW n \in DOMAIN cNow PROVE FreshChoice(n, cNow[n])
  <2> DEFINE r  == cNow[n]
             rk == RouteKeyFor(engine, p, n)
  <2>1. /\ n \in acc /\ r \in scan /\ RouteKey(r) = rk
        /\ IsCompliant(engine, verdict, p, r)
    BY <1>7
  <2>2. Contains(rk, n) /\ Intersect(pk, rk) = n /\ Meets(pk, rk) /\ n \in Rectangles
    BY <1>8, <1>10, <1>11, <2>1, IntersectContained
  <2>3. r \in engine'.routes /\ <<p, r>> \in asks
    BY <1>3, <2>1, ScannedRoutes
  <2>4. <<p, r>> \in DOMAIN engine'.checked /\ engine'.checked[<<p, r>>]
    BY <1>3, <1>5, <2>1, <2>3, Zenon DEF VerdictsPut
  <2>5. <<p, r>>[1] = p /\ <<p, r>>[2] = r
    OBVIOUS
  <2> QED BY <2>1, <2>2, <2>3, <2>4, <2>5, Zenon DEF FreshChoice
<1>16. ASSUME NEW pk2, NEW rk, NewMeeting(pk2, rk)
       PROVE  /\ Intersect(pk2, rk) \in DOMAIN engine'.matches
              /\ ~ Dominates(pk2, rk, engine'.matches[Intersect(pk2, rk)])
  <2> DEFINE n  == Intersect(pk, rk)
             rf == RouteKeyFor(engine, p, n)
  <2>1. pk2 = pk /\ rk \in RouteKeys(engine) /\ Meets(pk, rk)
    BY <1>6, <1>12, <1>16 DEF NewMeeting
  <2>2. rk \in Rectangles /\ n \in PolicyMeetings(engine, p)
    BY <2>1, KeysTyped DEF PolicyMeetings, RouteKeysMeeting
  <2>3. rf \in Rectangles /\ InboundAtLeast(rf, rk)
    BY <1>10, <2>1, <2>2
  <2> HIDE DEF n, rf
  <2>4. CASE n \in acc
    <3>1. n \in DOMAIN engine'.matches /\ engine'.matches[n] = mNow[n]
      BY <1>3, <1>4, <2>4 DEF MatchesPut
    <3>2. mNow[n][1] = pk /\ mNow[n][2] = rf
      BY <1>4, <2>4 DEF rf
    <3>3. ~ InboundAbove(rk, rf)
      BY <2>3 DEF InboundAtLeast
    <3>4. ~ OutboundAbove(pk, pk)
      BY <1>8 DEF OutboundAbove, Rectangles, Ranges
    <3> QED BY <2>1, <3>1, <3>2, <3>3, <3>4 DEF Dominates, n
  <2>5. CASE n \notin acc
    <3>1. ~ Accepts(engine, n, pk, rf)
      BY <2>2, <2>5 DEF PolicyAccepted, rf
    <3>2. /\ n \in DOMAIN engine.matches
          /\ ~ (/\ OutboundAtLeast(pk, engine.matches[n][1])
                /\ InboundAtLeast(rf, engine.matches[n][2]))
      BY <3>1 DEF Accepts
    <3>3. engine.matches[n][2] \in Rectangles
      BY <3>2 DEF TypeOK
    <3>4. ~ (/\ OutboundAtLeast(pk, engine.matches[n][1])
            /\ InboundAtLeast(rk, engine.matches[n][2]))
      BY <2>2, <2>3, <3>2, <3>3, PrioritiesOrder
    <3>5. engine'.matches[n] = engine.matches[n] /\ n \in DOMAIN engine'.matches
      BY <1>3, <1>4, <2>5, <3>2 DEF MatchesPut
    <3> QED BY <2>1, <3>4, <3>5 DEF Dominates, n
  <2> QED BY <2>1, <2>4, <2>5 DEF n
<1>17. /\ engine.routes \subseteq engine'.routes
       /\ engine'.routes \subseteq Routes
       /\ DOMAIN engine'.policies \subseteq Rectangles
       /\ \A k \in DOMAIN engine'.policies :
            /\ engine'.policies[k] \in Policies \cup {DefaultPolicy}
            /\ PolicyKey(engine'.policies[k]) = k
       /\ DOMAIN engine.policies \subseteq DOMAIN engine'.policies
  BY <1>3, <1>6, <1>8, KeysTyped DEF TypeOK, PoliciesKeyed
<1>18. \A n \in DOMAIN cNow : PairOf(FibKey(p, cNow[n])) = n
  <2> SUFFICES ASSUME NEW n \in DOMAIN cNow PROVE PairOf(FibKey(p, cNow[n])) = n
    OBVIOUS
  <2>1. n \in acc /\ cNow[n] \in scan /\ RouteKey(cNow[n]) = RouteKeyFor(engine, p, n)
    BY <1>7
  <2>2. Meets(pk, RouteKey(cNow[n])) /\ Intersect(pk, RouteKey(cNow[n])) = n
    BY <1>10, <1>11, <2>1
  <2>3. RouteKey(cNow[n]) \in Rectangles /\ Meets(RouteKey(cNow[n]), pk)
    BY <1>8, <1>9, <2>1, <2>2, OfferedTypes, IntersectCommutes
  <2>4. HostRoute(cNow[n]) /\ HostPolicy(p)
    BY <1>9, <2>1, OfferedHosts
  <2> QED BY <2>2, <2>3, <2>4, FibKeyPair
<1>19. EntriesFor(fNow, cNow)
  BY <1>18, PolicyEntriesFor DEF fNow
<1>20. FibServes(cNow)
  BY <1>3, <1>19 DEF FibServes
<1>21. Call(mNow, cNow)
  BY <1>3, <1>4, <1>13, <1>14, <1>15, <1>16, <1>17, <1>20, Zenon DEF Call
<1> QED BY <1>21

------------------------------------------------------------------------------
(***************************************************************************)
(* The inductive invariant.  What the properties need besides themselves   *)
(* is that the policy table is keyed by its policies' prefix pairs: only   *)
(* then is the policy a route is checked against one of the matched pair.  *)
(***************************************************************************)
IInv ==
  /\ TypeOK
  /\ PoliciesKeyed
  /\ ChosenAuthorised
  /\ FibFollowsChoice
  /\ MeetingsMatched
  /\ MatchesUndominated
  /\ AdvertisedAuthorised

LEMMA InitIInv == Init => IInv
<1> SUFFICES ASSUME Init PROVE IInv
  OBVIOUS
<1>1. /\ engine.routes = {} /\ engine.advertised = {}
      /\ engine.policies = [k \in {PolicyKey(DefaultPolicy)} |-> DefaultPolicy]
      /\ DOMAIN engine.matches = {} /\ DOMAIN engine.chosen = {}
      /\ DOMAIN engine.fib = {} /\ DOMAIN engine.checked = {}
  BY DEF Init, InitEngine, EmptyMap
<1>2. PolicyKey(DefaultPolicy) \in Rectangles
  BY KeyTypes
<1>3. TypeOK /\ PoliciesKeyed
  BY <1>1, <1>2 DEF TypeOK, PoliciesKeyed
<1>4. ChosenAuthorised /\ FibFollowsChoice /\ AdvertisedAuthorised
  BY <1>1 DEF ChosenAuthorised, FibFollowsChoice, AdvertisedAuthorised
<1>5. MeetingsMatched /\ MatchesUndominated
  BY <1>1 DEF MeetingsMatched, MatchesUndominated, RouteKeys
<1> QED BY <1>3, <1>4, <1>5 DEF IInv

LEMMA CallType ==
  ASSUME TypeOK, NEW matchedNow, NEW chosenNow, Call(matchedNow, chosenNow)
  PROVE  TypeOK' /\ PoliciesKeyed'
<1>1. PoliciesKeyed'
  BY DEF Call, PoliciesKeyed
<1>2. \A n \in DOMAIN chosenNow :
        n \in Rectangles /\ chosenNow[n] \in Routes /\ chosenNow[n].advertiser \in Pids
  <2>1. \A n \in DOMAIN chosenNow : n \in Rectangles /\ chosenNow[n] \in Routes
    BY DEF Call, FreshChoice
  <2> QED BY <2>1, OfferedTypes DEF RouteAdvertises
<1>3. /\ DOMAIN engine'.chosen \subseteq Rectangles
      /\ \A n \in DOMAIN engine'.chosen : engine'.chosen[n] \in Routes
      /\ \A key \in DOMAIN engine'.fib : engine'.fib[key] \in Pids
      /\ engine'.advertised \subseteq Routes
  <2>1. ChoicesPut(chosenNow)
    BY DEF Call
  <2>2. PICK entries : FibPut(entries) /\ EntriesFor(entries, chosenNow)
    BY Zenon DEF Call, FibServes
  <2>3. \A key \in DOMAIN entries : entries[key] \in Pids
    BY <1>2, <2>2 DEF EntriesFor
  <2>4. \A key \in DOMAIN engine'.fib : engine'.fib[key] \in Pids
    BY <2>2, <2>3 DEF FibPut, TypeOK
  <2> QED BY <1>2, <2>1, <2>4 DEF ChoicesPut, TypeOK
<1>4. /\ DOMAIN engine'.matches \subseteq Rectangles
      /\ \A n \in DOMAIN engine'.matches : engine'.matches[n] \in Rectangles \X Rectangles
  <2>1. MatchesPut(matchedNow)
    BY DEF Call
  <2>2. \A n \in DOMAIN matchedNow : n \in Rectangles /\ matchedNow[n] \in Rectangles \X Rectangles
    BY DEF Call, FreshMatch
  <2>3. /\ DOMAIN engine.matches \subseteq Rectangles
        /\ \A n \in DOMAIN engine.matches : engine.matches[n] \in Rectangles \X Rectangles
    BY DEF TypeOK
  <2> QED BY <2>1, <2>2, <2>3 DEF MatchesPut
<1>5. /\ engine'.routes \subseteq Routes
      /\ DOMAIN engine'.policies \subseteq Rectangles
      /\ \A k \in DOMAIN engine'.policies : engine'.policies[k] \in Policies \cup {DefaultPolicy}
      /\ DOMAIN engine'.checked \subseteq (Policies \cup {DefaultPolicy}) \X Routes
      /\ \A pair \in DOMAIN engine'.checked : engine'.checked[pair] \in BOOLEAN
  BY Zenon DEF Call
<1>6. TypeOK'
  BY <1>3, <1>4, <1>5 DEF TypeOK
<1> QED BY <1>1, <1>6

\* Verdicts on record stand, and what was found compliant stays so.
LEMMA CallKeepsVerdicts ==
  ASSUME NEW matchedNow, NEW chosenNow, Call(matchedNow, chosenNow),
         NEW pair \in DOMAIN engine.checked, engine.checked[pair]
  PROVE  pair \in DOMAIN engine'.checked /\ engine'.checked[pair]
BY Zenon DEF Call

LEMMA CallChoices ==
  ASSUME ChosenAuthorised, FibFollowsChoice, AdvertisedAuthorised,
         NEW matchedNow, NEW chosenNow, Call(matchedNow, chosenNow)
  PROVE  ChosenAuthorised' /\ FibFollowsChoice' /\ AdvertisedAuthorised'
<1>1. /\ ChoicesPut(chosenNow)
      /\ engine.routes \subseteq engine'.routes
      /\ \A n \in DOMAIN chosenNow : FreshChoice(n, chosenNow[n])
  BY DEF Call
<1>2. ASSUME NEW n \in DOMAIN engine'.chosen
      PROVE  /\ engine'.chosen[n] \in engine'.routes
             /\ Contains(RouteKey(engine'.chosen[n]), n)
             /\ \E pair \in DOMAIN engine'.checked :
                  /\ engine'.checked[pair]
                  /\ pair[2] = engine'.chosen[n]
                  /\ Intersect(PolicyKey(pair[1]), RouteKey(engine'.chosen[n])) = n
  <2>1. CASE n \in DOMAIN chosenNow
    <3>1. engine'.chosen[n] = chosenNow[n] /\ FreshChoice(n, chosenNow[n])
      BY <1>1, <2>1 DEF ChoicesPut
    <3> QED BY <3>1, Zenon DEF FreshChoice
  <2>2. CASE n \notin DOMAIN chosenNow
    <3>1. n \in DOMAIN engine.chosen /\ engine'.chosen[n] = engine.chosen[n]
      BY <1>1, <2>2 DEF ChoicesPut
    <3>2. PICK pair \in DOMAIN engine.checked :
            /\ engine.checked[pair]
            /\ pair[2] = engine.chosen[n]
            /\ Intersect(PolicyKey(pair[1]), RouteKey(engine.chosen[n])) = n
      BY <3>1, Zenon DEF ChosenAuthorised
    <3>3. engine.chosen[n] \in engine.routes /\ Contains(RouteKey(engine.chosen[n]), n)
      BY <3>1, Zenon DEF ChosenAuthorised
    <3>4. pair \in DOMAIN engine'.checked /\ engine'.checked[pair]
      BY <3>2, CallKeepsVerdicts
    <3> QED BY <1>1, <3>1, <3>2, <3>3, <3>4, Zenon
  <2> QED BY <2>1, <2>2
<1>3. ChosenAuthorised'
  BY <1>2, Zenon DEF ChosenAuthorised
<1>4. FibFollowsChoice'
  <2>1. PICK entries : FibPut(entries) /\ EntriesFor(entries, chosenNow)
    BY Zenon DEF Call, FibServes
  <2>2. ASSUME NEW n \in DOMAIN engine'.chosen
        PROVE  \E key \in DOMAIN engine'.fib :
                 PairOf(key) = n /\ engine'.fib[key] = engine'.chosen[n].advertiser
    <3>1. CASE n \in DOMAIN chosenNow
      <4>1. PICK key \in DOMAIN entries :
              PairOf(key) = n /\ entries[key] = chosenNow[n].advertiser
        BY <2>1, <3>1 DEF EntriesFor
      <4> QED BY <1>1, <2>1, <3>1, <4>1 DEF ChoicesPut, FibPut
    <3>2. CASE n \notin DOMAIN chosenNow
      <4>1. n \in DOMAIN engine.chosen /\ engine'.chosen[n] = engine.chosen[n]
        BY <1>1, <3>2 DEF ChoicesPut
      <4>2. PICK key \in DOMAIN engine.fib :
              PairOf(key) = n /\ engine.fib[key] = engine.chosen[n].advertiser
        BY <4>1 DEF FibFollowsChoice
      <4>3. key \notin DOMAIN entries
        BY <2>1, <3>2, <4>2 DEF EntriesFor
      <4> QED BY <2>1, <4>1, <4>2, <4>3 DEF FibPut
    <3> QED BY <3>1, <3>2
  <2>3. ASSUME NEW key \in DOMAIN engine'.fib PROVE PairOf(key) \in DOMAIN engine'.chosen
    BY <1>1, <2>1 DEF FibPut, EntriesFor, ChoicesPut, FibFollowsChoice
  <2> QED BY <2>2, <2>3 DEF FibFollowsChoice
<1>5. ASSUME NEW r \in engine'.advertised
      PROVE  \E pair \in DOMAIN engine'.checked :
               /\ engine'.checked[pair]
               /\ pair[2] = r
               /\ Meets(PolicyKey(pair[1]), RouteKey(r))
  <2>1. CASE r \in engine.advertised
    <3>1. PICK pair \in DOMAIN engine.checked :
            /\ engine.checked[pair]
            /\ pair[2] = r
            /\ Meets(PolicyKey(pair[1]), RouteKey(r))
      BY <2>1, Zenon DEF AdvertisedAuthorised
    <3>2. pair \in DOMAIN engine'.checked /\ engine'.checked[pair]
      BY <3>1, CallKeepsVerdicts
    <3> QED BY <3>1, <3>2, Zenon
  <2>2. CASE r \notin engine.advertised
    <3>1. PICK n \in DOMAIN chosenNow : r = chosenNow[n]
      BY <1>1, <2>2 DEF ChoicesPut
    <3> QED BY <1>1, <3>1, Zenon DEF FreshChoice
  <2> QED BY <2>1, <2>2
<1>6. \A n \in DOMAIN engine'.chosen : engine'.chosen[n] \in engine'.advertised
  <2>1. \A n \in DOMAIN engine.chosen : engine.chosen[n] \in engine.advertised
    BY DEF AdvertisedAuthorised
  <2> QED BY <1>1, <2>1 DEF ChoicesPut
<1>7. AdvertisedAuthorised'
  BY <1>5, <1>6, Zenon DEF AdvertisedAuthorised
<1> QED BY <1>3, <1>4, <1>7

\* A match is only ever replaced by one of no lower priorities.
LEMMA CallNarrows ==
  ASSUME TypeOK, NEW matchedNow, NEW chosenNow, Call(matchedNow, chosenNow),
         NEW n \in DOMAIN engine.matches
  PROVE  /\ n \in DOMAIN engine'.matches
         /\ OutboundAtLeast(engine'.matches[n][1], engine.matches[n][1])
         /\ InboundAtLeast(engine'.matches[n][2], engine.matches[n][2])
<1>1. MatchesPut(matchedNow) /\ \A m \in DOMAIN matchedNow : FreshMatch(m, matchedNow[m])
  BY DEF Call
<1>2. CASE n \in DOMAIN matchedNow
  <2>1. Accepts(engine, n, matchedNow[n][1], matchedNow[n][2])
    BY <1>1, <1>2 DEF FreshMatch
  <2> QED BY <1>1, <1>2, <2>1 DEF MatchesPut, Accepts
<1>3. CASE n \notin DOMAIN matchedNow
  <2>1. n \in DOMAIN engine'.matches /\ engine'.matches[n] = engine.matches[n]
    BY <1>1, <1>3 DEF MatchesPut
  <2>2. engine.matches[n][1] \in Rectangles /\ engine.matches[n][2] \in Rectangles
    BY DEF TypeOK
  <2> QED BY <2>1, <2>2, PrioritiesOrder
<1> QED BY <1>2, <1>3

LEMMA CallMatches ==
  ASSUME TypeOK, MeetingsMatched, MatchesUndominated,
         NEW matchedNow, NEW chosenNow, Call(matchedNow, chosenNow)
  PROVE  MeetingsMatched' /\ MatchesUndominated'
<1>1. /\ MatchesPut(matchedNow)
      /\ \A n \in DOMAIN matchedNow : FreshMatch(n, matchedNow[n])
      /\ engine.routes \subseteq engine'.routes
      /\ DOMAIN engine.policies \subseteq DOMAIN engine'.policies
  BY DEF Call
<1>2. RouteKeys(engine) \subseteq RouteKeys(engine)'
  BY <1>1 DEF RouteKeys
<1>3. TypeOK'
  <2>1. \A n \in DOMAIN engine'.matches : engine'.matches[n] \in Rectangles \X Rectangles
    <3>1. \A n \in DOMAIN engine.matches : engine.matches[n] \in Rectangles \X Rectangles
      BY DEF TypeOK
    <3> QED BY <1>1, <3>1 DEF MatchesPut, FreshMatch
  <2> QED BY CallType
<1>4. ASSUME NEW pk \in DOMAIN engine'.policies, NEW rk \in RouteKeys(engine)',
             Meets(pk, rk)
      PROVE  /\ Intersect(pk, rk) \in DOMAIN engine'.matches
             /\ ~ Dominates(pk, rk, engine'.matches[Intersect(pk, rk)])
  <2> DEFINE n == Intersect(pk, rk)
  <2>1. CASE NewMeeting(pk, rk)
    BY <2>1 DEF Call
  <2>2. CASE ~ NewMeeting(pk, rk)
    <3>1. pk \in DOMAIN engine.policies /\ rk \in RouteKeys(engine)
      BY <1>4, <2>2 DEF NewMeeting
    <3>2. n \in DOMAIN engine.matches
      BY <1>4, <3>1 DEF MeetingsMatched
    <3> HIDE DEF n
    <3> DEFINE old == engine.matches[n]
               new == engine'.matches[n]
    <3>3. /\ n \in DOMAIN engine'.matches
          /\ OutboundAtLeast(new[1], old[1])
          /\ InboundAtLeast(new[2], old[2])
      BY <3>2, CallNarrows
    <3>4. ~ Dominates(pk, rk, old)
      BY <1>4, <3>1, <3>2 DEF MatchesUndominated, Dominates, n
    <3>5. /\ old[1] \in Rectangles /\ old[2] \in Rectangles
          /\ new[1] \in Rectangles /\ new[2] \in Rectangles
      BY <1>3, <3>2, <3>3 DEF TypeOK
    <3>6. pk \in Rectangles /\ rk \in Rectangles
      BY <3>1, KeysTyped
    <3> HIDE DEF old, new
    <3>7. ~ Dominates(pk, rk, new)
      BY <3>3, <3>4, <3>5, <3>6, PrioritiesOrder DEF Dominates
    <3> QED BY <3>3, <3>7 DEF n, new
  <2> QED BY <2>1, <2>2
<1>5. MeetingsMatched'
  BY <1>4 DEF MeetingsMatched
<1>6. ASSUME NEW n \in DOMAIN engine'.matches
      PROVE  /\ engine'.matches[n][1] \in DOMAIN engine'.policies
             /\ engine'.matches[n][2] \in RouteKeys(engine)'
             /\ Meets(engine'.matches[n][1], engine'.matches[n][2])
             /\ Intersect(engine'.matches[n][1], engine'.matches[n][2]) = n
  <2>1. CASE n \in DOMAIN matchedNow
    BY <1>1, <2>1 DEF MatchesPut, FreshMatch
  <2>2. CASE n \notin DOMAIN matchedNow
    <3>1. n \in DOMAIN engine.matches /\ engine'.matches[n] = engine.matches[n]
      BY <1>1, <2>2 DEF MatchesPut
    <3>2. /\ engine.matches[n][1] \in DOMAIN engine.policies
          /\ engine.matches[n][2] \in RouteKeys(engine)
          /\ Meets(engine.matches[n][1], engine.matches[n][2])
          /\ Intersect(engine.matches[n][1], engine.matches[n][2]) = n
      BY <3>1 DEF MatchesUndominated
    <3> QED BY <1>1, <1>2, <3>1, <3>2
  <2> QED BY <2>1, <2>2
<1>7. MatchesUndominated'
  BY <1>4, <1>6 DEF MatchesUndominated, Dominates
<1> QED BY <1>5, <1>7

LEMMA CallIInv ==
  ASSUME IInv, NEW matchedNow, NEW chosenNow, Call(matchedNow, chosenNow)
  PROVE  IInv'
BY CallType, CallChoices, CallMatches DEF IInv

\* Every step of the specification is a call, or leaves the engine alone.
LEMMA NextIsCall ==
  ASSUME TypeOK, PoliciesKeyed, [Next]_vars
  PROVE  (\E matchedNow, chosenNow : Call(matchedNow, chosenNow)) \/ UNCHANGED engine
<1>1. ASSUME NEW r \in Routes, Advertise(r)
      PROVE  \E matchedNow, chosenNow : Call(matchedNow, chosenNow)
  BY <1>1, AdvertiseCall
<1>2. ASSUME NEW p \in Policies, Policy(p)
      PROVE  \E matchedNow, chosenNow : Call(matchedNow, chosenNow)
  BY <1>2, PolicyCall
<1>3. CASE UNCHANGED vars
  BY <1>3 DEF vars
<1> QED BY <1>1, <1>2, <1>3, Zenon DEF Next

LEMMA UnchangedIInv ==
  ASSUME IInv, UNCHANGED engine
  PROVE  IInv'
BY DEF IInv, TypeOK, PoliciesKeyed, ChosenAuthorised, FibFollowsChoice,
       MeetingsMatched, MatchesUndominated, AdvertisedAuthorised, RouteKeys

LEMMA NextIInv ==
  ASSUME IInv, [Next]_vars
  PROVE  IInv'
<1>1. TypeOK /\ PoliciesKeyed
  BY DEF IInv
<1> QED BY <1>1, NextIsCall, CallIInv, UnchangedIInv, Zenon

THEOREM Invariance == Spec => []IInv
<1>1. IInv /\ [Next]_vars => IInv'
  BY NextIInv
<1> QED BY InitIInv, <1>1, PTL DEF Spec

\* The engine's fields always hold values of their kinds: what is in its tables
\* has been handed over by someone (receiveAdvertise, receiveOutboundPolicy).
THEOREM TypeCorrect == Spec => []TypeOK
<1>1. IInv => TypeOK
  BY DEF IInv
<1> QED BY Invariance, <1>1, PTL

\* Nothing is forwarded that SAFE has not found compliant with a policy that
\* speaks for all of its traffic (isCompliant before each chosenRoutes.put).
THEOREM OnlyAuthorised == Spec => []ChosenAuthorised
<1>1. IInv => ChosenAuthorised
  BY DEF IInv
<1> QED BY Invariance, <1>1, PTL

\* Every choice has an entry in the forwarding table that stands for exactly its
\* prefix pair and leads where it does, and there is no entry for a pair without
\* a choice (getOverlapPrefix, addFib): of two prefixes that meet, the longer is
\* their intersection, however it is written.
THEOREM FibFollows == Spec => []FibFollowsChoice
<1>1. IInv => FibFollowsChoice
  BY DEF IInv
<1> QED BY Invariance, <1>1, PTL

\* Whatever the order of arrival, no policy and route that meet are missed.
THEOREM NoMeetingMissed == Spec => []MeetingsMatched
<1>1. IInv => MeetingsMatched
  BY DEF IInv
<1> QED BY Invariance, <1>1, PTL

\* Whatever the order of arrival, the match on record is a best one.
THEOREM BestMatch == Spec => []MatchesUndominated
<1>1. IInv => MatchesUndominated
  BY DEF IInv
<1> QED BY Invariance, <1>1, PTL

\* What is propagated to other SDXes was found compliant with a policy.
THEOREM PropagatesAuthorised == Spec => []AdvertisedAuthorised
<1>1. IInv => AdvertisedAuthorised
  BY DEF IInv
<1> QED BY Invariance, <1>1, PTL

------------------------------------------------------------------------------
(***************************************************************************)
(* Shortest choices.  Two route keys of the same priority that both meet   *)
(* some policy in the same prefix pair are the same key, because prefixes  *)
(* of one length that overlap are the same; so a match that is replaced by *)
(* one of no higher priority keeps its routes, and the choice among them.  *)
(***************************************************************************)
Shortest ==
  \A n \in DOMAIN engine.matches :
    /\ n \in DOMAIN engine.chosen
    /\ RouteKey(engine.chosen[n]) = engine.matches[n][2]
    /\ \A r \in RoutesAt(engine, engine.matches[n][2]) :
         Len(engine.chosen[n].route) <= Len(r.route)

NothingRefused == \A pair \in DOMAIN engine.checked : engine.checked[pair]

LEMMA KeyRanges ==
  ASSUME NEW r \in Routes
  PROVE  /\ RouteKey(r).x \in PrefixRanges /\ RouteKey(r).x \in Ranges
         /\ RouteKey(r).y \in PrefixRanges /\ RouteKey(r).y \in Ranges
<1>1. r.dest \in Prefixes /\ r.src \in Prefixes \cup {NoPrefix} /\ DefaultPrefix \in Prefixes
  BY OfferedAssumption, DefaultIsHost, HostRange DEF RouteAdvertises
<1> QED BY <1>1, PrefixRangeType
        DEF RouteKey, PrefixPairToRectangle, RectangleOf

\* Ranges that meet something in the same range meet each other.
LEMMA SameMeet ==
  ASSUME NEW p \in Ranges, NEW q \in Ranges, NEW r \in Ranges, NEW t \in Ranges,
         RangesMeet(p, r), RangesMeet(q, t), MeetOfRanges(p, r) = MeetOfRanges(q, t),
         r.length > 0, t.length > 0
  PROVE  RangesMeet(r, t)
BY DEF Ranges, RangesMeet, MeetOfRanges, RangeOf, Larger, Smaller

\* Keys of equal priority for one prefix pair are the same.
LEMMA SameKey ==
  ASSUME TypeOK, NEW pk \in Rectangles, NEW pk2 \in Rectangles,
         NEW rk \in RouteKeys(engine) \cup RouteKeys(engine)',
         NEW rk2 \in RouteKeys(engine), engine'.routes \subseteq Routes,
         Meets(pk, rk), Meets(pk2, rk2), Intersect(pk, rk) = Intersect(pk2, rk2),
         ~ InboundAbove(rk, rk2), ~ InboundAbove(rk2, rk)
  PROVE  rk = rk2
<1>1. PICK r \in Routes : rk = RouteKey(r)
  BY DEF TypeOK, RouteKeys
<1>2. PICK r2 \in Routes : rk2 = RouteKey(r2)
  BY DEF TypeOK, RouteKeys
<1>3. /\ rk.x \in PrefixRanges /\ rk.x \in Ranges /\ rk.y \in PrefixRanges /\ rk.y \in Ranges
      /\ rk2.x \in PrefixRanges /\ rk2.x \in Ranges /\ rk2.y \in PrefixRanges /\ rk2.y \in Ranges
      /\ rk \in Rectangles /\ rk2 \in Rectangles
  BY <1>1, <1>2, KeyRanges, OfferedTypes
<1>4. rk.x.length = rk2.x.length /\ rk.y.length = rk2.y.length
  BY <1>3 DEF InboundAbove, Ranges
<1>5. rk.x.length > 0 /\ rk.y.length > 0 /\ rk2.x.length > 0 /\ rk2.y.length > 0
  <2>1. rk.x.length > 1 /\ rk.y.length > 1
    BY <1>3, PrefixRangeIs
  <2> QED BY <1>3, <1>4, <2>1 DEF Ranges
<1>6. /\ MeetOfRanges(pk.x, rk.x) = MeetOfRanges(pk2.x, rk2.x)
      /\ MeetOfRanges(pk.y, rk.y) = MeetOfRanges(pk2.y, rk2.y)
  BY DEF Intersect, RectangleOf
<1>7. pk.x \in Ranges /\ pk.y \in Ranges /\ pk2.x \in Ranges /\ pk2.y \in Ranges
  BY DEF Rectangles
<1>8. RangesMeet(rk.x, rk2.x) /\ RangesMeet(rk.y, rk2.y)
  BY <1>3, <1>5, <1>6, <1>7, SameMeet DEF Meets
<1>9. rk.x = rk2.x /\ rk.y = rk2.y
  BY <1>3, <1>4, <1>8, PrefixesAligned
<1> QED BY <1>3, <1>9 DEF Rectangles

\* A verdict that is TRUE after a call was so before, and in the call.
LEMMA NothingRefusedBefore ==
  ASSUME IInv, [Next]_vars, NothingRefused'
  PROVE  NothingRefused
<1>1. CASE UNCHANGED engine
  BY <1>1 DEF NothingRefused
<1>2. ASSUME NEW matchedNow, NEW chosenNow, Call(matchedNow, chosenNow)
      PROVE  NothingRefused
  BY <1>2, Zenon DEF Call, NothingRefused
<1>3. TypeOK /\ PoliciesKeyed
  BY DEF IInv
<1> QED BY <1>1, <1>2, <1>3, NextIsCall, Zenon

LEMMA AdvertiseShortest ==
  ASSUME IInv, Shortest, NEW r \in Routes, Advertise(r), NothingRefused'
  PROVE  Shortest'
<1>1. PICK verdict \in Verdicts(AdvertiseAsks(engine, r)) :
        engine' = ReceiveAdvertise(engine, r, verdict)
  BY DEF Advertise
<1> DEFINE rk  == RouteKey(r)
           acc == AdvertiseAccepted(engine, r)
           now == AdvertiseTaken(engine, r, verdict)
<1>2. /\ engine'.routes = engine.routes \cup {r}
      /\ engine'.policies = engine.policies
      /\ DOMAIN engine'.matches = DOMAIN engine.matches \cup acc
      /\ \A n \in acc : engine'.matches[n] = <<PolicyFor(engine, r, n), rk>>
      /\ \A n \in DOMAIN engine.matches \ acc : engine'.matches[n] = engine.matches[n]
      /\ DOMAIN engine'.chosen = DOMAIN engine.chosen \cup now
      /\ \A n \in now : engine'.chosen[n] = r
      /\ \A n \in DOMAIN engine.chosen \ now : engine'.chosen[n] = engine.chosen[n]
  BY <1>1, ReceiveAdvertiseTables
<1>3. \A n \in acc :
        IsCompliant(engine, verdict, engine.policies[PolicyFor(engine, r, n)], r)
  <2> DEFINE t == ReceiveAdvertise(engine, r, verdict)
  <2>1. \A pair \in DOMAIN t.checked : t.checked[pair]
    BY <1>1, Zenon DEF NothingRefused
  <2> QED BY <2>1, AdvertiseVerdictsAre, Zenon
<1>4. r \in RouteAdvertises /\ rk \in Rectangles
  BY OfferedTypes
<1>5. ASSUME NEW n \in AdvertiseMeetings(engine, r)
      PROVE  /\ PolicyFor(engine, r, n) \in DOMAIN engine.policies
             /\ PolicyFor(engine, r, n) \in Rectangles
             /\ Meets(PolicyFor(engine, r, n), rk)
             /\ Intersect(PolicyFor(engine, r, n), rk) = n
             /\ \A other \in DOMAIN engine.policies :
                  Meets(other, rk) /\ Intersect(other, rk) = n =>
                    OutboundAtLeast(PolicyFor(engine, r, n), other)
  <2>1. /\ PolicyFor(engine, r, n) \in PoliciesMeeting(engine, r)
        /\ Intersect(RouteKey(r), PolicyFor(engine, r, n)) = n
        /\ \A other \in PoliciesMeeting(engine, r) :
             Intersect(RouteKey(r), other) = n =>
               OutboundAtLeast(PolicyFor(engine, r, n), other)
    BY <1>4, KeysTyped, PolicyForSpec DEF IInv
  <2> QED BY <1>4, <2>1, KeysTyped, IntersectCommutes DEF IInv, PoliciesMeeting
<1>6. \A n \in acc : n \in AdvertiseMeetings(engine, r) /\ Accepts(engine, n, PolicyFor(engine, r, n), rk)
  BY DEF AdvertiseAccepted
<1>7. \A n \in acc : n \in now <=>
        \/ n \notin DOMAIN engine.matches
        \/ InboundAbove(rk, engine.matches[n][2])
        \/ n \notin DOMAIN engine.chosen
        \/ Len(r.route) < Len(engine.chosen[n].route)
  BY <1>3, Zenon DEF AdvertiseTaken
<1>8. now \subseteq acc
  BY DEF AdvertiseTaken
<1>9. ASSUME NEW n \in AdvertiseMeetings(engine, r), n \notin acc
      PROVE  ~ Accepts(engine, n, PolicyFor(engine, r, n), rk)
  BY <1>9 DEF AdvertiseAccepted
<1> HIDE DEF acc, now
<1>10. /\ \A q \in Routes : Len(q.route) \in Nat
       /\ engine.routes \subseteq Routes
       /\ engine'.routes \subseteq Routes
  BY <1>2, OfferedTypes DEF IInv, TypeOK, RouteAdvertises
<1>11. \A n \in DOMAIN engine.matches :
         /\ engine.matches[n][1] \in DOMAIN engine.policies
         /\ engine.matches[n][1] \in Rectangles /\ engine.matches[n][2] \in Rectangles
         /\ engine.matches[n][2] \in RouteKeys(engine)
         /\ Meets(engine.matches[n][1], engine.matches[n][2])
         /\ Intersect(engine.matches[n][1], engine.matches[n][2]) = n
         /\ n \in DOMAIN engine.chosen
         /\ engine.chosen[n] \in engine.routes
         /\ RouteKey(engine.chosen[n]) = engine.matches[n][2]
         /\ \A q \in engine.routes :
              RouteKey(q) = engine.matches[n][2] =>
                Len(engine.chosen[n].route) <= Len(q.route)
  BY Zenon DEF IInv, MatchesUndominated, TypeOK, Shortest, ChosenAuthorised, RoutesAt
<1> SUFFICES ASSUME NEW n \in DOMAIN engine'.matches
             PROVE  /\ n \in DOMAIN engine'.chosen
                    /\ RouteKey(engine'.chosen[n]) = engine'.matches[n][2]
                    /\ \A q \in engine'.routes :
                         RouteKey(q) = engine'.matches[n][2] =>
                           Len(engine'.chosen[n].route) <= Len(q.route)
  BY DEF Shortest, RoutesAt
<1> DEFINE mk == engine.matches[n][2]
           mp == engine.matches[n][1]
           pf == PolicyFor(engine, r, n)
<1>12. CASE n \notin acc
  <2>1. /\ n \in DOMAIN engine.matches /\ engine'.matches[n] = engine.matches[n]
        /\ n \in DOMAIN engine'.chosen /\ engine'.chosen[n] = engine.chosen[n]
    BY <1>2, <1>8, <1>11, <1>12
  <2>2. rk # mk
    <3> SUFFICES ASSUME rk = mk PROVE FALSE
      OBVIOUS
    <3>1. n \in AdvertiseMeetings(engine, r)
      <4>1. mp \in Rectangles /\ Meets(rk, mp) /\ Intersect(rk, mp) = n
        BY <1>4, <1>11, <2>1, IntersectCommutes
      <4> QED BY <1>11, <2>1, <4>1 DEF AdvertiseMeetings, PoliciesMeeting
    <3>2. OutboundAtLeast(pf, mp)
      BY <1>5, <1>11, <2>1, <3>1
    <3>3. InboundAtLeast(rk, mk)
      BY <1>4, PrioritiesOrder
    <3> QED BY <1>9, <1>12, <3>1, <3>2, <3>3 DEF Accepts
  <2> QED BY <1>2, <1>11, <2>1, <2>2
<1>13. CASE n \in acc
  <2>1. /\ engine'.matches[n] = <<pf, rk>>
        /\ n \in AdvertiseMeetings(engine, r)
        /\ Accepts(engine, n, pf, rk)
        /\ pf \in DOMAIN engine.policies /\ pf \in Rectangles
        /\ Meets(pf, rk) /\ Intersect(pf, rk) = n
    BY <1>2, <1>5, <1>6, <1>13
  <2>2. n \in DOMAIN engine.matches => OutboundAtLeast(pf, mp) /\ InboundAtLeast(rk, mk)
    BY <2>1 DEF Accepts
  <2>3. CASE rk \notin RouteKeys(engine) \/ n \notin DOMAIN engine.matches \/ InboundAbove(rk, mk)
    <3>1. \A q \in engine.routes : RouteKey(q) # rk
      <4>1. rk \in RouteKeys(engine) => n \in DOMAIN engine.matches
        BY <2>1 DEF IInv, MeetingsMatched
      <4>2. rk \in RouteKeys(engine) => ~ InboundAbove(rk, mk)
        BY <2>1, <2>2, <4>1 DEF IInv, MatchesUndominated
      <4>3. rk \notin RouteKeys(engine)
        BY <2>3, <4>1, <4>2
      <4> QED BY <4>3 DEF RouteKeys
    <3>2. n \in now
      <4>1. n \in DOMAIN engine.matches /\ ~ InboundAbove(rk, mk) => rk = mk
        <5> SUFFICES ASSUME n \in DOMAIN engine.matches, ~ InboundAbove(rk, mk) PROVE rk = mk
          OBVIOUS
        <5>1. rk \in RouteKeys(engine)'
          BY <1>2 DEF RouteKeys
        <5>2. ~ InboundAbove(mk, rk)
          BY <2>2 DEF InboundAtLeast
        <5> QED BY <1>10, <1>11, <2>1, <5>1, <5>2, SameKey DEF IInv
      <4>2. n \in DOMAIN engine.matches => mk \in RouteKeys(engine)
        BY <1>11
      <4>3. rk \notin RouteKeys(engine)
        BY <3>1 DEF RouteKeys
      <4> QED BY <1>7, <1>13, <4>1, <4>2, <4>3
    <3>3. n \in DOMAIN engine'.chosen /\ engine'.chosen[n] = r
      BY <1>2, <3>2
    <3> QED BY <1>2, <1>10, <2>1, <3>1, <3>3
  <2>4. CASE n \in DOMAIN engine.matches /\ ~ InboundAbove(rk, mk)
    <3>1. rk = mk
      <4>1. rk \in RouteKeys(engine)'
        BY <1>2 DEF RouteKeys
      <4>2. ~ InboundAbove(mk, rk)
        BY <2>2, <2>4 DEF InboundAtLeast
      <4> QED BY <1>10, <1>11, <2>1, <2>4, <4>1, <4>2, SameKey DEF IInv
    <3>2. /\ n \in DOMAIN engine.chosen /\ engine.chosen[n] \in engine.routes
          /\ RouteKey(engine.chosen[n]) = rk
          /\ \A q \in engine.routes :
               RouteKey(q) = rk => Len(engine.chosen[n].route) <= Len(q.route)
      BY <1>11, <2>4, <3>1
    <3>3. n \in now <=> Len(r.route) < Len(engine.chosen[n].route)
      BY <1>7, <1>13, <2>4, <3>2
    <3>4. /\ n \in DOMAIN engine'.chosen
          /\ engine'.chosen[n] = IF n \in now THEN r ELSE engine.chosen[n]
      BY <1>2, <3>2
    <3>5. /\ Len(r.route) \in Nat /\ Len(engine.chosen[n].route) \in Nat
          /\ \A q \in engine'.routes : Len(q.route) \in Nat /\ (q = r \/ q \in engine.routes)
      BY <1>2, <1>10, <3>2
    <3>6. CASE n \in now
      BY <2>1, <3>2, <3>3, <3>4, <3>5, <3>6
    <3>7. CASE n \notin now
      BY <2>1, <3>2, <3>3, <3>4, <3>5, <3>7
    <3> QED BY <3>6, <3>7
  <2> QED BY <2>3, <2>4
<1> QED BY <1>12, <1>13

\* The loop of a policy's call ends at a shortest route of each accepted key.
LEMMA ScanShortest ==
  ASSUME IInv, NEW p \in Policies, NEW verdict,
         NEW scan \in PolicyScans(engine, p, verdict),
         \A r \in scan : IsCompliant(engine, verdict, p, r),
         NEW n \in PolicyAccepted(engine, p), RouteKeyFor(engine, p, n) \in RouteKeys(engine)
  PROVE  \E first \in engine.routes :
           /\ Passed(engine, p, verdict, scan, n) = {first}
           /\ RouteKey(first) = RouteKeyFor(engine, p, n)
           /\ \A r \in engine.routes :
                RouteKey(r) = RouteKeyFor(engine, p, n) => Len(first.route) <= Len(r.route)
<1> DEFINE ok(r) == IsCompliant(engine, verdict, p, r)
           rk    == RouteKeyFor(engine, p, n)
<1>1. /\ scan \subseteq PolicyRoutes(engine, p)
      /\ \A q \in PolicyRoutes(engine, p) \ scan :
           \E r \in scan :
             RouteKey(r) = RouteKey(q) /\ ok(r) /\ Len(r.route) <= Len(q.route)
      /\ \A q, r \in scan :
           RouteKey(r) = RouteKey(q) /\ ok(r) =>
             Len(q.route) <= Len(r.route) /\ (ok(q) => q = r)
  BY Zenon DEF PolicyScans
<1>2. \A r \in scan : ok(r)
  BY Zenon
<1>3. Passed(engine, p, verdict, scan, n) = {r \in scan : RouteKey(r) = rk /\ ok(r)}
  BY Zenon DEF Passed
<1> HIDE DEF ok
<1>4. /\ \A r \in engine.routes : RouteKey(r) = rk => r \in PolicyRoutes(engine, p)
      /\ PolicyRoutes(engine, p) \subseteq engine.routes
  BY DEF PolicyRoutes
<1>5. \A q \in engine.routes : Len(q.route) \in Nat
  BY OfferedTypes DEF IInv, TypeOK, RouteAdvertises
<1>6. PICK some \in engine.routes : RouteKey(some) = rk
  BY DEF RouteKeys
<1> HIDE DEF rk
<1>7. PICK first \in scan : RouteKey(first) = rk
  BY <1>1, <1>4, <1>6
<1>8. \A r \in scan : RouteKey(r) = rk => r = first
  BY <1>1, <1>2, <1>7
<1>9. \A r \in engine.routes : RouteKey(r) = rk => Len(first.route) <= Len(r.route)
  BY <1>1, <1>4, <1>5, <1>7, <1>8
<1>10. Passed(engine, p, verdict, scan, n) = {first}
  BY <1>2, <1>3, <1>7, <1>8
<1> QED BY <1>1, <1>4, <1>7, <1>9, <1>10 DEF rk

LEMMA PolicyShortest ==
  ASSUME IInv, Shortest, NEW p \in Policies, Policy(p), NothingRefused'
  PROVE  Shortest'
<1>1. PICK verdict \in Verdicts({p} \X PolicyRoutes(engine, p)) :
        \E scan \in PolicyScans(engine, p, verdict) :
          engine' = ReceiveOutboundPolicy(engine, p, verdict, scan)
  BY DEF Policy
<1>2. PICK scan \in PolicyScans(engine, p, verdict) :
        engine' = ReceiveOutboundPolicy(engine, p, verdict, scan)
  BY <1>1
<1> DEFINE acc == PolicyAccepted(engine, p)
           now == PolicyChosen(engine, p, verdict, scan)
<1>3. /\ engine'.routes = engine.routes
      /\ DOMAIN engine'.matches = DOMAIN engine.matches \cup acc
      /\ \A n \in acc : engine'.matches[n] = <<PolicyKey(p), RouteKeyFor(engine, p, n)>>
      /\ \A n \in DOMAIN engine.matches \ acc : engine'.matches[n] = engine.matches[n]
      /\ DOMAIN engine'.chosen = DOMAIN engine.chosen \cup DOMAIN now
      /\ \A n \in DOMAIN now : engine'.chosen[n] = now[n]
      /\ \A n \in DOMAIN engine.chosen \ DOMAIN now : engine'.chosen[n] = engine.chosen[n]
  BY <1>2, ReceiveOutboundPolicyTables
<1>4. \A r \in scan : IsCompliant(engine, verdict, p, r)
  <2> DEFINE t == ReceiveOutboundPolicy(engine, p, verdict, scan)
  <2>1. \A pair \in DOMAIN t.checked : t.checked[pair]
    BY <1>2, Zenon DEF NothingRefused
  <2> QED BY <2>1, PolicyVerdictsAre, Zenon
<1>5. ASSUME NEW n \in acc
      PROVE  /\ n \in DOMAIN now
             /\ RouteKey(now[n]) = RouteKeyFor(engine, p, n)
             /\ \A r \in engine.routes :
                  RouteKey(r) = RouteKeyFor(engine, p, n) => Len(now[n].route) <= Len(r.route)
  <2>1. RouteKeyFor(engine, p, n) \in RouteKeys(engine)
    BY KeysTyped, OfferedTypes, RouteKeyForSpec DEF IInv, PolicyAccepted, RouteKeysMeeting
  <2>2. PICK first \in engine.routes :
          /\ Passed(engine, p, verdict, scan, n) = {first}
          /\ RouteKey(first) = RouteKeyFor(engine, p, n)
          /\ \A r \in engine.routes :
               RouteKey(r) = RouteKeyFor(engine, p, n) => Len(first.route) <= Len(r.route)
    BY <1>4, <2>1, ScanShortest
  <2>3. n \in DOMAIN now /\ now[n] = first
    BY <2>2 DEF PolicyChosen
  <2> QED BY <2>2, <2>3
<1>6. \A n \in DOMAIN now : n \in acc
  BY PolicyChosenSpec
<1> HIDE DEF acc, now
<1> SUFFICES ASSUME NEW n \in DOMAIN engine'.matches
             PROVE  /\ n \in DOMAIN engine'.chosen
                    /\ RouteKey(engine'.chosen[n]) = engine'.matches[n][2]
                    /\ \A q \in engine'.routes :
                         RouteKey(q) = engine'.matches[n][2] =>
                           Len(engine'.chosen[n].route) <= Len(q.route)
  BY DEF Shortest, RoutesAt
<1>7. CASE n \in acc
  <2>1. /\ n \in DOMAIN engine'.chosen /\ engine'.chosen[n] = now[n]
        /\ engine'.matches[n][2] = RouteKeyFor(engine, p, n)
    BY <1>3, <1>5, <1>7
  <2> QED BY <1>3, <1>5, <1>7, <2>1
<1>8. CASE n \notin acc
  <2>1. /\ n \in DOMAIN engine.matches /\ engine'.matches[n] = engine.matches[n]
        /\ n \in DOMAIN engine.chosen
        /\ RouteKey(engine.chosen[n]) = engine.matches[n][2]
        /\ \A q \in engine.routes :
             RouteKey(q) = engine.matches[n][2] => Len(engine.chosen[n].route) <= Len(q.route)
    BY <1>3, <1>8 DEF Shortest, RoutesAt
  <2>2. n \in DOMAIN engine'.chosen /\ engine'.chosen[n] = engine.chosen[n]
    BY <1>3, <1>6, <1>8, <2>1
  <2> QED BY <1>3, <2>1, <2>2
<1> QED BY <1>7, <1>8

\* As long as SAFE refuses nothing, every prefix pair is forwarded along a
\* shortest of the routes it was matched with, in whatever order they came.
THEOREM ShortestRoutes == Spec => []ShortestChosen
<1>1. ShortestChosen <=> (NothingRefused => Shortest)
  BY Zenon DEF ShortestChosen, NothingRefused, Shortest
<1>2. Init => ShortestChosen
  BY <1>1 DEF Init, InitEngine, EmptyMap, Shortest
<1>3. ASSUME IInv, ShortestChosen, [Next]_vars PROVE ShortestChosen'
  <2> SUFFICES ASSUME NothingRefused' PROVE Shortest'
    BY Zenon DEF ShortestChosen, NothingRefused, Shortest
  <2>1. Shortest
    BY <1>1, <1>3, NothingRefusedBefore, Zenon
  <2>2. CASE UNCHANGED vars
    BY <2>1, <2>2 DEF vars, Shortest, RoutesAt
  <2>3. CASE Next
    BY <1>3, <2>1, <2>3, AdvertiseShortest, PolicyShortest DEF Next
  <2> QED BY <1>3, <2>2, <2>3
<1>4. IInv /\ ShortestChosen /\ [Next]_vars => ShortestChosen'
  BY <1>3
<1> QED BY <1>2, <1>4, Invariance, PTL DEF Spec
==============================================================================
