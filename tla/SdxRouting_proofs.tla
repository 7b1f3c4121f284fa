-------------------------- MODULE SdxRouting_proofs --------------------------
(***************************************************************************)
(* Theorems about SDXes that peer and exchange advertisements, for any     *)
(* number of SDXes, stitches and offered messages and for every order of   *)
(* delivery: paths are simple and backed by the neighbour they came from,  *)
(* nobody forwards to a network that is not stitched, and the exchange     *)
(* implements PathVector, so that traffic never goes round in circles; and *)
(* peers that have nothing left to exchange agree.                         *)
(***************************************************************************)
EXTENDS SdxRouting, AdvertiseEngine_proofs

------------------------------------------------------------------------------
(***************************************************************************)
(* The invariants behind the properties of SdxNetwork.                     *)
(***************************************************************************)
Called == Phases \cup {"idle"}

\* The tables of SDX a.
TablesTyped(a) ==
  /\ am[a].routes \subseteq RouteAdvertises
  /\ DOMAIN am[a].policies \subseteq Rectangles
  /\ \A k \in DOMAIN am[a].policies :
       am[a].policies[k] \in PolicyAdvertises \cup {DefaultPolicy}

TypeInv ==
  /\ DOMAIN am = Sdxes
  /\ \A a \in Sdxes : TablesTyped(a)
  /\ peers \in [Sdxes -> SUBSET Sdxes]
  /\ stitched \in [Sdxes -> SUBSET Pids]
  /\ commands \subseteq Stitches
  /\ call \in [Sdxes -> [phase : Called, to : Sdxes \cup {NoPid}]]
  /\ inflight \subseteq BgpMessages \cup PolicyMessages

\* What a stitch command has achieved when it is in a phase.
CallsStitched ==
  \A a \in Sdxes :
    /\ call[a].phase \in Phases => call[a].to \in Sdxes
    /\ call[a].phase \in {"stitched", "peering", "peered"} =>
         a \in stitched[call[a].to]
    /\ call[a].phase \in {"peering", "peered"} => call[a].to \in stitched[a]

PeersStitched ==
  \A a, b \in Sdxes : b \in peers[a] => b \in stitched[a] /\ a \in stitched[b]

\* What holds of every route that SDX a keeps or is sent.
Sound(a, r) ==
  /\ Simple(r.route)
  /\ ~ Occurs(a, r.route)
  /\ BackedBy(r)
  /\ r.advertiser \in stitched[a]
  /\ r.route # <<>>

RoutesSound ==
  /\ \A a \in Sdxes : \A r \in am[a].routes : Sound(a, r)
  /\ \A m \in inflight : m.kind = "bgp" => Sound(m.to, m.adv)

FibStitched ==
  \A a \in Sdxes : \A n \in DOMAIN am[a].fib : am[a].fib[n] \in stitched[a]

NetInv == TypeInv /\ CallsStitched /\ PeersStitched /\ RoutesSound /\ FibStitched

\* A policy whose prefixes are written with their network addresses.
NormalPolicy(p) == HostPolicy(p) /\ Normal(p.dest) /\ Normal(p.src)

\* SAFE refuses nothing to whoever a policy with such a token is checked for.
Trusted(p) == (Answers = {TRUE} \/ p.token = NoToken) /\ NormalPolicy(p)

PoliciesTrusted ==
  /\ \A a \in Sdxes : \A k \in DOMAIN am[a].policies : Trusted(am[a].policies[k])
  /\ \A m \in inflight : m.kind = "policy" => Trusted(m.adv)

------------------------------------------------------------------------------
(***************************************************************************)
(* Paths and messages.                                                     *)
(***************************************************************************)

\* A principal put in front of a path.
LEMMA PutInFront ==
  ASSUME NEW a \in Pids, NEW q \in Seq(Pids)
  PROVE  /\ <<a>> \o q \in Seq(Pids)
         /\ <<a>> \o q # <<>>
         /\ Len(<<a>> \o q) = Len(q) + 1
         /\ Head(<<a>> \o q) = a
         /\ Tail(<<a>> \o q) = q
         /\ (<<a>> \o q)[1] = a
         /\ \A i \in 1..Len(q) : (<<a>> \o q)[i + 1] = q[i]
         /\ \A i \in 1..(Len(q) + 1) : i # 1 => i - 1 \in 1..Len(q) /\ (<<a>> \o q)[i] = q[i - 1]
OBVIOUS

\* The path stays simple if the principal is not on it yet.
LEMMA SimpleInFront ==
  ASSUME NEW a \in Pids, NEW q \in Seq(Pids), Simple(q), ~ Occurs(a, q)
  PROVE  Simple(<<a>> \o q)
<1> DEFINE p == <<a>> \o q
<1>1. /\ Len(p) = Len(q) + 1
      /\ p[1] = a
      /\ \A i \in 1..(Len(q) + 1) : i # 1 => i - 1 \in 1..Len(q) /\ p[i] = q[i - 1]
      /\ Len(q) \in Nat
  BY PutInFront
<1> HIDE DEF p
<1> SUFFICES ASSUME NEW i \in 1..Len(p), NEW j \in 1..Len(p), p[i] = p[j]
             PROVE  i = j
  BY DEF Simple, p
<1>2. CASE i = 1 /\ j # 1
  BY <1>1, <1>2 DEF Occurs
<1>3. CASE i # 1 /\ j = 1
  BY <1>1, <1>3 DEF Occurs
<1>4. CASE i # 1 /\ j # 1
  <2>1. /\ i - 1 \in 1..Len(q) /\ j - 1 \in 1..Len(q)
        /\ p[i] = q[i - 1] /\ p[j] = q[j - 1]
    BY <1>1, <1>4
  <2>2. i - 1 = j - 1
    BY <2>1 DEF Simple
  <2> QED BY <1>1, <2>2
<1> QED BY <1>2, <1>3, <1>4

\* The copy of an advertisement that is passed on.
LEMMA PassedOnRoute ==
  ASSUME NEW r \in RouteAdvertises, NEW a \in Pids
  PROVE  /\ PassedOn(r, a) \in RouteAdvertises
         /\ PassedOn(r, a).route = <<a>> \o r.route
         /\ PassedOn(r, a).advertiser = a
         /\ PassedOn(r, a).dest = r.dest /\ PassedOn(r, a).src = r.src
         /\ PassedOn(r, a).owner = r.owner
<1>1. <<a>> \o r.route \in Seq(Pids)
  BY PutInFront DEF RouteAdvertises
<1> QED BY <1>1 DEF RouteAdvertises, PassedOn

LEMMA PassedOnPolicy ==
  ASSUME NEW p \in PolicyAdvertises, NEW a \in Pids
  PROVE  /\ PassedOn(p, a) \in PolicyAdvertises
         /\ PassedOn(p, a).token = p.token
         /\ PassedOn(p, a).dest = p.dest
         /\ PassedOn(p, a).src = p.src
<1>1. <<a>> \o p.route \in Seq(Pids)
  BY PutInFront DEF PolicyAdvertises
<1> QED BY <1>1 DEF PolicyAdvertises, PassedOn

\* A route message from a to b for a route r that is passed on.
Copy(a, b, r) == [kind |-> "bgp", to |-> b, adv |-> PassedOn(r, a)]

LEMMA RouteMessagesAre ==
  ASSUME NEW a, NEW routes, NEW ps, NEW m \in RouteMessages(a, routes, ps)
  PROVE  \E r \in routes, b \in ps :
           m = Copy(a, b, r) /\ ~ Occurs(b, PassedOn(r, a).route)
BY DEF RouteMessages, RouteTargets, Copy

LEMMA PolicyMessagesAre ==
  ASSUME NEW policies, NEW ps, NEW m \in PolicyMessagesTo(policies, ps)
  PROVE  \E p \in policies, b \in ps :
           m = [kind |-> "policy", to |-> b, adv |-> p] /\ p.owner # NoPid
BY DEF PolicyMessagesTo, PolicyTargets
\* What is on the way after a post.
LEMMA PostedAre ==
  ASSUME NEW candidates, NEW handled, Post(candidates, handled)
  PROVE  inflight' \subseteq inflight \cup candidates
BY DEF Post, Granted

------------------------------------------------------------------------------
(***************************************************************************)
(* A step of the network, as far as the invariants are concerned: SDXes    *)
(* keep their routes and stitches; a route that is new has been sent; the  *)
(* forwarding table follows routes that are kept; a new peer is stitched   *)
(* on both sides; a route that is posted is kept by its sender, who peers  *)
(* with the receiver; and a policy that is posted has been there before.   *)
(***************************************************************************)
Grows ==
  \A a \in Sdxes : am[a].routes \subseteq am'[a].routes /\ stitched[a] \subseteq stitched'[a]

Learns ==
  \A a \in Sdxes : \A r \in am'[a].routes :
    \/ r \in am[a].routes
    \/ \E m \in inflight : m.kind = "bgp" /\ m.to = a /\ m.adv = r

Forwards ==
  \A a \in Sdxes : \A n \in DOMAIN am'[a].fib :
    \/ n \in DOMAIN am[a].fib /\ am'[a].fib[n] = am[a].fib[n]
    \/ \E r \in am'[a].routes : am'[a].fib[n] = r.advertiser

Befriends ==
  \A a, b \in Sdxes : b \in peers'[a] =>
    b \in peers[a] \/ (b \in stitched[a] /\ a \in stitched[b])

Posts ==
  \A m \in inflight' :
    \/ m \in inflight
    \/ m.kind = "policy" /\ (PoliciesTrusted => Trusted(m.adv))
    \/ \E a \in Sdxes : \E r \in am'[a].routes, b \in peers'[a] :
         m = Copy(a, b, r) /\ ~ Occurs(b, PassedOn(r, a).route)

NetStep ==
  TypeInv' /\ CallsStitched' /\ Grows /\ Learns /\ Forwards /\ Befriends /\ Posts

\* Who keeps more backs no less.
LEMMA SoundKept ==
  ASSUME TypeInv, Grows, NEW a \in Sdxes, NEW r, Sound(a, r)
  PROVE  Sound(a, r)'
<1>1. BackedBy(r)'
  <2>1. CASE r.advertiser \in Sdxes
    <3>1. PICK q \in am[r.advertiser].routes :
            /\ q.route = Tail(r.route)
            /\ q.dest = r.dest /\ q.src = r.src /\ q.owner = r.owner
      BY <2>1 DEF Sound, BackedBy
    <3>2. q \in am'[r.advertiser].routes
      BY <2>1, <3>1 DEF Grows
    <3> QED BY <3>1, <3>2 DEF Sound, BackedBy
  <2>2. CASE r.advertiser \notin Sdxes
    BY <2>2 DEF Sound, BackedBy
  <2> QED BY <2>1, <2>2
<1>2. r.advertiser \in stitched'[a]
  BY DEF Sound, Grows
<1> QED BY <1>1, <1>2 DEF Sound

\* A route that an SDX keeps is sound at the peer it is passed on to.
LEMMA CopySound ==
  ASSUME TypeInv', PeersStitched', NEW a \in Sdxes, NEW b \in peers'[a],
         NEW r \in am'[a].routes, Sound(a, r)', ~ Occurs(b, PassedOn(r, a).route)
  PROVE  Sound(b, PassedOn(r, a))'
<1> DEFINE c == PassedOn(r, a)
<1>1. r \in RouteAdvertises /\ a \in Pids /\ b \in Sdxes
  BY SdxAssumption DEF TypeInv, TablesTyped
<1>2. /\ c.route = <<a>> \o r.route /\ c.advertiser = a
      /\ c.dest = r.dest /\ c.src = r.src /\ c.owner = r.owner
  BY <1>1, PassedOnRoute
<1>3. r.route \in Seq(Pids) /\ Simple(r.route) /\ ~ Occurs(a, r.route)
  BY <1>1 DEF Sound, RouteAdvertises
<1> HIDE DEF c
<1>4. Simple(c.route)
  BY <1>1, <1>2, <1>3, SimpleInFront
<1>5. c.route # <<>> /\ Head(c.route) = a /\ Tail(c.route) = r.route
  BY <1>1, <1>2, <1>3, PutInFront
<1>6. BackedBy(c)'
  BY <1>2, <1>5 DEF BackedBy
<1>7. c.advertiser \in stitched'[b]
  BY <1>1, <1>2 DEF PeersStitched
<1> QED BY <1>4, <1>5, <1>6, <1>7 DEF Sound, c

LEMMA NetStepInv ==
  ASSUME NetInv, NetStep
  PROVE  NetInv'
<1>1. TypeInv /\ TypeInv' /\ Grows
  BY DEF NetInv, NetStep
<1>2. PeersStitched'
  <2> SUFFICES ASSUME NEW a \in Sdxes, NEW b \in Sdxes, b \in peers'[a]
               PROVE  b \in stitched'[a] /\ a \in stitched'[b]
    BY DEF PeersStitched
  <2>1. b \in stitched[a] /\ a \in stitched[b]
    BY DEF NetInv, NetStep, PeersStitched, Befriends
  <2> QED BY <1>1, <2>1 DEF Grows
<1>3. ASSUME NEW a \in Sdxes, NEW r \in am'[a].routes
      PROVE  Sound(a, r)'
  <2>1. Sound(a, r)
    BY DEF NetInv, NetStep, RoutesSound, Learns
  <2> QED BY <1>1, <2>1, SoundKept
<1>4. ASSUME NEW m \in inflight', m.kind = "bgp"
      PROVE  Sound(m.to, m.adv)'
  <2>1. CASE m \in inflight
    <3>1. Sound(m.to, m.adv) /\ m.to \in Sdxes
      BY <1>4, <2>1 DEF NetInv, RoutesSound, TypeInv, BgpMessages, PolicyMessages
    <3> QED BY <1>1, <3>1, SoundKept
  <2>2. CASE \E a \in Sdxes : \E r \in am'[a].routes, b \in peers'[a] :
               m = Copy(a, b, r) /\ ~ Occurs(b, PassedOn(r, a).route)
    <3>1. PICK a \in Sdxes : \E r \in am'[a].routes, b \in peers'[a] :
               m = Copy(a, b, r) /\ ~ Occurs(b, PassedOn(r, a).route)
      BY <2>2
    <3>2. PICK r \in am'[a].routes, b \in peers'[a] :
               m = Copy(a, b, r) /\ ~ Occurs(b, PassedOn(r, a).route)
      BY <3>1
    <3>3. Sound(b, PassedOn(r, a))'
      BY <1>1, <1>2, <1>3, <3>2, CopySound
    <3>4. m.to = b /\ m.adv = PassedOn(r, a)
      BY <3>2 DEF Copy
    <3> QED BY <3>3, <3>4 DEF Sound, BackedBy
  <2> QED BY <1>4, <2>1, <2>2 DEF NetStep, Posts
<1>5. RoutesSound'
  BY <1>3, <1>4 DEF RoutesSound
<1>6. FibStitched'
  <2> SUFFICES ASSUME NEW a \in Sdxes, NEW n \in DOMAIN am'[a].fib
               PROVE  am'[a].fib[n] \in stitched'[a]
    BY DEF FibStitched
  <2>1. CASE n \in DOMAIN am[a].fib /\ am'[a].fib[n] = am[a].fib[n]
    BY <1>1, <2>1 DEF NetInv, FibStitched, Grows
  <2>2. CASE \E r \in am'[a].routes : am'[a].fib[n] = r.advertiser
    BY <1>3, <2>2 DEF Sound
  <2> QED BY <2>1, <2>2 DEF NetStep, Forwards
<1> QED BY <1>1, <1>2, <1>5, <1>6 DEF NetInv, NetStep
------------------------------------------------------------------------------
(***************************************************************************)
(* Every action is such a step.                                            *)
(***************************************************************************)

\* What an action does not touch.
LEMMA Untouched ==
  ASSUME NetInv
  PROVE  /\ am' = am => Learns /\ Forwards
         /\ am' = am /\ stitched' = stitched => Grows
         /\ peers' = peers => Befriends
         /\ inflight' \subseteq inflight => Posts
         /\ stitched' = stitched /\ call' = call => CallsStitched'
BY DEF Learns, Forwards, Grows, Befriends, Posts, NetInv, CallsStitched

LEMMA StitchCmdStep ==
  ASSUME NetInv, NEW a \in Sdxes, NEW b \in Sdxes, StitchCmd(a, b)
  PROVE  NetStep
<1>1. call' = [call EXCEPT ![a] = [phase |-> "asking", to |-> b]]
  BY DEF StitchCmd
<1>2. /\ am' = am /\ peers' = peers /\ stitched' = stitched /\ inflight' = inflight
      /\ commands' \subseteq commands
  BY DEF StitchCmd
<1>3. call' \in [Sdxes -> [phase : Called, to : Sdxes \cup {NoPid}]]
  BY <1>1 DEF NetInv, TypeInv, Called, Phases
<1>4. TypeInv'
  BY <1>2, <1>3 DEF NetInv, TypeInv, TablesTyped
<1>5. CallsStitched'
  BY <1>1, <1>2 DEF NetInv, TypeInv, CallsStitched
<1> QED BY <1>2, <1>4, <1>5, Untouched DEF NetStep

LEMMA StitchRequestStep ==
  ASSUME NetInv, NEW a \in Sdxes, NEW b \in Sdxes, StitchRequest(a, b)
  PROVE  NetStep
<1>1. PICK ok \in Answers :
        /\ stitched' = IF ok THEN [stitched EXCEPT ![b] = @ \cup {a}] ELSE stitched
        /\ call' = [call EXCEPT ![a].phase = IF ok THEN "stitched" ELSE "refused"]
  BY DEF StitchRequest
<1>2. /\ am' = am /\ peers' = peers /\ commands' = commands /\ inflight' = inflight
      /\ call[a].to = b /\ call[a].phase = "asking"
  BY DEF StitchRequest
<1>3. /\ call \in [Sdxes -> [phase : Called, to : Sdxes \cup {NoPid}]]
      /\ stitched \in [Sdxes -> SUBSET Pids] /\ a \in Pids
  BY SdxAssumption DEF NetInv, TypeInv
<1>4. /\ call'[a].to = b
      /\ call'[a].phase = IF ok THEN "stitched" ELSE "refused"
      /\ \A c \in Sdxes \ {a} : call'[c] = call[c]
      /\ call' \in [Sdxes -> [phase : Called, to : Sdxes \cup {NoPid}]]
  BY <1>1, <1>2, <1>3 DEF Called, Phases
<1>5. /\ stitched' \in [Sdxes -> SUBSET Pids]
      /\ \A c \in Sdxes : stitched[c] \subseteq stitched'[c]
      /\ ok => a \in stitched'[b]
  BY <1>1, <1>3
<1>6. TypeInv'
  BY <1>2, <1>4, <1>5 DEF NetInv, TypeInv, TablesTyped
<1>7. CallsStitched'
  <2> SUFFICES ASSUME NEW c \in Sdxes
               PROVE  /\ call'[c].phase \in Phases => call'[c].to \in Sdxes
                      /\ call'[c].phase \in {"stitched", "peering", "peered"} =>
                           c \in stitched'[call'[c].to]
                      /\ call'[c].phase \in {"peering", "peered"} =>
                           call'[c].to \in stitched'[c]
    BY DEF CallsStitched
  <2>1. CASE c = a
    BY <1>2, <1>4, <1>5, <2>1
  <2>2. CASE c # a
    BY <1>4, <1>5, <2>2 DEF NetInv, CallsStitched, Phases
  <2> QED BY <2>1, <2>2
<1>8. Grows
  BY <1>2, <1>5 DEF Grows
<1> QED BY <1>2, <1>6, <1>7, <1>8, Untouched DEF NetStep

LEMMA AskToPeerStep ==
  ASSUME NetInv, NEW a \in Sdxes, AskToPeer(a)
  PROVE  NetStep
<1>1. /\ stitched' = [stitched EXCEPT ![a] = @ \cup {call[a].to}]
      /\ call' = [call EXCEPT ![a].phase = "peering"]
      /\ call[a].phase = "stitched"
      /\ am' = am /\ peers' = peers /\ commands' = commands /\ inflight' = inflight
  BY DEF AskToPeer
<1>2. /\ call \in [Sdxes -> [phase : Called, to : Sdxes \cup {NoPid}]]
      /\ stitched \in [Sdxes -> SUBSET Pids]
      /\ call[a].to \in Sdxes /\ call[a].to \in Pids /\ a \in stitched[call[a].to]
  BY <1>1, SdxAssumption DEF NetInv, TypeInv, CallsStitched, Phases
<1>3. /\ call'[a].to = call[a].to /\ call'[a].phase = "peering"
      /\ \A c \in Sdxes \ {a} : call'[c] = call[c]
      /\ call' \in [Sdxes -> [phase : Called, to : Sdxes \cup {NoPid}]]
  BY <1>1, <1>2 DEF Called, Phases
<1>4. /\ stitched' \in [Sdxes -> SUBSET Pids]
      /\ \A c \in Sdxes : stitched[c] \subseteq stitched'[c]
      /\ call[a].to \in stitched'[a]
  BY <1>1, <1>2
<1>5. TypeInv'
  BY <1>1, <1>3, <1>4 DEF NetInv, TypeInv, TablesTyped
<1>6. CallsStitched'
  <2> SUFFICES ASSUME NEW c \in Sdxes
               PROVE  /\ call'[c].phase \in Phases => call'[c].to \in Sdxes
                      /\ call'[c].phase \in {"stitched", "peering", "peered"} =>
                           c \in stitched'[call'[c].to]
                      /\ call'[c].phase \in {"peering", "peered"} =>
                           call'[c].to \in stitched'[c]
    BY DEF CallsStitched
  <2>1. CASE c = a
    BY <1>2, <1>3, <1>4, <2>1
  <2>2. CASE c # a
    BY <1>3, <1>4, <2>2 DEF NetInv, CallsStitched, Phases
  <2> QED BY <2>1, <2>2
<1>7. Grows
  BY <1>1, <1>4 DEF Grows
<1> QED BY <1>1, <1>5, <1>6, <1>7, Untouched DEF NetStep

\* A command that ends.
LEMMA IdleAgain ==
  ASSUME NetInv, NEW a \in Sdxes, call' = [call EXCEPT ![a] = Idle], stitched' = stitched
  PROVE  /\ call' \in [Sdxes -> [phase : Called, to : Sdxes \cup {NoPid}]]
         /\ CallsStitched'
<1>1. call \in [Sdxes -> [phase : Called, to : Sdxes \cup {NoPid}]]
  BY DEF NetInv, TypeInv
<1>2. /\ call'[a].phase = "idle"
      /\ \A c \in Sdxes \ {a} : call'[c] = call[c]
      /\ call' \in [Sdxes -> [phase : Called, to : Sdxes \cup {NoPid}]]
  BY <1>1 DEF Called, Idle
<1> QED BY <1>2 DEF NetInv, CallsStitched, Phases

LEMMA GiveUpStep ==
  ASSUME NetInv, NEW a \in Sdxes, GiveUp(a)
  PROVE  NetStep
<1>1. /\ call' = [call EXCEPT ![a] = Idle]
      /\ am' = am /\ peers' = peers /\ commands' = commands /\ inflight' = inflight
      /\ stitched' = stitched
  BY DEF GiveUp
<1>2. TypeInv' /\ CallsStitched'
  BY <1>1, IdleAgain DEF NetInv, TypeInv, TablesTyped
<1> QED BY <1>1, <1>2, Untouched DEF NetStep
\* The messages of a step that passes on routes of the table and policies.
LEMMA MessageTypes ==
  ASSUME NEW a \in Sdxes, NEW ps \in SUBSET Sdxes
  PROVE  /\ \A routes \in SUBSET RouteAdvertises :
              RouteMessages(a, routes, ps) \subseteq BgpMessages
         /\ \A policies \in SUBSET (PolicyAdvertises \cup {DefaultPolicy}) :
              PolicyMessagesTo(policies, ps) \subseteq PolicyMessages
<1>1. a \in Pids
  BY SdxAssumption
<1>2. ASSUME NEW routes \in SUBSET RouteAdvertises, NEW m \in RouteMessages(a, routes, ps)
      PROVE  m \in BgpMessages
  <2>1. PICK r \in routes, b \in ps : m = Copy(a, b, r)
    BY <1>2, RouteMessagesAre
  <2>2. PassedOn(r, a) \in RouteAdvertises
    BY <1>1, PassedOnRoute
  <2> QED BY <2>1, <2>2 DEF BgpMessages, Copy
<1>3. ASSUME NEW policies \in SUBSET (PolicyAdvertises \cup {DefaultPolicy}),
             NEW m \in PolicyMessagesTo(policies, ps)
      PROVE  m \in PolicyMessages
  <2>1. PICK p \in policies, b \in ps :
          m = [kind |-> "policy", to |-> b, adv |-> p] /\ p.owner # NoPid
    BY <1>3, PolicyMessagesAre
  <2>2. p \in PolicyAdvertises
    BY <2>1 DEF DefaultPolicy
  <2> QED BY <2>1, <2>2 DEF PolicyMessages
<1> QED BY <1>2, <1>3

LEMMA PostStep ==
  ASSUME NetInv, NEW a \in Sdxes, TablesTyped(a)',
         peers' \in [Sdxes -> SUBSET Sdxes], NEW ps \in SUBSET peers'[a],
         NEW routes \in SUBSET am'[a].routes,
         NEW policies \in SUBSET (PolicyAdvertises \cup {DefaultPolicy}),
         PoliciesTrusted => \A p \in policies : Trusted(p),
         NEW handled, Post(RouteMessages(a, routes, ps) \cup PolicyMessagesTo(policies, ps), handled)
  PROVE  /\ inflight' \subseteq BgpMessages \cup PolicyMessages
         /\ Posts
<1>1. inflight' \subseteq
        inflight \cup (RouteMessages(a, routes, ps) \cup PolicyMessagesTo(policies, ps))
  BY PostedAre
<1>2. routes \in SUBSET RouteAdvertises /\ ps \in SUBSET Sdxes
  BY DEF TablesTyped
<1>3. inflight' \subseteq BgpMessages \cup PolicyMessages
  BY <1>1, <1>2, MessageTypes DEF NetInv, TypeInv
<1>4. ASSUME NEW m \in RouteMessages(a, routes, ps)
      PROVE  \E c \in Sdxes : \E r \in am'[c].routes, b \in peers'[c] :
               m = Copy(c, b, r) /\ ~ Occurs(b, PassedOn(r, c).route)
  BY RouteMessagesAre
<1>5. ASSUME NEW m \in PolicyMessagesTo(policies, ps)
      PROVE  m.kind = "policy" /\ (PoliciesTrusted => Trusted(m.adv))
  BY PolicyMessagesAre
<1>6. Posts
  BY <1>1, <1>4, <1>5 DEF Posts
<1> QED BY <1>3, <1>6

\* An SDX tells a peer it is stitched with, new or not, what it has.
LEMMA NewPeerStep ==
  ASSUME NetInv, NEW a \in Sdxes, NEW b \in Sdxes,
         b \in stitched[a], a \in stitched[b],
         NewPeer(a, b), am' = am, stitched' = stitched
  PROVE  /\ peers' \in [Sdxes -> SUBSET Sdxes]
         /\ inflight' \subseteq BgpMessages \cup PolicyMessages
         /\ Befriends
         /\ Posts
<1> DEFINE routes   == {r \in am[a].routes : ~ Occurs(b, r.route)}
           policies == {am[a].policies[k] : k \in DOMAIN am[a].policies}
<1>1. /\ peers' = [peers EXCEPT ![a] = @ \cup {b}]
      /\ Post(RouteMessages(a, routes, {b}) \cup PolicyMessagesTo(policies, {b}), {})
  BY DEF NewPeer
<1>2. /\ peers' \in [Sdxes -> SUBSET Sdxes]
      /\ {b} \in SUBSET peers'[a]
      /\ Befriends
  <2>1. peers \in [Sdxes -> SUBSET Sdxes]
    BY DEF NetInv, TypeInv
  <2> QED BY <1>1, <2>1 DEF Befriends
<1>3. TablesTyped(a)' /\ TablesTyped(a)
  BY DEF NetInv, TypeInv, TablesTyped
<1>4. /\ routes \in SUBSET am'[a].routes
      /\ policies \in SUBSET (PolicyAdvertises \cup {DefaultPolicy})
      /\ PoliciesTrusted => \A p \in policies : Trusted(p)
  BY <1>3 DEF TablesTyped, PoliciesTrusted
<1> HIDE DEF routes, policies
<1> QED BY <1>1, <1>2, <1>3, <1>4, PostStep

LEMMA ServePeerStep ==
  ASSUME NetInv, NEW a \in Sdxes, NEW b \in Sdxes, ServePeer(a, b)
  PROVE  NetStep
<1>1. /\ call[a].phase = "peering" /\ call[a].to = b
      /\ NewPeer(b, a)
      /\ call' = [call EXCEPT ![a].phase = "peered"]
      /\ am' = am /\ stitched' = stitched /\ commands' = commands
  BY DEF ServePeer
<1>2. a \in stitched[b] /\ b \in stitched[a]
  BY <1>1 DEF NetInv, CallsStitched
<1>3. /\ peers' \in [Sdxes -> SUBSET Sdxes]
      /\ inflight' \subseteq BgpMessages \cup PolicyMessages
      /\ Befriends /\ Posts
  BY <1>1, <1>2, NewPeerStep
<1>4. /\ call'[a].to = b /\ call'[a].phase = "peered"
      /\ \A c \in Sdxes \ {a} : call'[c] = call[c]
      /\ call' \in [Sdxes -> [phase : Called, to : Sdxes \cup {NoPid}]]
  <2>1. call \in [Sdxes -> [phase : Called, to : Sdxes \cup {NoPid}]]
    BY DEF NetInv, TypeInv
  <2> QED BY <1>1, <2>1 DEF Called, Phases
<1>5. TypeInv'
  BY <1>1, <1>3, <1>4 DEF NetInv, TypeInv, TablesTyped
<1>6. CallsStitched'
  BY <1>1, <1>2, <1>4 DEF NetInv, CallsStitched
<1> QED BY <1>1, <1>3, <1>5, <1>6, Untouched DEF NetStep

LEMMA FinishPeerStep ==
  ASSUME NetInv, NEW a \in Sdxes, FinishPeer(a)
  PROVE  NetStep
<1>1. /\ call[a].phase = "peered"
      /\ NewPeer(a, call[a].to)
      /\ call' = [call EXCEPT ![a] = Idle]
      /\ am' = am /\ stitched' = stitched /\ commands' = commands
  BY DEF FinishPeer
<1>2. call[a].to \in Sdxes /\ a \in stitched[call[a].to] /\ call[a].to \in stitched[a]
  BY <1>1 DEF NetInv, CallsStitched, Phases
<1>3. /\ peers' \in [Sdxes -> SUBSET Sdxes]
      /\ inflight' \subseteq BgpMessages \cup PolicyMessages
      /\ Befriends /\ Posts
  BY <1>1, <1>2, NewPeerStep
<1>4. TypeInv' /\ CallsStitched'
  BY <1>1, <1>3, IdleAgain DEF NetInv, TypeInv, TablesTyped
<1> QED BY <1>1, <1>3, <1>4, Untouched DEF NetStep

LEMMA MessageGoneStep ==
  ASSUME NetInv, NEW m \in inflight, Refuse(m) \/ Lose(m)
  PROVE  NetStep
<1>1. /\ inflight' \subseteq inflight
      /\ am' = am /\ peers' = peers /\ stitched' = stitched
      /\ commands' = commands /\ call' = call
  BY DEF Refuse, Lose
<1>2. TypeInv'
  BY <1>1 DEF NetInv, TypeInv, TablesTyped
<1> QED BY <1>1, <1>2, Untouched DEF NetStep

\* What a call of the engine of SDX a leaves alone.
LEMMA EngineCall ==
  ASSUME NetInv, NEW a \in Sdxes, NEW new, am' = [am EXCEPT ![a] = new],
         am[a].routes \subseteq new.routes, stitched' = stitched, call' = call
  PROVE  /\ DOMAIN am' = Sdxes
         /\ am'[a] = new
         /\ \A c \in Sdxes \ {a} : am'[c] = am[c]
         /\ Grows
         /\ CallsStitched'
<1>1. DOMAIN am = Sdxes
  BY DEF NetInv, TypeInv
<1>2. /\ DOMAIN am' = Sdxes /\ am'[a] = new
      /\ \A c \in Sdxes \ {a} : am'[c] = am[c]
  BY <1>1
<1> QED BY <1>2, Untouched DEF Grows

LEMMA BgpAdvertiseStep ==
  ASSUME NetInv, NEW m \in inflight, BgpAdvertise(m)
  PROVE  NetStep
<1> DEFINE a == m.to
           r == m.adv
<1>1. m.kind = "bgp" /\ m \in BgpMessages /\ a \in Sdxes /\ r \in RouteAdvertises
  BY DEF BgpAdvertise, NetInv, TypeInv, BgpMessages, PolicyMessages
<1>2. PICK verdict \in Verdicts(a, AdvertiseAsks(am[a], r)) :
        /\ am' = [am EXCEPT ![a] = ReceiveAdvertise(am[a], r, verdict)]
        /\ LET routes == IF ConfigFails(a, am'[a]) THEN {}
                         ELSE AdvertisePropagates(am[a], r, verdict)
           IN  Post(RouteMessages(a, routes, peers[a]), {m})
  BY DEF BgpAdvertise
<1> DEFINE new    == ReceiveAdvertise(am[a], r, verdict)
           keys   == {AdvertiseFibKey(am[a], r, n) : n \in AdvertiseTaken(am[a], r, verdict)}
           routes == IF ConfigFails(a, am'[a]) THEN {}
                     ELSE AdvertisePropagates(am[a], r, verdict)
<1>3. peers' = peers /\ stitched' = stitched /\ commands' = commands /\ call' = call
  BY DEF BgpAdvertise
<1>4. /\ new.routes = am[a].routes \cup {r}
      /\ new.policies = am[a].policies
      /\ DOMAIN new.fib = DOMAIN am[a].fib \cup keys
      /\ \A k \in keys : new.fib[k] = r.advertiser
      /\ \A k \in DOMAIN am[a].fib \ keys : new.fib[k] = am[a].fib[k]
  BY ReceiveAdvertiseTables
<1>5. routes \subseteq {r}
  BY PropagatedRoutes
<1>6. am' = [am EXCEPT ![a] = new] /\ Post(RouteMessages(a, routes, peers[a]), {m})
  BY <1>2
<1> HIDE DEF new, keys, routes, a, r
<1>7. /\ DOMAIN am' = Sdxes /\ am'[a] = new
      /\ \A c \in Sdxes \ {a} : am'[c] = am[c]
      /\ Grows /\ CallsStitched'
  BY <1>1, <1>3, <1>4, <1>6, EngineCall
<1>8. \A c \in Sdxes : TablesTyped(c)'
  <2>1. \A c \in Sdxes : TablesTyped(c)
    BY DEF NetInv, TypeInv
  <2> QED BY <1>1, <1>4, <1>7, <2>1 DEF TablesTyped
<1>9. Learns
  <2>1. m.kind = "bgp" /\ m.to = a /\ m.adv = r
    BY <1>1 DEF a, r
  <2> QED BY <1>4, <1>7, <2>1 DEF Learns
<1>10. Forwards
  BY <1>1, <1>4, <1>7 DEF Forwards
<1>11. inflight' \subseteq BgpMessages \cup PolicyMessages /\ Posts
  <2>1. /\ peers' \in [Sdxes -> SUBSET Sdxes]
        /\ peers[a] \in SUBSET peers'[a]
        /\ routes \in SUBSET am'[a].routes
    BY <1>1, <1>3, <1>4, <1>5, <1>7 DEF NetInv, TypeInv
  <2>2. /\ {} \in SUBSET (PolicyAdvertises \cup {DefaultPolicy})
        /\ Post(RouteMessages(a, routes, peers[a]) \cup PolicyMessagesTo({}, peers[a]), {m})
    <3>1. PolicyMessagesTo({}, peers[a]) = {}
      BY PolicyMessagesAre
    <3> QED BY <1>6, <3>1
  <2> QED BY <1>1, <1>8, <2>1, <2>2, PostStep
<1>12. TypeInv'
  BY <1>3, <1>7, <1>8, <1>11 DEF NetInv, TypeInv
<1> QED BY <1>3, <1>7, <1>9, <1>10, <1>11, <1>12, Untouched DEF NetStep

LEMMA PolicyAdvertiseStep ==
  ASSUME NetInv, NEW m \in inflight, m.kind = "policy", PolicyAdvertise(m)
  PROVE  NetStep
<1> DEFINE a == m.to
           p == m.adv
<1>1. a \in Sdxes /\ p \in PolicyAdvertises /\ PolicyKey(p) \in Rectangles /\ a \in Pids
  BY KeyTypes, SdxAssumption DEF NetInv, TypeInv, BgpMessages, PolicyMessages
<1>2. PICK verdict \in Verdicts(a, {p} \X PolicyRoutes(am[a], p)) :
        \E scan \in PolicyScans(am[a], p, verdict) :
          /\ am' = [am EXCEPT ![a] = ReceiveOutboundPolicy(am[a], p, verdict, scan)]
          /\ Post(RouteMessages(a, PolicyPropagates(am[a], p, verdict, scan), peers[a])
                    \cup PolicyMessagesTo({PassedOn(p, a)}, peers[a]), {m})
  BY DEF PolicyAdvertise
<1>3. PICK scan \in PolicyScans(am[a], p, verdict) :
        /\ am' = [am EXCEPT ![a] = ReceiveOutboundPolicy(am[a], p, verdict, scan)]
        /\ Post(RouteMessages(a, PolicyPropagates(am[a], p, verdict, scan), peers[a])
                  \cup PolicyMessagesTo({PassedOn(p, a)}, peers[a]), {m})
  BY <1>2
<1> DEFINE new    == ReceiveOutboundPolicy(am[a], p, verdict, scan)
           now    == PolicyChosen(am[a], p, verdict, scan)
           entries == PolicyEntries(p, now)
           routes == PolicyPropagates(am[a], p, verdict, scan)
           policies == {PassedOn(p, a)}
<1>4. peers' = peers /\ stitched' = stitched /\ commands' = commands /\ call' = call
  BY DEF PolicyAdvertise
<1>5. /\ new.routes = am[a].routes
      /\ DOMAIN new.policies = DOMAIN am[a].policies \cup {PolicyKey(p)}
      /\ new.policies[PolicyKey(p)] = p
      /\ \A k \in DOMAIN am[a].policies \ {PolicyKey(p)} :
           new.policies[k] = am[a].policies[k]
      /\ DOMAIN new.fib = DOMAIN am[a].fib \cup DOMAIN entries
      /\ \A k \in DOMAIN entries : new.fib[k] = entries[k]
      /\ \A k \in DOMAIN am[a].fib \ DOMAIN entries : new.fib[k] = am[a].fib[k]
  BY ReceiveOutboundPolicyTables
<1>6. routes \subseteq am[a].routes
  BY PropagatedRoutes
<1>7. \A k \in DOMAIN entries : \E q \in am[a].routes : entries[k] = q.advertiser
  <2>1. scan \subseteq am[a].routes
    BY DEF PolicyScans, PolicyRoutes
  <2>2. \A n \in DOMAIN now : now[n] \in am[a].routes
    BY <2>1, PolicyChosenSpec
  <2>3. \A k \in DOMAIN entries : \E n \in DOMAIN now : entries[k] = now[n].advertiser
    BY PolicyEntriesAre
  <2> HIDE DEF now, entries
  <2> QED BY <2>2, <2>3
<1>8. /\ policies \in SUBSET (PolicyAdvertises \cup {DefaultPolicy})
      /\ PoliciesTrusted => \A q \in policies : Trusted(q)
  <2>1. /\ PassedOn(p, a) \in PolicyAdvertises
        /\ PassedOn(p, a).token = p.token
        /\ PassedOn(p, a).dest = p.dest /\ PassedOn(p, a).src = p.src
    BY <1>1, PassedOnPolicy
  <2>2. PoliciesTrusted => Trusted(p)
    BY DEF PoliciesTrusted
  <2>3. PoliciesTrusted => Trusted(PassedOn(p, a))
    BY <2>1, <2>2 DEF Trusted, NormalPolicy, HostPolicy
  <2> QED BY <2>1, <2>3
<1>9. /\ am' = [am EXCEPT ![a] = new]
      /\ Post(RouteMessages(a, routes, peers[a]) \cup PolicyMessagesTo(policies, peers[a]), {m})
  BY <1>3
<1> HIDE DEF new, now, entries, routes, policies, a, p
<1>10. /\ DOMAIN am' = Sdxes /\ am'[a] = new
       /\ \A c \in Sdxes \ {a} : am'[c] = am[c]
       /\ Grows /\ CallsStitched'
  BY <1>1, <1>4, <1>5, <1>9, EngineCall
<1>11. \A c \in Sdxes : TablesTyped(c)'
  <2>1. \A c \in Sdxes : TablesTyped(c)
    BY DEF NetInv, TypeInv
  <2> QED BY <1>1, <1>5, <1>10, <2>1 DEF TablesTyped
<1>12. Learns
  BY <1>5, <1>10 DEF Learns
<1>13. Forwards
  BY <1>1, <1>5, <1>7, <1>10 DEF Forwards
<1>14. inflight' \subseteq BgpMessages \cup PolicyMessages /\ Posts
  <2>1. /\ peers' \in [Sdxes -> SUBSET Sdxes]
        /\ peers[a] \in SUBSET peers'[a]
        /\ routes \in SUBSET am'[a].routes
    BY <1>1, <1>4, <1>5, <1>6, <1>10 DEF NetInv, TypeInv
  <2> QED BY <1>1, <1>8, <1>9, <1>11, <2>1, PostStep
<1>15. TypeInv'
  BY <1>4, <1>10, <1>11, <1>14 DEF NetInv, TypeInv
<1> QED BY <1>4, <1>10, <1>12, <1>13, <1>14, <1>15, Untouched DEF NetStep

------------------------------------------------------------------------------
LEMMA InitNetInv == Init => NetInv
<1> SUFFICES ASSUME Init PROVE NetInv
  OBVIOUS
<1>1. /\ DOMAIN am = Sdxes
      /\ \A a \in Sdxes :
           /\ am[a].routes = {}
           /\ am[a].policies = [k \in {PolicyKey(DefaultPolicy)} |-> DefaultPolicy]
           /\ DOMAIN am[a].fib = {}
  BY DEF Init, InitEngine, EmptyMap
<1>2. /\ peers = [a \in Sdxes |-> {}] /\ stitched = Customers /\ commands = Stitches
      /\ call = [a \in Sdxes |-> Idle] /\ inflight = Offered
  BY DEF Init
<1>3. \A a \in Sdxes : TablesTyped(a)
  BY <1>1, KeyTypes DEF TablesTyped
<1>4. call \in [Sdxes -> [phase : Called, to : Sdxes \cup {NoPid}]] /\ CallsStitched
  BY <1>2 DEF Idle, Called, CallsStitched, Phases
<1>5. stitched \in [Sdxes -> SUBSET Pids]
  BY <1>2, SdxAssumption
<1>6. TypeInv
  BY <1>1, <1>2, <1>3, <1>4, <1>5, OfferedAssumption DEF TypeInv
<1>7. PeersStitched /\ FibStitched
  BY <1>1, <1>2 DEF PeersStitched, FibStitched
<1>8. ASSUME NEW m \in inflight, m.kind = "bgp"
      PROVE  Sound(m.to, m.adv)
  <2> DEFINE c == m.adv.advertiser
  <2>1. m.to \in Sdxes /\ c \in Customers[m.to] /\ m.adv.route = <<c>>
    BY <1>2, <1>8, CustomersAssumption, OfferedAssumption DEF BgpMessages, PolicyMessages
  <2>2. c \in Pids \ Sdxes /\ c # m.to
    BY <2>1, SdxAssumption
  <2> HIDE DEF c
  <2>3. Len(<<c>>) = 1 /\ <<c>>[1] = c /\ Head(<<c>>) = c /\ <<c>> # <<>>
    OBVIOUS
  <2>4. Simple(m.adv.route)
    BY <2>1, <2>3 DEF Simple
  <2>5. ~ Occurs(m.to, m.adv.route)
    BY <2>1, <2>2, <2>3 DEF Occurs
  <2> QED BY <1>2, <2>1, <2>2, <2>3, <2>4, <2>5 DEF Sound, BackedBy, c
<1>9. RoutesSound
  BY <1>1, <1>8 DEF RoutesSound
<1> QED BY <1>4, <1>6, <1>7, <1>9 DEF NetInv

LEMMA NextNetStep ==
  ASSUME NetInv, [Next]_vars
  PROVE  NetStep
<1>1. CASE UNCHANGED vars
  <2>1. TypeInv'
    BY <1>1 DEF vars, NetInv, TypeInv, TablesTyped
  <2> QED BY <1>1, <2>1, Untouched DEF vars, NetStep
<1>2. CASE \E a, b \in Sdxes : StitchCmd(a, b)
  BY <1>2, StitchCmdStep
<1>3. ASSUME NEW a \in Sdxes, Stitching(a) PROVE NetStep
  BY <1>3, StitchRequestStep, ServePeerStep, AskToPeerStep, GiveUpStep,
     FinishPeerStep DEF Stitching
<1>4. ASSUME NEW m \in inflight, Handle(m) \/ Lose(m) PROVE NetStep
  <2>1. PolicyAdvertise(m) => m.kind = "policy"
    BY DEF PolicyAdvertise
  <2> QED BY <1>4, <2>1, MessageGoneStep, BgpAdvertiseStep, PolicyAdvertiseStep
          DEF Handle
<1> QED BY <1>1, <1>2, <1>3, <1>4 DEF Next

LEMMA NextNetInv ==
  ASSUME NetInv, [Next]_vars
  PROVE  NetInv'
BY NextNetStep, NetStepInv

\* The inductive invariant of the network, for any stitches, customers and
\* offered messages, and for every order in which posts arrive or are lost.
THEOREM NetInvariance == Spec => []NetInv
<1>1. NetInv /\ [Next]_vars => NetInv'
  BY NextNetInv
<1> QED BY <1>1, InitNetInv, PTL DEF Spec

\* No SDX keeps or is sent a route through itself or twice through anyone
\* (propagateRouteToPeer, updatePeer).
THEOREM Simplicity == Spec => []PathsSimple
<1>1. NetInv => PathsSimple
  BY DEF NetInv, RoutesSound, Sound, PathsSimple
<1> QED BY <1>1, NetInvariance, PTL

\* A route is backed by the neighbour that sent it, which keeps the rest of the
\* path for the same prefixes (propagateBgpAdvertise).
THEOREM Backing == Spec => []RoutesBacked
<1>1. NetInv => RoutesBacked
  BY DEF NetInv, RoutesSound, Sound, RoutesBacked
<1> QED BY <1>1, NetInvariance, PTL

\* Whoever an SDX forwards to or peers with has been recorded as stitched
\* before, so that configFib finds the network (processStitchCmd).
THEOREM StitchedFirst == Spec => []NeighborsStitched
<1>1. NetInv => NeighborsStitched
  BY DEF NetInv, FibStitched, PeersStitched, NeighborsStitched
<1> QED BY <1>1, NetInvariance, PTL
------------------------------------------------------------------------------
(***************************************************************************)
(* One prefix pair.  Every route is for Pair, SAFE refuses none of them,   *)
(* and so the engine keeps a shortest of the routes it has been told as    *)
(* its choice for Pair.  The match on record for Pair must be there as     *)
(* well: a new route that is not shorter would otherwise replace the       *)
(* choice, and the policy matched must be one the engine still has, or a   *)
(* shorter route would be rejected for its priority.                       *)
(***************************************************************************)
PairRoute(r) ==
  /\ r \in RouteAdvertises
  /\ r.dest = Dest /\ r.src = NoPrefix
  /\ RouteKey(r) = Pair
  /\ r.route # <<>>

\* The key that Pair has in a forwarding table.
PairKey == <<DefaultPrefix, Dest>>

PairMatched(s) ==
  Pair \in DOMAIN s.matches =>
    /\ s.matches[Pair][1] \in DOMAIN s.policies
    /\ Meets(Pair, s.matches[Pair][1])
    /\ Intersect(Pair, s.matches[Pair][1]) = Pair
    /\ s.matches[Pair][2] = Pair

PairChosen(s) ==
  /\ Pair \in DOMAIN s.chosen =>
       /\ Pair \in DOMAIN s.matches
       /\ s.chosen[Pair] \in s.routes
       /\ \A r \in s.routes : Len(s.chosen[Pair].route) <= Len(r.route)
  /\ s.routes # {} => Pair \in DOMAIN s.chosen

\* Traffic is handed to the neighbour that advertised the choice.
FibFollows(s) ==
  PairKey \in DOMAIN s.fib =>
    Pair \in DOMAIN s.chosen /\ s.fib[PairKey] = s.chosen[Pair].advertiser

EngineInv(s) ==
  /\ \A r \in s.routes : PairRoute(r)
  /\ DOMAIN s.policies \subseteq Rectangles
  /\ PolicyKey(DefaultPolicy) \in DOMAIN s.policies
  /\ \A k \in DOMAIN s.policies : Trusted(s.policies[k]) /\ PolicyKey(s.policies[k]) = k
  /\ \A pair \in DOMAIN s.checked : s.checked[pair]
  /\ PairMatched(s)
  /\ PairChosen(s)
  /\ FibFollows(s)

UsedBy(s) == IF Pair \in DOMAIN s.chosen THEN s.chosen[Pair].route ELSE <<>>

\* Pair is a prefix pair that meets the default policy's, in all of itself.
LEMMA PairFacts ==
  /\ Pair \in Rectangles
  /\ PolicyKey(DefaultPolicy) \in Rectangles
  /\ Meets(Pair, PolicyKey(DefaultPolicy))
  /\ Intersect(Pair, PolicyKey(DefaultPolicy)) = Pair
  /\ \A p \in PolicyAdvertises : PolicyKey(p) \in Rectangles
<1> DEFINE d == PrefixRange(Dest)
           D == DefaultRange
<1>1. /\ d \in Ranges /\ D \in Ranges
      /\ PrefixRange(DefaultPrefix) = D
      /\ Covers(D, d) /\ Covers(D, D)
      /\ RangesMeet(D, d) /\ RangesMeet(D, D)
  BY DestAssumption, DefaultIsHost, HostRange, PrefixRangeType, DefaultCovers
<1>2. Pair = [x |-> d, y |-> D] /\ PolicyKey(DefaultPolicy) = [x |-> D, y |-> D]
  BY <1>1 DEF Pair, RectangleOf, PolicyKey, PrefixPairToRectangle, DefaultPolicy
<1> HIDE DEF d, D
<1>3. RangesMeet(d, D) /\ RangesMeet(D, D)
  BY <1>1 DEF RangesMeet
<1>4. MeetOfRanges(d, D) = d /\ MeetOfRanges(D, D) = D
  BY <1>1, MeetOfCovered
<1>5. Pair \in Rectangles /\ PolicyKey(DefaultPolicy) \in Rectangles
  BY <1>1, <1>2 DEF Rectangles
<1>6. Meets(Pair, PolicyKey(DefaultPolicy))
  BY <1>2, <1>3 DEF Meets
<1>7. Intersect(Pair, PolicyKey(DefaultPolicy)) = Pair
  BY <1>2, <1>4 DEF Intersect, RectangleOf
<1> QED BY <1>5, <1>6, <1>7, KeyTypes

\* A pair of prefixes written normally is PairKey if it stands for Pair.
LEMMA PairKeyOnly ==
  /\ PairOf(PairKey) = Pair
  /\ \A c, d \in HostPrefixes :
       Normal(c) /\ Normal(d) /\ PairOf(<<c, d>>) = Pair => <<c, d>> = PairKey
<1>1. PairOf(PairKey) = Pair
  BY DEF PairOf, PairKey, Pair
<1>2. /\ Dest \in HostPrefixes /\ Normal(Dest)
      /\ DefaultPrefix \in HostPrefixes /\ Normal(DefaultPrefix)
  BY DestAssumption, NormalAssumption, DefaultIsHost
  DEF Normal, DefaultPrefix, DefaultRange, RangeOf
<1>3. ASSUME NEW c \in HostPrefixes, NEW d \in HostPrefixes, Normal(c), Normal(d),
             PairOf(<<c, d>>) = Pair
      PROVE  <<c, d>> = PairKey
  <2>1. PrefixRange(d) = PrefixRange(Dest) /\ PrefixRange(c) = PrefixRange(DefaultPrefix)
    BY <1>3 DEF PairOf, Pair, PrefixPairToRectangle, RectangleOf
  <2>2. d = Dest /\ c = DefaultPrefix
    BY <1>2, <1>3, <2>1, NormalDiffer
  <2> QED BY <2>2 DEF PairKey
<1> QED BY <1>1, <1>3

\* So the entry for a route and a policy is that of Pair exactly if they meet in
\* all of it.
LEMMA PairEntry ==
  ASSUME NEW r, PairRoute(r), NEW p, NormalPolicy(p), Meets(Pair, PolicyKey(p)),
         PolicyKey(p) \in Rectangles
  PROVE  /\ FibKey(r, p) = PairKey <=> Intersect(Pair, PolicyKey(p)) = Pair
         /\ FibKey(p, r) = PairKey <=> Intersect(Pair, PolicyKey(p)) = Pair
<1>1. HostRoute(r) /\ HostPolicy(p) /\ RouteKey(r) = Pair /\ SourceOf(r) = DefaultPrefix
  BY DestAssumption DEF PairRoute, HostRoute, NormalPolicy, SourceOf
<1>2. \A c \in {r.dest, p.dest, SourceOf(r), p.src} : c \in HostPrefixes /\ Normal(c)
  BY <1>1, DestAssumption, NormalAssumption, DefaultIsHost
  DEF PairRoute, NormalPolicy, HostPolicy, Normal, DefaultPrefix, DefaultRange, RangeOf
<1>3. /\ PairOf(FibKey(r, p)) = Intersect(Pair, PolicyKey(p))
      /\ PairOf(FibKey(p, r)) = Intersect(PolicyKey(p), Pair)
      /\ \A k \in {FibKey(r, p), FibKey(p, r)} :
           k[2] \in {r.dest, p.dest} /\ k[1] \in {SourceOf(r), p.src} /\ k = <<k[1], k[2]>>
  BY <1>1, FibKeyPair DEF FibKey
<1>4. Intersect(PolicyKey(p), Pair) = Intersect(Pair, PolicyKey(p))
  BY PairFacts, IntersectCommutes
<1>5. ASSUME NEW k \in {FibKey(r, p), FibKey(p, r)}
      PROVE  k = PairKey <=> Intersect(Pair, PolicyKey(p)) = Pair
  <2>1. /\ k[1] \in HostPrefixes /\ Normal(k[1])
        /\ k[2] \in HostPrefixes /\ Normal(k[2])
        /\ k = <<k[1], k[2]>> /\ PairOf(k) = Intersect(Pair, PolicyKey(p))
    BY <1>2, <1>3, <1>4
  <2> QED BY <2>1, PairKeyOnly
<1> QED BY <1>5

\* Nothing has a higher priority than itself.
LEMMA PairNotAbove == InboundAtLeast(Pair, Pair) /\ ~ InboundAbove(Pair, Pair)
BY PairFacts DEF InboundAtLeast, InboundAbove, Rectangles, Ranges

\* A route for Pair is always accepted there, whatever the policies are ...
LEMMA PairAccepted ==
  ASSUME NEW s, EngineInv(s), NEW r, PairRoute(r)
  PROVE  /\ Pair \in AdvertiseAccepted(s, r)
         /\ PolicyFor(s, r, Pair) \in DOMAIN s.policies
         /\ Meets(Pair, PolicyFor(s, r, Pair))
         /\ Intersect(Pair, PolicyFor(s, r, Pair)) = Pair
<1>1. r \in RouteAdvertises /\ RouteKey(r) = Pair /\ DOMAIN s.policies \subseteq Rectangles
  BY DEF PairRoute, EngineInv
<1>2. PolicyKey(DefaultPolicy) \in PoliciesMeeting(s, r) /\ Pair \in AdvertiseMeetings(s, r)
  <2>1. PolicyKey(DefaultPolicy) \in PoliciesMeeting(s, r)
    BY <1>1, PairFacts DEF PoliciesMeeting, EngineInv
  <2> QED BY <1>1, <2>1, PairFacts DEF AdvertiseMeetings
<1> DEFINE pk == PolicyFor(s, r, Pair)
<1>3. /\ pk \in PoliciesMeeting(s, r)
      /\ Intersect(Pair, pk) = Pair
      /\ \A other \in PoliciesMeeting(s, r) :
           Intersect(Pair, other) = Pair => OutboundAtLeast(pk, other)
  BY <1>1, <1>2, PolicyForSpec
<1> HIDE DEF pk
<1>4. pk \in DOMAIN s.policies /\ Meets(Pair, pk)
  BY <1>1, <1>3 DEF PoliciesMeeting
<1>5. Accepts(s, Pair, pk, Pair)
  <2> SUFFICES ASSUME Pair \in DOMAIN s.matches
               PROVE  /\ OutboundAtLeast(pk, s.matches[Pair][1])
                      /\ InboundAtLeast(Pair, s.matches[Pair][2])
    BY DEF Accepts
  <2>1. /\ s.matches[Pair][1] \in DOMAIN s.policies
        /\ Meets(Pair, s.matches[Pair][1])
        /\ Intersect(Pair, s.matches[Pair][1]) = Pair
        /\ s.matches[Pair][2] = Pair
    BY DEF EngineInv, PairMatched
  <2>2. s.matches[Pair][1] \in PoliciesMeeting(s, r)
    BY <1>1, <2>1 DEF PoliciesMeeting
  <2> QED BY <1>3, <2>1, <2>2, PairNotAbove
<1>6. Pair \in AdvertiseAccepted(s, r)
  BY <1>1, <1>2, <1>5 DEF AdvertiseAccepted, pk
<1> QED BY <1>3, <1>4, <1>6 DEF pk

\* ... and chosen if it is the first one or shorter than the one in use.
LEMMA PairTaken ==
  ASSUME NEW s, EngineInv(s), NEW r, PairRoute(r), NEW verdict,
         IsCompliant(s, verdict, s.policies[PolicyFor(s, r, Pair)], r)
  PROVE  Pair \in AdvertiseTaken(s, r, verdict) <=>
           Pair \notin DOMAIN s.chosen \/ Len(r.route) < Len(s.chosen[Pair].route)
<1>1. Pair \in AdvertiseAccepted(s, r) /\ RouteKey(r) = Pair
  BY PairAccepted DEF PairRoute
<1>2. Pair \in DOMAIN s.matches => ~ InboundAbove(RouteKey(r), s.matches[Pair][2])
  BY <1>1, PairNotAbove DEF EngineInv, PairMatched
<1>3. Pair \in DOMAIN s.chosen => Pair \in DOMAIN s.matches
  BY DEF EngineInv, PairChosen
<1> QED BY <1>1, <1>2, <1>3 DEF AdvertiseTaken
\* A call with an advertisement of a route for Pair: the route is known after
\* it, and used if none was or a longer one.
LEMMA AdvertiseForPair ==
  ASSUME NEW s, EngineInv(s), NEW r, PairRoute(r), NEW verdict,
         \A n \in AdvertiseAccepted(s, r) :
           IsCompliant(s, verdict, s.policies[PolicyFor(s, r, n)], r)
  PROVE  LET t == ReceiveAdvertise(s, r, verdict)
         IN  /\ EngineInv(t)
             /\ t.routes = s.routes \cup {r}
             /\ UsedBy(t) = IF UsedBy(s) = <<>> \/ Len(r.route) < Len(UsedBy(s))
                            THEN r.route ELSE UsedBy(s)
<1> DEFINE t   == ReceiveAdvertise(s, r, verdict)
           acc == AdvertiseAccepted(s, r)
           now == AdvertiseTaken(s, r, verdict)
           keys == {AdvertiseFibKey(s, r, n) : n \in now}
<1>1. /\ t.routes = s.routes \cup {r}
      /\ t.policies = s.policies
      /\ DOMAIN t.matches = DOMAIN s.matches \cup acc
      /\ \A n \in acc : t.matches[n] = <<PolicyFor(s, r, n), RouteKey(r)>>
      /\ DOMAIN t.chosen = DOMAIN s.chosen \cup now
      /\ \A n \in now : t.chosen[n] = r
      /\ \A n \in DOMAIN s.chosen \ now : t.chosen[n] = s.chosen[n]
      /\ DOMAIN t.fib = DOMAIN s.fib \cup keys
      /\ \A k \in keys : t.fib[k] = r.advertiser
      /\ \A k \in DOMAIN s.fib \ keys : t.fib[k] = s.fib[k]
  BY ReceiveAdvertiseTables
<1>2. \A pair \in DOMAIN t.checked : t.checked[pair]
  <2>1. \A pair \in DOMAIN s.checked : s.checked[pair]
    BY Zenon DEF EngineInv
  <2> QED BY <2>1, AdvertiseVerdicts, Zenon
<1>3. /\ Pair \in acc
      /\ PolicyFor(s, r, Pair) \in DOMAIN s.policies
      /\ Meets(Pair, PolicyFor(s, r, Pair))
      /\ Intersect(Pair, PolicyFor(s, r, Pair)) = Pair
      /\ RouteKey(r) = Pair /\ r \in RouteAdvertises /\ r.route # <<>>
  BY PairAccepted DEF PairRoute
<1>4. Pair \in now <=> Pair \notin DOMAIN s.chosen \/ Len(r.route) < Len(s.chosen[Pair].route)
  BY <1>3, PairTaken, Zenon
<1>12. PairKey \in keys <=> Pair \in now
  <2> SUFFICES ASSUME NEW n \in now
               PROVE  AdvertiseFibKey(s, r, n) = PairKey <=> n = Pair
    OBVIOUS
  <2> DEFINE pk == PolicyFor(s, r, n)
             p  == s.policies[pk]
  <2>1. /\ pk \in DOMAIN s.policies /\ pk \in Rectangles
        /\ Meets(Pair, pk) /\ Intersect(Pair, pk) = n
    BY <1>3, PolicyForSpec DEF AdvertiseTaken, AdvertiseAccepted, EngineInv, PoliciesMeeting
  <2>2. NormalPolicy(p) /\ PolicyKey(p) = pk
    BY <2>1 DEF EngineInv, Trusted
  <2> HIDE DEF pk, p
  <2>3. AdvertiseFibKey(s, r, n) = FibKey(r, p)
    BY DEF AdvertiseFibKey, p, pk
  <2> QED BY <2>1, <2>2, <2>3, PairEntry
<1> HIDE DEF t, acc, now, keys
<1>5. PairMatched(t) /\ Pair \in DOMAIN t.matches
  BY <1>1, <1>3 DEF PairMatched
<1>6. /\ \A q \in t.routes : PairRoute(q) /\ Len(q.route) \in Nat
      /\ \A q \in s.routes : q \in t.routes
  BY <1>1 DEF EngineInv, PairRoute, RouteAdvertises
<1>7. /\ Pair \in DOMAIN s.chosen =>
           /\ s.chosen[Pair] \in s.routes
           /\ \A q \in s.routes : Len(s.chosen[Pair].route) <= Len(q.route)
      /\ s.routes # {} => Pair \in DOMAIN s.chosen
  BY DEF EngineInv, PairChosen
<1>8. /\ Pair \in DOMAIN t.chosen
      /\ t.chosen[Pair] = IF Pair \in now THEN r ELSE s.chosen[Pair]
  BY <1>1, <1>4
<1>9. PairChosen(t)
  <2>1. CASE Pair \in now
    <3>1. ASSUME NEW q \in s.routes PROVE Len(r.route) <= Len(q.route)
      <4>1. /\ Pair \in DOMAIN s.chosen /\ Len(r.route) < Len(s.chosen[Pair].route)
            /\ Len(s.chosen[Pair].route) <= Len(q.route)
            /\ s.chosen[Pair] \in s.routes
        BY <1>4, <1>7, <2>1
      <4>2. Len(r.route) \in Nat /\ Len(q.route) \in Nat /\ Len(s.chosen[Pair].route) \in Nat
        BY <1>1, <1>6, <4>1
      <4> QED BY <4>1, <4>2
    <3>2. Len(r.route) \in Nat
      BY <1>1, <1>6
    <3> QED BY <1>1, <1>5, <1>8, <2>1, <3>1, <3>2 DEF PairChosen
  <2>2. CASE Pair \notin now
    <3>1. /\ Pair \in DOMAIN s.chosen /\ s.chosen[Pair] \in s.routes
          /\ ~ (Len(r.route) < Len(s.chosen[Pair].route))
      BY <1>4, <1>7, <2>2
    <3>2. Len(r.route) \in Nat /\ Len(s.chosen[Pair].route) \in Nat
      BY <1>1, <1>6, <3>1
    <3>3. Len(s.chosen[Pair].route) <= Len(r.route)
      BY <3>1, <3>2
    <3> QED BY <1>1, <1>5, <1>7, <1>8, <2>2, <3>1, <3>3 DEF PairChosen
  <2> QED BY <2>1, <2>2
<1>10. EngineInv(t)
  <2>1. /\ DOMAIN s.policies \subseteq Rectangles
        /\ PolicyKey(DefaultPolicy) \in DOMAIN s.policies
        /\ \A k \in DOMAIN s.policies : Trusted(s.policies[k]) /\ PolicyKey(s.policies[k]) = k
    BY DEF EngineInv
  <2>2. FibFollows(t)
    BY <1>1, <1>12 DEF EngineInv, FibFollows
  <2> QED BY <1>1, <1>2, <1>5, <1>6, <1>9, <2>1, <2>2, Zenon DEF EngineInv
<1>11. UsedBy(t) = IF UsedBy(s) = <<>> \/ Len(r.route) < Len(UsedBy(s))
                   THEN r.route ELSE UsedBy(s)
  <2>1. Pair \in DOMAIN s.chosen => UsedBy(s) = s.chosen[Pair].route /\ UsedBy(s) # <<>>
    BY <1>6, <1>7 DEF UsedBy, PairRoute
  <2>2. Pair \notin DOMAIN s.chosen => UsedBy(s) = <<>>
    BY DEF UsedBy
  <2> QED BY <1>4, <1>8, <2>1, <2>2 DEF UsedBy
<1> QED BY <1>1, <1>10, <1>11 DEF t

\* The keys of the routes are Pair at most, and so is the key looked up.
LEMMA PairKeys ==
  ASSUME NEW s, EngineInv(s), NEW p \in PolicyAdvertises,
         Pair \in PolicyAccepted(s, p)
  PROVE  /\ RouteKeyFor(s, p, Pair) = Pair
         /\ PolicyRoutes(s, p) = s.routes
         /\ s.routes # {}
         /\ PolicyKey(p) \in Rectangles
         /\ Meets(Pair, PolicyKey(p))
         /\ Intersect(Pair, PolicyKey(p)) = Pair
<1>1. \A r \in s.routes : r \in RouteAdvertises /\ RouteKey(r) = Pair
  BY DEF EngineInv, PairRoute
<1>2. Pair \in PolicyMeetings(s, p)
  BY DEF PolicyAccepted
<1> DEFINE rk == RouteKeyFor(s, p, Pair)
<1>3. rk \in RouteKeysMeeting(s, p) /\ Intersect(PolicyKey(p), rk) = Pair
  BY <1>1, <1>2, RouteKeyForSpec
<1> HIDE DEF rk
<1>4. rk = Pair /\ Meets(PolicyKey(p), rk) /\ s.routes # {}
  BY <1>1, <1>3 DEF RouteKeysMeeting, RouteKeys
<1>5. PolicyKey(p) \in Rectangles /\ Pair \in Rectangles
  BY PairFacts
<1>6. Meets(Pair, PolicyKey(p)) /\ Intersect(Pair, PolicyKey(p)) = Pair
  BY <1>3, <1>4, <1>5, IntersectCommutes
<1>7. PolicyRoutes(s, p) = s.routes
  BY <1>1, <1>4 DEF PolicyRoutes, rk
<1> QED BY <1>4, <1>5, <1>6, <1>7 DEF rk

\* A loop over routes all of which pass ends at the first one, a shortest.
LEMMA PairScan ==
  ASSUME NEW s, EngineInv(s), NEW p \in PolicyAdvertises, NEW verdict,
         NEW scan \in PolicyScans(s, p, verdict),
         \A r \in scan : IsCompliant(s, verdict, p, r),
         Pair \in PolicyAccepted(s, p)
  PROVE  \E first \in s.routes :
           /\ Passed(s, p, verdict, scan, Pair) = {first}
           /\ \A r \in s.routes : Len(first.route) <= Len(r.route)
<1> DEFINE ok(r) == IsCompliant(s, verdict, p, r)
<1>1. /\ scan \subseteq PolicyRoutes(s, p)
      /\ \A q \in PolicyRoutes(s, p) \ scan :
           \E r \in scan :
             RouteKey(r) = RouteKey(q) /\ ok(r) /\ Len(r.route) <= Len(q.route)
      /\ \A q, r \in scan :
           RouteKey(r) = RouteKey(q) /\ ok(r) =>
             Len(q.route) <= Len(r.route) /\ (ok(q) => q = r)
  BY Zenon DEF PolicyScans
<1>2. \A r \in scan : ok(r)
  BY Zenon
<1> HIDE DEF ok
<1>3. /\ PolicyRoutes(s, p) = s.routes /\ s.routes # {}
      /\ RouteKeyFor(s, p, Pair) = Pair
      /\ \A r \in s.routes : RouteKey(r) = Pair /\ Len(r.route) \in Nat
  BY PairKeys DEF EngineInv, PairRoute, RouteAdvertises
<1>4. PICK first \in scan : TRUE
  BY <1>1, <1>3
<1>5. \A r \in scan : r = first
  BY <1>1, <1>2, <1>3
<1>6. \A r \in s.routes : Len(first.route) <= Len(r.route)
  BY <1>1, <1>3, <1>5
<1>7. Passed(s, p, verdict, scan, Pair) = {first}
  <2>1. Passed(s, p, verdict, scan, Pair) = {r \in scan : RouteKey(r) = Pair /\ ok(r)}
    BY <1>3, Zenon DEF Passed, ok
  <2> QED BY <1>1, <1>2, <1>3, <1>5, <2>1
<1> QED BY <1>1, <1>3, <1>6, <1>7

\* A call with a policy: the routes stay, and if the choice for Pair changes it
\* is to another one of the shortest.
LEMMA PolicyForPair ==
  ASSUME NEW s, EngineInv(s), NEW p \in PolicyAdvertises, Trusted(p), NEW verdict,
         NEW scan \in PolicyScans(s, p, verdict),
         \A r \in scan : IsCompliant(s, verdict, p, r)
  PROVE  LET t == ReceiveOutboundPolicy(s, p, verdict, scan)
         IN  /\ EngineInv(t)
             /\ t.routes = s.routes
             /\ \/ UsedBy(t) = UsedBy(s)
                \/ \E r \in s.routes :
                     UsedBy(t) = r.route /\ Len(r.route) = Len(UsedBy(s))
<1> DEFINE t   == ReceiveOutboundPolicy(s, p, verdict, scan)
           acc == PolicyAccepted(s, p)
           now == PolicyChosen(s, p, verdict, scan)
           entries == PolicyEntries(p, now)
<1>1. /\ t.routes = s.routes
      /\ DOMAIN t.policies = DOMAIN s.policies \cup {PolicyKey(p)}
      /\ t.policies[PolicyKey(p)] = p
      /\ \A k \in DOMAIN s.policies \ {PolicyKey(p)} : t.policies[k] = s.policies[k]
      /\ DOMAIN t.matches = DOMAIN s.matches \cup acc
      /\ \A n \in acc : t.matches[n] = <<PolicyKey(p), RouteKeyFor(s, p, n)>>
      /\ \A n \in DOMAIN s.matches \ acc : t.matches[n] = s.matches[n]
      /\ DOMAIN t.chosen = DOMAIN s.chosen \cup DOMAIN now
      /\ \A n \in DOMAIN now : t.chosen[n] = now[n]
      /\ \A n \in DOMAIN s.chosen \ DOMAIN now : t.chosen[n] = s.chosen[n]
      /\ DOMAIN t.fib = DOMAIN s.fib \cup DOMAIN entries
      /\ \A k \in DOMAIN entries : t.fib[k] = entries[k]
      /\ \A k \in DOMAIN s.fib \ DOMAIN entries : t.fib[k] = s.fib[k]
  BY ReceiveOutboundPolicyTables
<1>2. \A pair \in DOMAIN t.checked : t.checked[pair]
  <2>1. \A pair \in DOMAIN s.checked : s.checked[pair]
    BY Zenon DEF EngineInv
  <2> QED BY <2>1, PolicyVerdicts, Zenon
<1>3. Pair \in DOMAIN now => Pair \in acc
  BY PolicyChosenSpec
<1>4. Pair \in acc =>
        /\ Pair \in DOMAIN now
        /\ now[Pair] \in s.routes
        /\ \A r \in s.routes : Len(now[Pair].route) <= Len(r.route)
  <2> SUFFICES ASSUME Pair \in acc
               PROVE  /\ Pair \in DOMAIN now
                      /\ now[Pair] \in s.routes
                      /\ \A r \in s.routes : Len(now[Pair].route) <= Len(r.route)
    OBVIOUS
  <2>1. PICK first \in s.routes :
          /\ Passed(s, p, verdict, scan, Pair) = {first}
          /\ \A r \in s.routes : Len(first.route) <= Len(r.route)
    BY PairScan, Zenon
  <2>2. Pair \in DOMAIN now /\ now[Pair] \in Passed(s, p, verdict, scan, Pair)
    BY <2>1 DEF PolicyChosen
  <2> QED BY <2>1, <2>2
<1>5. /\ PolicyKey(p) \in Rectangles
      /\ Pair \in acc =>
           /\ RouteKeyFor(s, p, Pair) = Pair
           /\ Meets(Pair, PolicyKey(p))
           /\ Intersect(Pair, PolicyKey(p)) = Pair
  BY PairFacts, PairKeys
<1>11. \A n \in DOMAIN now : FibKey(p, now[n]) = PairKey <=> n = Pair
  <2> SUFFICES ASSUME NEW n \in DOMAIN now
               PROVE  FibKey(p, now[n]) = PairKey <=> n = Pair
    OBVIOUS
  <2>1. n \in acc /\ now[n] \in scan /\ RouteKey(now[n]) = RouteKeyFor(s, p, n)
    BY PolicyChosenSpec
  <2>2. now[n] \in s.routes /\ PairRoute(now[n])
    BY <2>1 DEF PolicyScans, PolicyRoutes, EngineInv
  <2>3. s.routes \subseteq RouteAdvertises /\ n \in PolicyMeetings(s, p)
    BY <2>1 DEF EngineInv, PairRoute, PolicyAccepted
  <2>4. /\ RouteKeyFor(s, p, n) \in RouteKeysMeeting(s, p)
        /\ Intersect(PolicyKey(p), RouteKeyFor(s, p, n)) = n
    BY <2>3, RouteKeyForSpec
  <2>5. Meets(PolicyKey(p), Pair) /\ Intersect(PolicyKey(p), Pair) = n
    BY <2>1, <2>2, <2>4 DEF RouteKeysMeeting, PairRoute
  <2>6. Meets(Pair, PolicyKey(p)) /\ Intersect(Pair, PolicyKey(p)) = n
    BY <1>5, <2>5, PairFacts, IntersectCommutes
  <2>7. NormalPolicy(p)
    BY DEF Trusted
  <2> QED BY <1>5, <2>2, <2>6, <2>7, PairEntry
<1>12. /\ PairKey \in DOMAIN entries <=> Pair \in DOMAIN now
       /\ PairKey \in DOMAIN entries => entries[PairKey] = now[Pair].advertiser
  <2>1. /\ \A key \in DOMAIN entries :
             \E n \in DOMAIN now : FibKey(p, now[n]) = key /\ entries[key] = now[n].advertiser
        /\ \A n \in DOMAIN now : FibKey(p, now[n]) \in DOMAIN entries
    BY PolicyEntriesAre
  <2> HIDE DEF now, entries
  <2> QED BY <1>11, <2>1
<1> HIDE DEF t, acc, now, entries
<1>6. /\ \A r \in s.routes : PairRoute(r) /\ Len(r.route) \in Nat
      /\ DOMAIN s.policies \subseteq Rectangles
      /\ PolicyKey(DefaultPolicy) \in DOMAIN s.policies
      /\ \A k \in DOMAIN s.policies : Trusted(s.policies[k]) /\ PolicyKey(s.policies[k]) = k
      /\ PairMatched(s) /\ PairChosen(s)
  BY DEF EngineInv, PairRoute, RouteAdvertises
<1>7. PairMatched(t)
  <2>1. CASE Pair \in acc
    BY <1>1, <1>5, <2>1 DEF PairMatched
  <2>2. CASE Pair \notin acc
    BY <1>1, <1>6, <2>2 DEF PairMatched
  <2> QED BY <2>1, <2>2
<1>8. PairChosen(t)
  <2>1. CASE Pair \in acc
    BY <1>1, <1>4, <2>1 DEF PairChosen
  <2>2. CASE Pair \notin acc
    BY <1>1, <1>3, <1>6, <2>2 DEF PairChosen
  <2> QED BY <2>1, <2>2
<1>9. EngineInv(t)
  <2>1. \A k \in DOMAIN t.policies : Trusted(t.policies[k]) /\ PolicyKey(t.policies[k]) = k
    BY <1>1, <1>6
  <2>2. FibFollows(t)
    BY <1>1, <1>12 DEF EngineInv, FibFollows
  <2> QED BY <1>1, <1>2, <1>5, <1>6, <1>7, <1>8, <2>1, <2>2, Zenon DEF EngineInv
<1>10. \/ UsedBy(t) = UsedBy(s)
       \/ \E r \in s.routes : UsedBy(t) = r.route /\ Len(r.route) = Len(UsedBy(s))
  <2>1. CASE Pair \in acc
    <3>1. UsedBy(t) = now[Pair].route
      BY <1>1, <1>4, <2>1 DEF UsedBy
    <3>2. /\ Pair \in DOMAIN s.chosen /\ s.chosen[Pair] \in s.routes
          /\ \A r \in s.routes : Len(s.chosen[Pair].route) <= Len(r.route)
          /\ UsedBy(s) = s.chosen[Pair].route
      BY <1>4, <1>6, <2>1 DEF PairChosen, UsedBy
    <3>3. Len(now[Pair].route) = Len(s.chosen[Pair].route)
      BY <1>4, <1>6, <2>1, <3>2
    <3> QED BY <1>4, <2>1, <3>1, <3>2, <3>3
  <2>2. CASE Pair \notin acc
    BY <1>1, <1>3, <2>2 DEF UsedBy
  <2> QED BY <2>1, <2>2
<1> QED BY <1>1, <1>9, <1>10 DEF t

------------------------------------------------------------------------------
(***************************************************************************)
(* The invariant behind the refinement: every engine is in such a state,   *)
(* and every route that is kept or on the way is one for Pair that has     *)
(* started at Origin.                                                      *)
(***************************************************************************)
Shared(r) ==
  /\ r.dest = Dest /\ r.src = NoPrefix /\ r.owner = Origin
  /\ r.advertiser \in Sdxes \/ r.route = <<Origin>>

RoutesShared ==
  /\ \A a \in Sdxes : \A r \in am[a].routes : Shared(r)
  /\ \A m \in inflight : m.kind = "bgp" => Shared(m.adv)

RoutingInv ==
  /\ NetInv
  /\ PoliciesTrusted
  /\ RoutesShared
  /\ \A a \in Sdxes : EngineInv(am[a])

LEMMA SharedForPair ==
  ASSUME NEW r \in RouteAdvertises, Shared(r), r.route # <<>>
  PROVE  PairRoute(r)
BY DEF Shared, PairRoute, RouteKey, Pair

\* The copy that an SDX passes on is shared, too.
LEMMA SharedCopy ==
  ASSUME NEW r \in RouteAdvertises, NEW a \in Sdxes, Shared(r)
  PROVE  Shared(PassedOn(r, a))
<1>1. a \in Pids
  BY SdxAssumption
<1> QED BY <1>1, PassedOnRoute DEF Shared

\* SAFE finds a trusted policy's pairs compliant, now or on record.
LEMMA TrustedCompliant ==
  ASSUME NEW a, NEW pairs, NEW verdict \in Verdicts(a, pairs),
         NEW p, NEW r, <<p, r>> \in pairs, Trusted(p),
         \A pair \in DOMAIN am[a].checked : am[a].checked[pair]
  PROVE  IsCompliant(am[a], verdict, p, r)
<1>1. CASE <<p, r>> \in DOMAIN am[a].checked
  BY <1>1, Zenon DEF IsCompliant
<1>2. CASE <<p, r>> \notin DOMAIN am[a].checked
  <2>1. CASE p.token = NoToken
    BY <1>2, <2>1, Zenon DEF IsCompliant
  <2>2. CASE Answers = {TRUE}
    <3>1. verdict[<<p, r>>] \in Answers
      BY <1>2, Zenon DEF Verdicts
    <3>2. verdict[<<p, r>>] = TRUE
      BY <2>2, <3>1, Zenon
    <3> QED BY <1>2, <3>2, Zenon DEF IsCompliant
  <2> QED BY <2>1, <2>2, Zenon DEF Trusted
<1> QED BY <1>1, <1>2, Zenon

\* SAFE finds every accepted match of a route compliant, and every route that a
\* policy is tried with.
LEMMA AdvertiseCompliant ==
  ASSUME NEW a, EngineInv(am[a]), NEW r \in RouteAdvertises, RouteKey(r) = Pair,
         NEW verdict \in Verdicts(a, AdvertiseAsks(am[a], r)),
         NEW n \in AdvertiseAccepted(am[a], r)
  PROVE  IsCompliant(am[a], verdict, am[a].policies[PolicyFor(am[a], r, n)], r)
<1> DEFINE p == am[a].policies[PolicyFor(am[a], r, n)]
<1>1. PolicyFor(am[a], r, n) \in DOMAIN am[a].policies
  BY PolicyForSpec DEF AdvertiseAccepted, EngineInv, PoliciesMeeting
<1>2. Trusted(p)
  BY <1>1 DEF EngineInv
<1>3. <<p, r>> \in AdvertiseAsks(am[a], r)
  BY DEF AdvertiseAsks
<1>4. \A pair \in DOMAIN am[a].checked : am[a].checked[pair]
  BY Zenon DEF EngineInv
<1> QED BY <1>2, <1>3, <1>4, TrustedCompliant, Zenon

LEMMA PolicyCompliant ==
  ASSUME NEW a, EngineInv(am[a]), NEW p, Trusted(p),
         NEW verdict \in Verdicts(a, {p} \X PolicyRoutes(am[a], p)),
         NEW scan \in PolicyScans(am[a], p, verdict), NEW r \in scan
  PROVE  IsCompliant(am[a], verdict, p, r)
<1>1. <<p, r>> \in {p} \X PolicyRoutes(am[a], p)
  BY DEF PolicyScans
<1>2. \A pair \in DOMAIN am[a].checked : am[a].checked[pair]
  BY Zenon DEF EngineInv
<1> QED BY <1>1, <1>2, TrustedCompliant, Zenon

\* Messages and engines after a step in which the engines are all right.
LEMMA RoutingInvStep ==
  ASSUME RoutingInv, NetInv', NetStep, \A a \in Sdxes : EngineInv(am'[a])
  PROVE  RoutingInv'
<1>1. \A a \in Sdxes : \A r \in am'[a].routes : Shared(r)
  <2> SUFFICES ASSUME NEW a \in Sdxes, NEW r \in am'[a].routes PROVE Shared(r)
    OBVIOUS
  <2>1. \/ r \in am[a].routes
        \/ \E m \in inflight : m.kind = "bgp" /\ m.to = a /\ m.adv = r
    BY DEF NetStep, Learns
  <2> QED BY <2>1 DEF RoutingInv, RoutesShared
<1>2. ASSUME NEW m \in inflight', m.kind = "bgp" PROVE Shared(m.adv)
  <2>1. CASE m \in inflight
    BY <1>2, <2>1 DEF RoutingInv, RoutesShared
  <2>2. CASE \E a \in Sdxes : \E r \in am'[a].routes, b \in peers'[a] : m = Copy(a, b, r)
    <3>1. PICK a \in Sdxes : \E r \in am'[a].routes : m.adv = PassedOn(r, a)
      BY <2>2 DEF Copy
    <3>2. PICK r \in am'[a].routes : m.adv = PassedOn(r, a)
      BY <3>1
    <3>3. r \in RouteAdvertises /\ Shared(r)
      BY <1>1 DEF NetInv, TypeInv, TablesTyped
    <3> QED BY <3>2, <3>3, SharedCopy
  <2> QED BY <1>2, <2>1, <2>2 DEF NetStep, Posts
<1>3. RoutesShared'
  <2>1. /\ \A a \in Sdxes : \A r \in am'[a].routes : Shared(r)'
        /\ \A m \in inflight' : m.kind = "bgp" => Shared(m.adv)'
    BY <1>1, <1>2 DEF Shared
  <2> QED BY <2>1 DEF RoutesShared
<1>4. ASSUME NEW m \in inflight', m.kind = "policy" PROVE Trusted(m.adv)
  BY <1>4 DEF RoutingInv, PoliciesTrusted, NetStep, Posts, Copy
<1>5. PoliciesTrusted'
  BY <1>4 DEF PoliciesTrusted, EngineInv
<1> QED BY <1>3, <1>5 DEF RoutingInv

------------------------------------------------------------------------------
(***************************************************************************)
(* The refinement.                                                         *)
(***************************************************************************)

\* A route that is sound and shared is a path that could be learnt.
LEMMA SoundLearnable ==
  ASSUME TypeInv, NEW a \in Sdxes, NEW r \in RouteAdvertises, Sound(a, r), Shared(r)
  PROVE  r.route \in PV!Learnable(a)
<1>1. CASE r.advertiser \in Sdxes
  <2> DEFINE b == r.advertiser
  <2>1. PICK q \in am[b].routes : q.route = Tail(r.route)
    BY <1>1 DEF Sound, BackedBy
  <2>2. r.route \in Seq(Pids) /\ r.route # <<>> /\ b = Head(r.route)
    BY DEF RouteAdvertises, Sound, BackedBy
  <2>3. r.route = <<b>> \o q.route
    BY <2>1, <2>2
  <2>4. q.route \in Known[b] /\ b \in Sdxes
    BY <1>1, <2>1 DEF Known
  <2>5. ~ PV!Occurs(a, <<b>> \o q.route)
    BY <2>3 DEF Sound, Occurs, PV!Occurs
  <2> HIDE DEF b
  <2>6. r.route \in {<<b>> \o x : x \in {y \in Known[b] : ~ PV!Occurs(a, <<b>> \o y)}}
    BY <2>3, <2>4, <2>5
  <2> QED BY <2>4, <2>6 DEF PV!Learnable
<1>2. CASE r.advertiser \notin Sdxes
  BY <1>2 DEF Shared, PV!Learnable
<1> QED BY <1>1, <1>2

\* The tables of the other engines stay.
LEMMA OneEngine ==
  ASSUME DOMAIN am = Sdxes, NEW a \in Sdxes, NEW new, am' = [am EXCEPT ![a] = new]
  PROVE  /\ Known' = [Known EXCEPT ![a] = {r.route : r \in new.routes}]
         /\ Used' = [Used EXCEPT ![a] = UsedBy(new)]
         /\ Known[a] = {r.route : r \in am[a].routes}
         /\ Used[a] = UsedBy(am[a])
         /\ \A c \in Sdxes : am'[c] = IF c = a THEN new ELSE am[c]
BY DEF Known, Used, UsedBy

LEMMA BgpAdvertiseLearns ==
  ASSUME RoutingInv, NEW m \in inflight, BgpAdvertise(m)
  PROVE  /\ PV!Next
         /\ \A a \in Sdxes : EngineInv(am'[a])
<1> DEFINE a == m.to
           r == m.adv
<1>1. m.kind = "bgp" /\ a \in Sdxes /\ r \in RouteAdvertises
  BY DEF BgpAdvertise, RoutingInv, NetInv, TypeInv, BgpMessages, PolicyMessages
<1>2. PICK verdict \in Verdicts(a, AdvertiseAsks(am[a], r)) :
        am' = [am EXCEPT ![a] = ReceiveAdvertise(am[a], r, verdict)]
  BY DEF BgpAdvertise
<1> DEFINE new == ReceiveAdvertise(am[a], r, verdict)
<1>3. EngineInv(am[a]) /\ Sound(a, r) /\ Shared(r) /\ TypeInv /\ DOMAIN am = Sdxes
  BY <1>1 DEF RoutingInv, RoutesShared, NetInv, RoutesSound, TypeInv
<1>4. PairRoute(r)
  BY <1>1, <1>3, SharedForPair DEF Sound
<1>5. \A n \in AdvertiseAccepted(am[a], r) :
        IsCompliant(am[a], verdict, am[a].policies[PolicyFor(am[a], r, n)], r)
  BY <1>1, <1>3, <1>4, AdvertiseCompliant DEF PairRoute
<1>6. /\ EngineInv(new)
      /\ new.routes = am[a].routes \cup {r}
      /\ UsedBy(new) = IF UsedBy(am[a]) = <<>> \/ Len(r.route) < Len(UsedBy(am[a]))
                       THEN r.route ELSE UsedBy(am[a])
  BY <1>3, <1>4, <1>5, AdvertiseForPair, Zenon
<1>7. r.route \in PV!Learnable(a)
  BY <1>1, <1>3, SoundLearnable
<1>8. am' = [am EXCEPT ![a] = new]
  BY <1>2
<1> HIDE DEF new, a, r
<1>9. /\ am' = [am EXCEPT ![a] = new]
      /\ Known' = [Known EXCEPT ![a] = {q.route : q \in new.routes}]
      /\ Used' = [Used EXCEPT ![a] = UsedBy(new)]
      /\ Known[a] = {q.route : q \in am[a].routes}
      /\ Used[a] = UsedBy(am[a])
      /\ \A c \in Sdxes : am'[c] = IF c = a THEN new ELSE am[c]
  BY <1>1, <1>3, <1>8, OneEngine
<1>10. PV!Learn(a, r.route)
  <2>1. {q.route : q \in new.routes} = Known[a] \cup {r.route}
    BY <1>6, <1>9
  <2>2. UsedBy(new) = IF Used[a] = <<>> \/ Len(r.route) < Len(Used[a])
                      THEN r.route ELSE Used[a]
    BY <1>6, <1>9
  <2>3. Used = [Used EXCEPT ![a] = Used[a]]
    BY <1>1 DEF Used
  <2> QED BY <1>9, <2>1, <2>2, <2>3 DEF PV!Learn
<1>11. \A c \in Sdxes : EngineInv(am'[c])
  BY <1>6, <1>9, Zenon DEF RoutingInv
<1> QED BY <1>1, <1>7, <1>10, <1>11 DEF PV!Next

LEMMA PolicyAdvertiseReselects ==
  ASSUME RoutingInv, NEW m \in inflight, m.kind = "policy", PolicyAdvertise(m)
  PROVE  /\ [PV!Next]_(PV!vars)
         /\ \A a \in Sdxes : EngineInv(am'[a])
<1> DEFINE a == m.to
           p == m.adv
<1>1. a \in Sdxes /\ p \in PolicyAdvertises
  BY DEF RoutingInv, NetInv, TypeInv, BgpMessages, PolicyMessages
<1>2. PICK verdict \in Verdicts(a, {p} \X PolicyRoutes(am[a], p)) :
        \E scan \in PolicyScans(am[a], p, verdict) :
          am' = [am EXCEPT ![a] = ReceiveOutboundPolicy(am[a], p, verdict, scan)]
  BY DEF PolicyAdvertise
<1>3. PICK scan \in PolicyScans(am[a], p, verdict) :
        am' = [am EXCEPT ![a] = ReceiveOutboundPolicy(am[a], p, verdict, scan)]
  BY <1>2
<1> DEFINE new == ReceiveOutboundPolicy(am[a], p, verdict, scan)
<1>4. EngineInv(am[a]) /\ Trusted(p) /\ DOMAIN am = Sdxes
  BY <1>1 DEF RoutingInv, PoliciesTrusted, NetInv, TypeInv
<1>5. \A r \in scan : IsCompliant(am[a], verdict, p, r)
  BY <1>4, PolicyCompliant
<1>6. /\ EngineInv(new)
      /\ new.routes = am[a].routes
      /\ \/ UsedBy(new) = UsedBy(am[a])
         \/ \E r \in am[a].routes :
              UsedBy(new) = r.route /\ Len(r.route) = Len(UsedBy(am[a]))
  BY <1>1, <1>4, <1>5, PolicyForPair
<1>7. am' = [am EXCEPT ![a] = new]
  BY <1>3
<1> HIDE DEF new, a, p
<1>8. /\ Known' = [Known EXCEPT ![a] = {q.route : q \in new.routes}]
      /\ Used' = [Used EXCEPT ![a] = UsedBy(new)]
      /\ Known[a] = {q.route : q \in am[a].routes}
      /\ Used[a] = UsedBy(am[a])
      /\ \A c \in Sdxes : am'[c] = IF c = a THEN new ELSE am[c]
  BY <1>1, <1>4, <1>7, OneEngine
<1>9. Known' = Known
  BY <1>1, <1>6, <1>8 DEF Known
<1>10. CASE UsedBy(new) = UsedBy(am[a])
  <2>1. Used' = Used
    BY <1>1, <1>8, <1>10 DEF Used
  <2>2. UNCHANGED PV!vars
    BY <1>9, <2>1 DEF PV!vars
  <2>3. \A c \in Sdxes : EngineInv(am'[c])
    BY <1>6, <1>8, Zenon DEF RoutingInv
  <2> QED BY <2>2, <2>3
<1>11. CASE \E r \in am[a].routes :
              UsedBy(new) = r.route /\ Len(r.route) = Len(UsedBy(am[a]))
  <2>1. PICK r \in am[a].routes :
              UsedBy(new) = r.route /\ Len(r.route) = Len(UsedBy(am[a]))
    BY <1>11
  <2>2. PV!Reselect(a)
    BY <1>8, <1>9, <2>1 DEF PV!Reselect
  <2>3. \A c \in Sdxes : EngineInv(am'[c])
    BY <1>6, <1>8, Zenon DEF RoutingInv
  <2> QED BY <1>1, <2>2, <2>3 DEF PV!Next
<1> QED BY <1>6, <1>10, <1>11

LEMMA InitRoutingInv == Init => RoutingInv /\ PV!Init
<1> SUFFICES ASSUME Init PROVE RoutingInv /\ PV!Init
  OBVIOUS
<1>1. /\ am = [a \in Sdxes |-> InitEngine]
      /\ inflight = Offered
  BY DEF Init
<1>2. NetInv
  BY InitNetInv
<1>3. EngineInv(InitEngine)
  <2>1. Trusted(DefaultPolicy)
    BY DefaultIsHost DEF Trusted, NormalPolicy, HostPolicy, Normal, DefaultPolicy,
                         DefaultPrefix, DefaultRange, RangeOf
  <2>2. /\ InitEngine.routes = {}
        /\ DOMAIN InitEngine.policies = {PolicyKey(DefaultPolicy)}
        /\ InitEngine.policies[PolicyKey(DefaultPolicy)] = DefaultPolicy
        /\ DOMAIN InitEngine.matches = {} /\ DOMAIN InitEngine.chosen = {}
        /\ DOMAIN InitEngine.fib = {} /\ DOMAIN InitEngine.checked = {}
    BY DEF InitEngine, EmptyMap
  <2>3. PairMatched(InitEngine) /\ PairChosen(InitEngine) /\ FibFollows(InitEngine)
    BY <2>2 DEF PairMatched, PairChosen, FibFollows
  <2>4. /\ \A k \in DOMAIN InitEngine.policies :
             Trusted(InitEngine.policies[k]) /\ PolicyKey(InitEngine.policies[k]) = k
        /\ DOMAIN InitEngine.policies \subseteq Rectangles
        /\ PolicyKey(DefaultPolicy) \in DOMAIN InitEngine.policies
        /\ \A r \in InitEngine.routes : PairRoute(r)
    BY <2>1, <2>2, PairFacts
  <2>5. \A pair \in DOMAIN InitEngine.checked : InitEngine.checked[pair]
    BY <2>2, Zenon
  <2> QED BY <2>3, <2>4, <2>5, Zenon DEF EngineInv
<1>4. \A a \in Sdxes : EngineInv(am[a])
  <2>1. \A a \in Sdxes : am[a] = InitEngine
    BY <1>1
  <2> QED BY <1>3, <2>1, Zenon
<1>5. \A m \in inflight : m.kind = "bgp" => Shared(m.adv)
  BY <1>1, OriginAssumption DEF Shared
<1>6. \A m \in inflight : m.kind = "policy" => Trusted(m.adv)
  <2>1. ASSUME NEW m \in Offered, m.kind = "policy" PROVE NormalPolicy(m.adv)
    BY <2>1, NormalAssumption DEF NormalPolicy, HostPolicy
  <2> QED BY <1>1, <2>1, OriginAssumption, Zenon DEF Trusted
<1>7. \A a \in Sdxes : am[a].routes = {} /\ DOMAIN am[a].chosen = {}
  BY <1>1 DEF InitEngine, EmptyMap
<1>8. RoutesShared /\ PoliciesTrusted
  BY <1>4, <1>5, <1>6, <1>7, Zenon DEF RoutesShared, PoliciesTrusted, EngineInv
<1>9. PV!Init
  BY <1>7 DEF PV!Init, Known, Used
<1> QED BY <1>2, <1>4, <1>8, <1>9, Zenon DEF RoutingInv

\* Every step of the network is a step of the path-vector protocol or none.
LEMMA NextRefines ==
  ASSUME RoutingInv, [Next]_vars
  PROVE  RoutingInv' /\ [PV!Next]_(PV!vars)
<1>1. NetInv /\ NetInv' /\ NetStep
  BY NextNetInv, NextNetStep DEF RoutingInv
<1>2. CASE am' = am
  <2>1. \A a \in Sdxes : EngineInv(am'[a])
    BY <1>2, Zenon DEF RoutingInv
  <2>2. UNCHANGED PV!vars
    BY <1>2 DEF PV!vars, Known, Used
  <2> QED BY <1>1, <2>1, <2>2, RoutingInvStep
<1>3. CASE \E m \in inflight : BgpAdvertise(m) \/ PolicyAdvertise(m)
  <2>1. PICK m \in inflight : BgpAdvertise(m) \/ PolicyAdvertise(m)
    BY <1>3
  <2>2. PolicyAdvertise(m) => m.kind = "policy"
    BY DEF PolicyAdvertise
  <2> QED BY <1>1, <2>1, <2>2, BgpAdvertiseLearns, PolicyAdvertiseReselects, RoutingInvStep
<1>4. am' = am \/ \E m \in inflight : BgpAdvertise(m) \/ PolicyAdvertise(m)
  BY DEF Next, vars, Stitching, Handle, StitchCmd, StitchRequest, ServePeer, AskToPeer,
         GiveUp, FinishPeer, Refuse, Lose
<1> QED BY <1>2, <1>3, <1>4

\* The inductive invariant of one destination: each engine keeps its choice, its
\* match and its forwarding entry for Pair in step (receiveAdvertise,
\* receiveOutboundPolicy), and NetInv.
THEOREM RoutingInvariance == Spec => []RoutingInv
<1>1. RoutingInv /\ [Next]_vars => RoutingInv'
  BY NextRefines
<1>2. Init => RoutingInv
  BY InitRoutingInv
<1> QED BY <1>1, <1>2, PTL DEF Spec

\* Whatever the order in which SDXes stitch and advertisements arrive, and
\* whatever is lost, the exchange implements the path-vector protocol.
THEOREM Refinement == Spec => ImplementsPathVector
<1>1. RoutingInv /\ [Next]_vars => [PV!Next]_(PV!vars)
  BY NextRefines
<1>2. Init => PV!Init
  BY InitRoutingInv
<1> QED BY <1>1, <1>2, RoutingInvariance, PTL DEF Spec, ImplementsPathVector, PV!Spec

------------------------------------------------------------------------------
(***************************************************************************)
(* The path-vector protocol, for any set of SDXes: every path in use is    *)
(* shorter at its next hop, and therefore forwarding has no loop.          *)
(***************************************************************************)

(***************************************************************************)
(* Facts about paths and naturals.                                         *)
(***************************************************************************)

\* A nonempty set of lengths has a least member.
LEMMA LeastLength ==
  ASSUME NEW T \in SUBSET Nat, T # {}
  PROVE  \E x \in T : \A y \in T : x <= y
<1>1. PICK x \in T : \A y \in T : ~ (<<y, x>> \in OpToRel(<, Nat))
  BY NatLessThanWellFounded, WFMin
<1>2. OpToRel(<, Nat) = {ss \in Nat \X Nat : ss[1] < ss[2]}
  BY Zenon DEF OpToRel
<1>3. ASSUME NEW y \in T PROVE x <= y
  <2>1. <<y, x>> \notin {ss \in Nat \X Nat : ss[1] < ss[2]}
    BY <1>1, <1>2
  <2> QED BY <2>1
<1> QED BY <1>3

\* A node put in front of a path gives a path, one longer, that starts there.
LEMMA PathInFront ==
  ASSUME NEW b \in Sdxes, NEW q \in PV!Paths
  PROVE  /\ <<b>> \o q \in PV!Paths
         /\ <<b>> \o q # <<>>
         /\ Len(<<b>> \o q) = Len(q) + 1
         /\ (<<b>> \o q)[1] = b
BY DEF PV!Paths

\* What a node can learn: the owner's own path, or a path of a neighbour.
LEMMA LearnableCases ==
  ASSUME PV!TypeOK, NEW a \in Sdxes, NEW path \in PV!Learnable(a)
  PROVE  \/ path = <<Origin>>
         \/ \E b \in Sdxes : \E q \in Known[b] :
              ~ PV!Occurs(a, <<b>> \o q) /\ path = <<b>> \o q
BY DEF PV!Learnable

LEMMA LearnableType ==
  ASSUME PV!TypeOK, NEW a \in Sdxes, NEW path \in PV!Learnable(a)
  PROVE  path \in PV!Paths /\ path # <<>> /\ Len(path) \in Nat
<1>1. CASE path = <<Origin>>
  BY <1>1 DEF PV!Paths
<1>2. CASE \E b \in Sdxes : \E q \in Known[b] : path = <<b>> \o q
  <2>1. PICK b \in Sdxes : \E q \in Known[b] : path = <<b>> \o q
    BY <1>2
  <2>2. PICK q \in Known[b] : path = <<b>> \o q
    BY <2>1
  <2>3. q \in PV!Paths
    BY DEF PV!TypeOK
  <2>4. path \in PV!Paths /\ path # <<>>
    BY <2>2, <2>3, PathInFront
  <2> QED BY <2>4 DEF PV!Paths
<1> QED BY <1>1, <1>2, LearnableCases

------------------------------------------------------------------------------
(***************************************************************************)
(* The inductive invariant: a path can be learnt as long as the neighbour  *)
(* it comes from keeps it, and nodes keep what they know.                  *)
(***************************************************************************)
PathInv == PV!TypeOK /\ PV!Backed /\ PV!ShortestUsed

LEMMA InitPathInv == PV!Init => PathInv
<1> SUFFICES ASSUME PV!Init PROVE PathInv
  OBVIOUS
<1>1. <<>> \in PV!Paths /\ Len(<<>>) = 0
  BY DEF PV!Paths
<1> QED BY <1>1 DEF PV!Init, PathInv, PV!TypeOK, PV!Backed, PV!ShortestUsed

\* Knowing more never takes a path away from what can be learnt.
LEMMA LearnableGrows ==
  ASSUME PV!TypeOK, \A b \in Sdxes : Known[b] \subseteq Known'[b],
         NEW a \in Sdxes
  PROVE  PV!Learnable(a) \subseteq PV!Learnable(a)'
<1> SUFFICES ASSUME NEW path \in PV!Learnable(a) PROVE path \in PV!Learnable(a)'
  OBVIOUS
<1>1. CASE path = <<Origin>>
  BY <1>1 DEF PV!Learnable
<1>2. CASE \E b \in Sdxes : \E q \in Known[b] :
             ~ PV!Occurs(a, <<b>> \o q) /\ path = <<b>> \o q
  <2>1. PICK b \in Sdxes : \E q \in Known[b] :
               ~ PV!Occurs(a, <<b>> \o q) /\ path = <<b>> \o q
    BY <1>2
  <2>2. PICK q \in Known[b] : ~ PV!Occurs(a, <<b>> \o q) /\ path = <<b>> \o q
    BY <2>1
  <2>3. q \in {p \in Known'[b] : ~ PV!Occurs(a, <<b>> \o p)}
    BY <2>2
  <2>4. path \in {<<b>> \o p : p \in {p \in Known'[b] : ~ PV!Occurs(a, <<b>> \o p)}}
    BY <2>2, <2>3
  <2> QED BY <2>4 DEF PV!Learnable
<1> QED BY <1>1, <1>2, LearnableCases

LEMMA LearnStep ==
  ASSUME PathInv, NEW a \in Sdxes, NEW path \in PV!Learnable(a), PV!Learn(a, path)
  PROVE  PathInv'
<1>1. path \in PV!Paths /\ path # <<>> /\ Len(path) \in Nat
  BY LearnableType DEF PathInv
<1>2. Known' = [Known EXCEPT ![a] = @ \cup {path}]
  BY DEF PV!Learn
<1>3. /\ Used' \in [Sdxes -> PV!Paths]
      /\ \A b \in Sdxes \ {a} : Used'[b] = Used[b] /\ Known'[b] = Known[b]
      /\ Known'[a] = Known[a] \cup {path}
      /\ Used'[a] = IF Used[a] = <<>> \/ Len(path) < Len(Used[a]) THEN path ELSE Used[a]
  BY <1>1, <1>2 DEF PV!Learn, PathInv, PV!TypeOK
<1>4. PV!TypeOK'
  BY <1>1, <1>2, <1>3 DEF PathInv, PV!TypeOK
<1>5. \A b \in Sdxes : Known[b] \subseteq Known'[b]
  BY <1>3
<1>6. PV!Backed'
  <2> SUFFICES ASSUME NEW b \in Sdxes, NEW q \in Known'[b]
               PROVE  q \in PV!Learnable(b)'
    BY DEF PV!Backed
  <2>1. q \in PV!Learnable(b)
    BY <1>3 DEF PathInv, PV!Backed
  <2> QED BY <1>5, <2>1, LearnableGrows DEF PathInv
<1>7. PV!ShortestUsed'
  <2> SUFFICES ASSUME NEW b \in Sdxes
               PROVE  /\ Used'[b] = <<>> <=> Known'[b] = {}
                      /\ Used'[b] # <<>> => Used'[b] \in Known'[b]
                      /\ \A q \in Known'[b] : Len(Used'[b]) <= Len(q)
    BY DEF PV!ShortestUsed
  <2>1. CASE b # a
    BY <1>3, <2>1 DEF PathInv, PV!ShortestUsed
  <2>2. CASE b = a
    <3>1. \A q \in Known[a] : Len(q) \in Nat
      BY DEF PathInv, PV!TypeOK, PV!Paths
    <3>2. Len(Used[a]) \in Nat
      BY DEF PathInv, PV!TypeOK, PV!Paths
    <3>3. /\ Used[a] = <<>> <=> Known[a] = {}
          /\ Used[a] # <<>> => Used[a] \in Known[a]
          /\ \A q \in Known[a] : Len(Used[a]) <= Len(q)
      BY DEF PathInv, PV!ShortestUsed
    <3> QED BY <1>1, <1>3, <2>2, <3>1, <3>2, <3>3
  <2> QED BY <2>1, <2>2
<1> QED BY <1>4, <1>6, <1>7 DEF PathInv

LEMMA ReselectStep ==
  ASSUME PathInv, NEW a \in Sdxes, PV!Reselect(a)
  PROVE  PathInv'
<1>1. PICK path \in Known[a] :
        Len(path) = Len(Used[a]) /\ Used' = [Used EXCEPT ![a] = path]
  BY DEF PV!Reselect
<1>2. Known' = Known
  BY DEF PV!Reselect
<1>3. path \in PV!Paths /\ path # <<>>
  BY LearnableType DEF PathInv, PV!Backed
<1>4. PV!TypeOK'
  BY <1>1, <1>2, <1>3 DEF PathInv, PV!TypeOK
<1>5. PV!Backed'
  BY <1>2, LearnableGrows DEF PathInv, PV!Backed
<1>6. PV!ShortestUsed'
  BY <1>1, <1>2, <1>3 DEF PathInv, PV!TypeOK, PV!ShortestUsed
<1> QED BY <1>4, <1>5, <1>6 DEF PathInv

\* Paths are only ever learnt while others keep theirs, and the one in use is
\* a shortest one of those a node has learnt.
THEOREM PathInvariance == PV!Spec => []PathInv
<1>1. PathInv /\ [PV!Next]_(PV!vars) => PathInv'
  <2> SUFFICES ASSUME PathInv, [PV!Next]_(PV!vars) PROVE PathInv'
    OBVIOUS
  <2>1. CASE UNCHANGED PV!vars
    <3>1. Known' = Known /\ Used' = Used
      BY <2>1 DEF PV!vars
    <3>2. \A a \in Sdxes : PV!Learnable(a) \subseteq PV!Learnable(a)'
      BY <3>1, LearnableGrows DEF PathInv
    <3>3. PV!TypeOK' /\ PV!ShortestUsed'
      BY <3>1 DEF PathInv, PV!TypeOK, PV!ShortestUsed
    <3>4. PV!Backed'
      BY <3>1, <3>2 DEF PathInv, PV!Backed
    <3> QED BY <3>3, <3>4 DEF PathInv
  <2>2. CASE PV!Next
    BY <2>2, LearnStep, ReselectStep DEF PV!Next
  <2> QED BY <2>1, <2>2
<1> QED BY <1>1, InitPathInv, PTL DEF PV!Spec

------------------------------------------------------------------------------
LEMMA PathInvDescends ==
  ASSUME Origin \notin Sdxes
  PROVE  PathInv => PV!Descends
<1> SUFFICES ASSUME PathInv, NEW a \in Sdxes, NEW b \in Sdxes,
                    Used[a] # <<>>, Used[a][1] = b
             PROVE  Used[b] # <<>> /\ Len(Used[b]) < Len(Used[a])
  BY DEF PV!Descends
<1>1. Used[a] \in Known[a] /\ Used[a] \in PV!Learnable(a)
  BY DEF PathInv, PV!ShortestUsed, PV!Backed
<1>2. Used[a] # <<Origin>>
  OBVIOUS
<1>3. PICK c \in Sdxes : \E q \in Known[c] : Used[a] = <<c>> \o q
  BY <1>1, <1>2, LearnableCases DEF PathInv
<1>4. PICK q \in Known[c] : Used[a] = <<c>> \o q
  BY <1>3
<1>5. q \in PV!Paths
  BY DEF PathInv, PV!TypeOK
<1>6. c = b /\ Len(Used[a]) = Len(q) + 1
  BY <1>4, <1>5, PathInFront
<1>7. Used[b] # <<>> /\ Len(Used[b]) <= Len(q)
  BY <1>6 DEF PathInv, PV!ShortestUsed
<1>8. Len(q) \in Nat /\ Len(Used[b]) \in Nat
  BY <1>5 DEF PathInv, PV!TypeOK, PV!Paths
<1> QED BY <1>6, <1>7, <1>8

\* The next hop of every path in use is nearer to the owner.
THEOREM NextHopNearer ==
  ASSUME Origin \notin Sdxes
  PROVE  PV!Spec => []PV!Descends
<1>1. PathInv => PV!Descends
  BY PathInvDescends
<1> QED BY <1>1, PathInvariance, PTL

\* A set of nodes closed under the next hop would have no node nearest to the
\* owner.
LEMMA DescendsNoLoop ==
  ASSUME PV!TypeOK, PV!Descends
  PROVE  PV!NoForwardingLoop
<1> SUFFICES ASSUME NEW S \in SUBSET Sdxes, S # {},
                    \A a \in S : Used[a] # <<>> /\ Used[a][1] \in S
             PROVE  FALSE
  BY DEF PV!NoForwardingLoop
<1> DEFINE Lengths == {Len(Used[a]) : a \in S}
<1>1. \A a \in S : Len(Used[a]) \in Nat
  BY DEF PV!TypeOK, PV!Paths
<1>2. Lengths \in SUBSET Nat /\ Lengths # {}
  BY <1>1
<1>3. PICK l \in Lengths : \A k \in Lengths : l <= k
  BY <1>2, LeastLength
<1>4. PICK a \in S : Len(Used[a]) = l
  BY <1>3
<1>5. PICK b \in S : Used[a][1] = b
  BY <1>4
<1>6. Len(Used[b]) < Len(Used[a])
  BY <1>4, <1>5 DEF PV!Descends
<1>7. Len(Used[b]) \in Lengths /\ l \in Nat /\ Len(Used[b]) \in Nat
  BY <1>2, <1>3
<1> QED BY <1>3, <1>4, <1>6, <1>7

\* Traffic for the prefix never goes round in circles.
THEOREM LoopFree ==
  ASSUME Origin \notin Sdxes
  PROVE  PV!Spec => []PV!NoForwardingLoop
<1>1. PathInv => PV!NoForwardingLoop
  BY PathInvDescends, DescendsNoLoop DEF PathInv
<1> QED BY <1>1, PathInvariance, PTL

\* Nodes forget nothing, and the path in use never gets longer.
THEOREM Shortening == PV!Spec => PV!OnlyShortens
<1> DEFINE Kept ==
      \A a \in Sdxes :
        /\ Known[a] \subseteq Known'[a]
        /\ Used[a] # <<>> => Used'[a] # <<>> /\ Len(Used'[a]) <= Len(Used[a])
<1>1. PathInv /\ [PV!Next]_(PV!vars) => [Kept]_(PV!vars)
  <2> SUFFICES ASSUME PathInv, PV!Next PROVE Kept
    BY DEF PV!vars
  <2>1. \A b \in Sdxes : Len(Used[b]) \in Nat
    BY DEF PathInv, PV!TypeOK, PV!Paths
  <2>2. ASSUME NEW a \in Sdxes, NEW path \in PV!Learnable(a), PV!Learn(a, path)
        PROVE  Kept
    <3>1. path # <<>> /\ Len(path) \in Nat
      BY LearnableType DEF PathInv
    <3> QED BY <2>1, <2>2, <3>1 DEF PV!Learn, PathInv, PV!TypeOK
  <2>3. ASSUME NEW a \in Sdxes, PV!Reselect(a)
        PROVE  Kept
    <3>1. \A path \in Known[a] : path # <<>>
      BY LearnableType DEF PathInv, PV!Backed
    <3> QED BY <2>1, <2>3, <3>1 DEF PV!Reselect, PathInv, PV!TypeOK
  <2> QED BY <2>2, <2>3 DEF PV!Next
<1> QED BY <1>1, PathInvariance, PTL DEF PV!Spec, PV!OnlyShortens

------------------------------------------------------------------------------
(***************************************************************************)
(* Forwarding.                                                             *)
(***************************************************************************)
\* Traffic for the prefix never goes round in circles: of any SDXes, one has no
\* entry for the prefix in its forwarding table, or one that leads elsewhere.
NoForwardingLoop ==
  \A S \in SUBSET Sdxes :
    S # {} => \E a \in S : PairKey \notin DOMAIN am[a].fib \/ am[a].fib[PairKey] \notin S

\* The forwarding table hands the traffic to the first on the path in use.
LEMMA FibIsFirstHop ==
  ASSUME RoutingInv, NEW a \in Sdxes, PairKey \in DOMAIN am[a].fib
  PROVE  Used[a] # <<>> /\ am[a].fib[PairKey] = Used[a][1]
<1> DEFINE r == am[a].chosen[Pair]
<1>1. /\ Pair \in DOMAIN am[a].chosen /\ r \in am[a].routes
      /\ am[a].fib[PairKey] = r.advertiser
  BY DEF RoutingInv, EngineInv, FibFollows, PairChosen
<1>2. r.route # <<>> /\ r.advertiser = Head(r.route) /\ r.route \in Seq(Pids)
  BY <1>1 DEF RoutingInv, EngineInv, PairRoute, RouteAdvertises, NetInv, RoutesSound,
              Sound, BackedBy
<1>3. Used[a] = r.route
  BY <1>1 DEF Used
<1> QED BY <1>1, <1>2, <1>3

\* SDXes never forward the prefix in circles (the forwarding tables that
\* receiveAdvertise and receiveOutboundPolicy keep), unless its owner is one.
THEOREM LoopFreedom ==
  ASSUME Origin \notin Sdxes
  PROVE  Spec => []NoForwardingLoop
<1>1. Spec => PV!Spec
  BY Refinement DEF ImplementsPathVector
<1>2. PV!Spec => []PV!NoForwardingLoop
  BY LoopFree
<1>3. RoutingInv /\ PV!NoForwardingLoop => NoForwardingLoop
  BY FibIsFirstHop DEF PV!NoForwardingLoop, NoForwardingLoop
<1> QED BY <1>1, <1>2, <1>3, RoutingInvariance, PTL

------------------------------------------------------------------------------
(***************************************************************************)
(* Agreement when nothing is on the way.                                   *)
(*                                                                         *)
(* Every meeting of a policy with Pair has its choice, a shortest of the   *)
(* routes there are.  Routes that were passed on, and policies, are with   *)
(* the peers or on the way to them.                                        *)
(***************************************************************************)
Meetings(s) == {Intersect(Pair, k) : k \in {x \in DOMAIN s.policies : Meets(Pair, x)}}

Matched(s, n) ==
  /\ s.matches[n][1] \in DOMAIN s.policies
  /\ Meets(Pair, s.matches[n][1])
  /\ Intersect(Pair, s.matches[n][1]) = n
  /\ s.matches[n][2] = Pair

Shortest(s, r) == r \in s.routes /\ \A q \in s.routes : Len(r.route) <= Len(q.route)

ChoicesMade(s) ==
  /\ DOMAIN s.chosen = DOMAIN s.matches
  /\ DOMAIN s.matches = IF s.routes = {} THEN {} ELSE Meetings(s)
  /\ \A n \in DOMAIN s.matches : Matched(s, n)
  /\ \A n \in DOMAIN s.chosen : Shortest(s, s.chosen[n]) /\ s.chosen[n] \in s.advertised
  /\ s.advertised \subseteq s.routes

\* A copy of a policy that a customer has offered.
Genuine(p) ==
  \E m \in Offered :
    /\ m.kind = "policy" /\ PolicyKey(m.adv) = PolicyKey(p)
    /\ m.adv.owner = p.owner /\ m.adv.token = p.token

Has(a, k) == k \in DOMAIN am[a].policies /\ Genuine(am[a].policies[k])

\* Where a policy has come from, and come through, it is known.
Visited(p) ==
  \A b \in Sdxes : b = p.advertiser \/ Occurs(b, p.route) => Has(b, PolicyKey(p))

PoliciesGenuine ==
  /\ \A a \in Sdxes : \A k \in DOMAIN am[a].policies :
       LET p == am[a].policies[k]
       IN  PolicyKey(p) = k /\ Visited(p) /\ (p = DefaultPolicy \/ Genuine(p))
  /\ \A m \in inflight : m.kind = "policy" => Genuine(m.adv) /\ Visited(m.adv)

\* SDX b has a policy for the prefix pair k, or will.
Reaches(b, k) ==
  \/ Has(b, k)
  \/ \E m \in inflight : m.kind = "policy" /\ m.to = b /\ PolicyKey(m.adv) = k

PoliciesReach ==
  \A a \in Sdxes : \A b \in peers[a] \ {a} : \A k \in DOMAIN am[a].policies :
    Genuine(am[a].policies[k]) => Reaches(b, k)

\* SDX b has the route of SDX a, or will.
Learning(a, b, r) == PassedOn(r, a) \in am[b].routes \/ Copy(a, b, r) \in inflight

RoutesReach ==
  \A a \in Sdxes : \A b \in peers[a] \ {a} : \A r \in am[a].advertised :
    b # r.owner /\ ~ Occurs(b, r.route) => Learning(a, b, r)

AgreementInv ==
  /\ \A a \in Sdxes : ChoicesMade(am[a])
  /\ PoliciesGenuine /\ PoliciesReach /\ RoutesReach

\* Nothing is lost or refused; customers offer policies of their own, not yet
\* passed on by anyone, and at most one of them for a prefix pair.
Undisturbed ==
  /\ ~ Lossy /\ Answers = {TRUE}
  /\ \A m \in Offered : m.kind = "policy" =>
       /\ m.adv.owner \in Pids \ Sdxes /\ m.adv.advertiser \notin Sdxes
       /\ \A b \in Sdxes : ~ Occurs(b, m.adv.route)
  /\ \A m, l \in Offered :
       m.kind = "policy" /\ l.kind = "policy" /\ PolicyKey(m.adv) = PolicyKey(l.adv) =>
         m.adv.owner = l.adv.owner /\ m.adv.token = l.adv.token

\* The choices of a call are passed on with it.
LEMMA AdvertisedNow ==
  ASSUME NEW s, NEW routes, NEW policies, NEW matchedNow, NEW chosenNow, NEW fibNow,
         NEW checkedNow
  PROVE  Updated(s, routes, policies, matchedNow, chosenNow, fibNow, checkedNow).advertised =
           s.advertised \cup {chosenNow[n] : n \in DOMAIN chosenNow}
BY Zenon DEF Updated

\* After a call with a route, the choices are made and a new choice is passed on.
LEMMA ChoicesOfAdvertise ==
  ASSUME NEW s, EngineInv(s), ChoicesMade(s), NEW r, PairRoute(r), NEW verdict,
         \A n \in AdvertiseAccepted(s, r) :
           IsCompliant(s, verdict, s.policies[PolicyFor(s, r, n)], r)
  PROVE  LET t == ReceiveAdvertise(s, r, verdict)
         IN  /\ ChoicesMade(t)
             /\ t.advertised = s.advertised \cup AdvertisePropagates(s, r, verdict)
<1> DEFINE t   == ReceiveAdvertise(s, r, verdict)
           acc == AdvertiseAccepted(s, r)
           now == AdvertiseTaken(s, r, verdict)
<1>1. /\ t.routes = s.routes \cup {r}
      /\ t.policies = s.policies
      /\ DOMAIN t.matches = DOMAIN s.matches \cup acc
      /\ \A n \in acc : t.matches[n] = <<PolicyFor(s, r, n), RouteKey(r)>>
      /\ DOMAIN t.chosen = DOMAIN s.chosen \cup now
      /\ \A n \in now : t.chosen[n] = r
      /\ \A n \in DOMAIN s.chosen \ now : t.chosen[n] = s.chosen[n]
  BY ReceiveAdvertiseTables
<1>2. t.advertised = s.advertised \cup AdvertisePropagates(s, r, verdict)
  <2>1. t.advertised = s.advertised \cup {[k \in now |-> r][n] : n \in DOMAIN [k \in now |-> r]}
    BY AdvertisedNow DEF ReceiveAdvertise
  <2> HIDE DEF now
  <2>2. {[k \in now |-> r][n] : n \in DOMAIN [k \in now |-> r]} = {x \in {r} : now # {}}
    OBVIOUS
  <2> QED BY <2>1, <2>2 DEF AdvertisePropagates, now
<1>3. /\ r \in RouteAdvertises /\ RouteKey(r) = Pair /\ DOMAIN s.policies \subseteq Rectangles
      /\ \A q \in s.routes : Len(q.route) \in Nat
      /\ Len(r.route) \in Nat
  BY DEF PairRoute, EngineInv, RouteAdvertises
<1>4. /\ DOMAIN s.chosen = DOMAIN s.matches
      /\ DOMAIN s.matches = IF s.routes = {} THEN {} ELSE Meetings(s)
      /\ \A n \in DOMAIN s.matches : Matched(s, n)
      /\ \A n \in DOMAIN s.chosen : Shortest(s, s.chosen[n]) /\ s.chosen[n] \in s.advertised
      /\ s.advertised \subseteq s.routes
  BY DEF ChoicesMade
<1>5. Meetings(s) = AdvertiseMeetings(s, r)
  BY <1>3 DEF Meetings, AdvertiseMeetings, PoliciesMeeting
<1>6. ASSUME NEW n \in Meetings(s)
      PROVE  /\ n \in acc
             /\ PolicyFor(s, r, n) \in DOMAIN s.policies
             /\ Meets(Pair, PolicyFor(s, r, n)) /\ Intersect(Pair, PolicyFor(s, r, n)) = n
             /\ n \in DOMAIN s.matches => ~ InboundAbove(RouteKey(r), s.matches[n][2])
  <2> DEFINE pk == PolicyFor(s, r, n)
  <2>1. /\ pk \in PoliciesMeeting(s, r)
        /\ Intersect(Pair, pk) = n
        /\ \A other \in PoliciesMeeting(s, r) :
             Intersect(Pair, other) = n => OutboundAtLeast(pk, other)
    BY <1>3, <1>5, PolicyForSpec
  <2> HIDE DEF pk
  <2>2. n \in DOMAIN s.matches =>
          /\ s.matches[n][1] \in PoliciesMeeting(s, r) /\ Intersect(Pair, s.matches[n][1]) = n
          /\ s.matches[n][2] = Pair
    BY <1>3, <1>4 DEF Matched, PoliciesMeeting
  <2>3. Accepts(s, n, pk, RouteKey(r))
    BY <1>3, <2>1, <2>2, PairNotAbove DEF Accepts
  <2> QED BY <1>3, <1>5, <2>1, <2>2, <2>3, PairNotAbove DEF AdvertiseAccepted, pk, PoliciesMeeting
<1>7. acc = Meetings(s)
  BY <1>5, <1>6 DEF AdvertiseAccepted
<1>8. ASSUME NEW n \in Meetings(s)
      PROVE  n \in now <=> n \notin DOMAIN s.chosen \/ Len(r.route) < Len(s.chosen[n].route)
  BY <1>4, <1>6, <1>7 DEF AdvertiseTaken
<1>9. now \subseteq acc
  BY DEF AdvertiseTaken
<1> HIDE DEF t, acc, now
<1>10. Meetings(t) = Meetings(s) /\ t.routes # {}
  BY <1>1 DEF Meetings
<1>11. /\ DOMAIN t.matches = Meetings(t) /\ DOMAIN t.chosen = Meetings(t)
  BY <1>1, <1>4, <1>7, <1>8, <1>9, <1>10
<1>12. \A n \in DOMAIN t.matches : Matched(t, n)
  BY <1>1, <1>3, <1>6, <1>7, <1>10, <1>11 DEF Matched
<1>13. ASSUME NEW n \in DOMAIN t.chosen
       PROVE  Shortest(t, t.chosen[n]) /\ t.chosen[n] \in t.advertised
  <2>1. CASE n \in now
    <3>1. t.chosen[n] = r /\ r \in t.routes
      BY <1>1, <2>1
    <3>2. ASSUME NEW q \in s.routes PROVE Len(r.route) <= Len(q.route)
      <4>1. /\ n \in DOMAIN s.chosen /\ s.chosen[n] \in s.routes
            /\ Len(s.chosen[n].route) <= Len(q.route)
        BY <1>4, <1>10, <1>11 DEF Shortest
      <4>2. Len(r.route) < Len(s.chosen[n].route)
        BY <1>8, <1>10, <1>11, <2>1, <4>1
      <4> QED BY <1>3, <4>1, <4>2
    <3>3. r \in t.advertised
      BY <1>2, <2>1 DEF AdvertisePropagates, now
    <3> QED BY <1>1, <1>3, <3>1, <3>2, <3>3 DEF Shortest
  <2>2. CASE n \notin now
    <3>1. /\ n \in DOMAIN s.chosen /\ t.chosen[n] = s.chosen[n]
          /\ ~ (Len(r.route) < Len(s.chosen[n].route))
      BY <1>1, <1>8, <1>10, <1>11, <2>2
    <3>2. Shortest(s, s.chosen[n]) /\ s.chosen[n] \in s.advertised /\ s.chosen[n] \in s.routes
      BY <1>4, <3>1 DEF Shortest
    <3>3. Len(s.chosen[n].route) <= Len(r.route)
      BY <1>3, <3>1, <3>2
    <3> QED BY <1>1, <1>2, <3>1, <3>2, <3>3 DEF Shortest
  <2> QED BY <2>1, <2>2
<1>14. t.advertised \subseteq t.routes
  BY <1>1, <1>2, <1>4, PropagatedRoutes
<1>15. ChoicesMade(t)
  BY <1>10, <1>11, <1>12, <1>13, <1>14 DEF ChoicesMade
<1> QED BY <1>2, <1>15 DEF t

\* After a call with a policy, too: every route that there is was tried.
LEMMA ChoicesOfPolicy ==
  ASSUME NEW s, EngineInv(s), ChoicesMade(s), NEW p \in PolicyAdvertises, NEW verdict,
         NEW scan \in PolicyScans(s, p, verdict),
         \A r \in scan : IsCompliant(s, verdict, p, r)
  PROVE  LET t == ReceiveOutboundPolicy(s, p, verdict, scan)
         IN  /\ ChoicesMade(t)
             /\ t.advertised = s.advertised \cup PolicyPropagates(s, p, verdict, scan)
<1> DEFINE t   == ReceiveOutboundPolicy(s, p, verdict, scan)
           acc == PolicyAccepted(s, p)
           now == PolicyChosen(s, p, verdict, scan)
           key == PolicyKey(p)
           m   == Intersect(Pair, key)
<1>1. /\ t.routes = s.routes
      /\ DOMAIN t.policies = DOMAIN s.policies \cup {key}
      /\ DOMAIN t.matches = DOMAIN s.matches \cup acc
      /\ \A n \in acc : t.matches[n] = <<key, RouteKeyFor(s, p, n)>>
      /\ \A n \in DOMAIN s.matches \ acc : t.matches[n] = s.matches[n]
      /\ DOMAIN t.chosen = DOMAIN s.chosen \cup DOMAIN now
      /\ \A n \in DOMAIN now : t.chosen[n] = now[n]
      /\ \A n \in DOMAIN s.chosen \ DOMAIN now : t.chosen[n] = s.chosen[n]
  BY ReceiveOutboundPolicyTables
<1>2. t.advertised = s.advertised \cup {now[n] : n \in DOMAIN now}
  BY AdvertisedNow DEF ReceiveOutboundPolicy
<1>3. t.advertised = s.advertised \cup PolicyPropagates(s, p, verdict, scan)
  BY <1>2 DEF PolicyPropagates
<1>4. /\ \A r \in s.routes : r \in RouteAdvertises /\ RouteKey(r) = Pair /\ Len(r.route) \in Nat
      /\ DOMAIN s.policies \subseteq Rectangles
      /\ key \in Rectangles /\ Pair \in Rectangles
      /\ Intersect(key, Pair) = m /\ (Meets(key, Pair) <=> Meets(Pair, key))
  BY PairFacts, IntersectCommutes DEF EngineInv, PairRoute, RouteAdvertises
<1>5. /\ DOMAIN s.chosen = DOMAIN s.matches
      /\ DOMAIN s.matches = IF s.routes = {} THEN {} ELSE Meetings(s)
      /\ \A n \in DOMAIN s.matches : Matched(s, n)
      /\ \A n \in DOMAIN s.chosen : Shortest(s, s.chosen[n]) /\ s.chosen[n] \in s.advertised
      /\ s.advertised \subseteq s.routes
  BY DEF ChoicesMade
<1>6. ASSUME NEW n \in PolicyMeetings(s, p)
      PROVE  /\ n = m /\ Meets(Pair, key) /\ s.routes # {}
             /\ RouteKeyFor(s, p, n) = Pair
  <2>1. /\ RouteKeyFor(s, p, n) \in RouteKeysMeeting(s, p)
        /\ Intersect(key, RouteKeyFor(s, p, n)) = n
    BY <1>4, RouteKeyForSpec
  <2>2. RouteKeyFor(s, p, n) = Pair /\ Meets(key, Pair) /\ s.routes # {}
    BY <1>4, <2>1 DEF RouteKeysMeeting, RouteKeys
  <2> QED BY <1>4, <2>1, <2>2
<1>7. s.routes # {} /\ Meets(Pair, key) => m \in PolicyMeetings(s, p)
  BY <1>4 DEF PolicyMeetings, RouteKeysMeeting, RouteKeys
<1>8. /\ acc \subseteq PolicyMeetings(s, p)
      /\ m \in PolicyMeetings(s, p) => m \in acc \/ m \in DOMAIN s.matches
  BY DEF PolicyAccepted, Accepts
<1>9. m \in acc =>
        /\ m \in DOMAIN now
        /\ now[m] \in s.routes
        /\ \A r \in s.routes : Len(now[m].route) <= Len(r.route)
  <2> SUFFICES ASSUME m \in acc
               PROVE  /\ m \in DOMAIN now
                      /\ now[m] \in s.routes
                      /\ \A r \in s.routes : Len(now[m].route) <= Len(r.route)
    OBVIOUS
  <2>1. RouteKeyFor(s, p, m) = Pair /\ s.routes # {}
    BY <1>6, <1>8
  <2>2. PolicyRoutes(s, p) = s.routes
    BY <1>4, <2>1 DEF PolicyRoutes
  <2>3. PICK first \in s.routes :
          /\ Passed(s, p, verdict, scan, m) = {first}
          /\ \A r \in s.routes : Len(first.route) <= Len(r.route)
    <3> DEFINE ok(r) == IsCompliant(s, verdict, p, r)
    <3>1. /\ scan \subseteq PolicyRoutes(s, p)
          /\ \A q \in PolicyRoutes(s, p) \ scan :
               \E r \in scan :
                 RouteKey(r) = RouteKey(q) /\ ok(r) /\ Len(r.route) <= Len(q.route)
          /\ \A q, r \in scan :
               RouteKey(r) = RouteKey(q) /\ ok(r) =>
                 Len(q.route) <= Len(r.route) /\ (ok(q) => q = r)
      BY Zenon DEF PolicyScans
    <3>2. \A r \in scan : ok(r)
      BY Zenon
    <3>3. Passed(s, p, verdict, scan, m) = {r \in scan : RouteKey(r) = Pair /\ ok(r)}
      BY <2>1, Zenon DEF Passed
    <3> HIDE DEF ok
    <3>4. PICK first \in scan : TRUE
      BY <2>1, <2>2, <3>1
    <3>5. \A r \in scan : r = first
      BY <1>4, <2>2, <3>1, <3>2
    <3>6. \A r \in s.routes : Len(first.route) <= Len(r.route)
      BY <1>4, <2>2, <3>1, <3>5
    <3>7. Passed(s, p, verdict, scan, m) = {first}
      BY <1>4, <2>2, <3>1, <3>2, <3>3, <3>5
    <3> QED BY <2>2, <3>1, <3>6, <3>7
  <2>4. m \in DOMAIN now /\ now[m] \in Passed(s, p, verdict, scan, m)
    BY <2>3 DEF PolicyChosen
  <2> QED BY <2>3, <2>4
<1>10. \A n \in DOMAIN now : n \in acc
  BY PolicyChosenSpec
<1>11. ASSUME NEW n \in acc PROVE n = m /\ Meets(Pair, key) /\ RouteKeyFor(s, p, n) = Pair /\ s.routes # {}
  BY <1>6, <1>8
<1>12. Meetings(t) = Meetings(s) \cup {x \in {m} : Meets(Pair, key)}
  BY <1>1 DEF Meetings
<1> HIDE DEF t, acc, now, m, key
<1>13. /\ DOMAIN t.matches = IF t.routes = {} THEN {} ELSE Meetings(t)
       /\ DOMAIN t.chosen = DOMAIN t.matches
  <2>1. CASE s.routes = {}
    BY <1>1, <1>5, <1>10, <1>11, <2>1
  <2>2. CASE s.routes # {}
    <3>1. Meets(Pair, key) => m \in acc \/ m \in DOMAIN s.matches
      BY <1>7, <1>8, <2>2
    <3>2. acc \subseteq {x \in {m} : Meets(Pair, key)}
      BY <1>11
    <3>3. DOMAIN t.matches = Meetings(t)
      BY <1>1, <1>5, <1>12, <2>2, <3>1, <3>2
    <3>4. DOMAIN now = acc
      BY <1>9, <1>10, <3>2
    <3> QED BY <1>1, <1>5, <2>2, <3>3, <3>4
  <2> QED BY <2>1, <2>2
<1>14. \A n \in DOMAIN t.matches : Matched(t, n)
  <2> SUFFICES ASSUME NEW n \in DOMAIN t.matches PROVE Matched(t, n)
    OBVIOUS
  <2>1. CASE n \in acc
    <3>1. t.matches[n] = <<key, Pair>> /\ Meets(Pair, key) /\ n = m
      BY <1>1, <1>11, <2>1
    <3> QED BY <1>1, <3>1 DEF Matched, m
  <2>2. CASE n \notin acc
    BY <1>1, <1>5, <2>2 DEF Matched
  <2> QED BY <2>1, <2>2
<1>15. ASSUME NEW n \in DOMAIN t.chosen
       PROVE  Shortest(t, t.chosen[n]) /\ t.chosen[n] \in t.advertised
  <2>1. CASE n \in DOMAIN now
    BY <1>1, <1>2, <1>9, <1>10, <1>11, <2>1 DEF Shortest
  <2>2. CASE n \notin DOMAIN now
    BY <1>1, <1>2, <1>5, <2>2 DEF Shortest
  <2> QED BY <2>1, <2>2
<1>16. t.advertised \subseteq t.routes
  BY <1>1, <1>3, <1>5, PropagatedRoutes
<1>17. ChoicesMade(t)
  BY <1>13, <1>14, <1>15, <1>16 DEF ChoicesMade
<1> QED BY <1>3, <1>17 DEF t

\* Who is on the path that is passed on.
LEMMA OccursInFront ==
  ASSUME NEW a \in Pids, NEW q \in Seq(Pids), NEW b
  PROVE  Occurs(b, <<a>> \o q) <=> b = a \/ Occurs(b, q)
<1> DEFINE p == <<a>> \o q
<1>1. /\ Len(p) = Len(q) + 1
      /\ p[1] = a
      /\ \A i \in 1..Len(q) : p[i + 1] = q[i]
      /\ \A i \in 1..(Len(q) + 1) : i # 1 => i - 1 \in 1..Len(q) /\ p[i] = q[i - 1]
      /\ Len(q) \in Nat
  BY PutInFront
<1> HIDE DEF p
<1>2. ASSUME Occurs(b, p) PROVE b = a \/ Occurs(b, q)
  BY <1>1, <1>2 DEF Occurs
<1>3. ASSUME b = a PROVE Occurs(b, p)
  BY <1>1, <1>3 DEF Occurs
<1>4. ASSUME Occurs(b, q) PROVE Occurs(b, p)
  <2>1. PICK i \in 1..Len(q) : q[i] = b
    BY <1>4 DEF Occurs
  <2>2. i + 1 \in 1..Len(p) /\ p[i + 1] = b
    BY <1>1, <2>1
  <2> QED BY <2>2 DEF Occurs
<1> QED BY <1>2, <1>3, <1>4 DEF p

\* What SAFE grants without exception is posted.
LEMMA AllPosted ==
  ASSUME Undisturbed, NEW candidates, NEW handled, Post(candidates, handled)
  PROVE  inflight' = (inflight \ handled) \cup candidates
<1>1. \A T \in Granted(candidates) : T = candidates
  BY DEF Undisturbed, Granted
<1> QED BY <1>1 DEF Post

\* Routes and policies go to every peer that has not had them.
LEMMA RoutePosted ==
  ASSUME NEW a \in Sdxes, NEW routes, NEW ps, NEW r \in routes, r \in RouteAdvertises,
         NEW b \in ps, b # a, b # r.owner, ~ Occurs(b, r.route)
  PROVE  Copy(a, b, r) \in RouteMessages(a, routes, ps)
<1>1. a \in Pids /\ r.route \in Seq(Pids)
  BY SdxAssumption DEF RouteAdvertises
<1>2. b \in RouteTargets(PassedOn(r, a), ps)
  <2>1. /\ PassedOn(r, a).route = <<a>> \o r.route
        /\ PassedOn(r, a).advertiser = a /\ PassedOn(r, a).owner = r.owner
    BY <1>1, PassedOnRoute
  <2>2. ~ Occurs(b, <<a>> \o r.route)
    BY <1>1, OccursInFront
  <2> QED BY <2>1, <2>2 DEF RouteTargets
<1> QED BY <1>2 DEF RouteMessages, Copy

PolicyTo(b, p) == [kind |-> "policy", to |-> b, adv |-> p]

LEMMA PolicyPosted ==
  ASSUME NEW policies, NEW ps, NEW p \in policies, NEW b \in ps,
         b # p.owner, b # p.advertiser, ~ Occurs(b, p.route), p.owner # NoPid
  PROVE  PolicyTo(b, p) \in PolicyMessagesTo(policies, ps)
BY DEF PolicyMessagesTo, PolicyTargets, PolicyTo

\* All copies of a policy have the owner, not an SDX, and the token.
LEMMA GenuineFacts ==
  ASSUME Undisturbed, NEW p, Genuine(p)
  PROVE  /\ p.owner \in Pids \ Sdxes /\ p.owner # NoPid
         /\ \A q : Genuine(q) /\ PolicyKey(q) = PolicyKey(p) =>
              q.owner = p.owner /\ q.token = p.token
BY NullAssumption DEF Undisturbed, Genuine

LEMMA GenuineCopy ==
  ASSUME NEW p \in PolicyAdvertises, NEW a
  PROVE  /\ PolicyKey(PassedOn(p, a)) = PolicyKey(p)
         /\ PassedOn(p, a).owner = p.owner
         /\ PassedOn(p, a).token = p.token
         /\ PassedOn(p, a).advertiser = a /\ PassedOn(p, a).route = <<a>> \o p.route
         /\ Genuine(p) => Genuine(PassedOn(p, a))
<1>1. /\ PassedOn(p, a).owner = p.owner /\ PassedOn(p, a).token = p.token
      /\ PassedOn(p, a).dest = p.dest /\ PassedOn(p, a).src = p.src
      /\ PassedOn(p, a).advertiser = a /\ PassedOn(p, a).route = <<a>> \o p.route
  BY DEF PassedOn, PolicyAdvertises
<1>2. PolicyKey(PassedOn(p, a)) = PolicyKey(p)
  BY <1>1 DEF PolicyKey
<1> QED BY <1>1, <1>2 DEF Genuine

\* Policies once known stay, and so does where they have been.
Kept == \A a \in Sdxes : \A k : Has(a, k) => Has(a, k)'

LEMMA VisitedKept ==
  ASSUME Kept, NEW p, Visited(p)
  PROVE  Visited(p)'
BY DEF Kept, Visited

LEMMA AgreementStarts ==
  ASSUME Init, Undisturbed
  PROVE  AgreementInv
<1>1. /\ am = [a \in Sdxes |-> InitEngine]
      /\ peers = [a \in Sdxes |-> {}] /\ inflight = Offered
  BY DEF Init
<1>2. /\ InitEngine.routes = {} /\ InitEngine.advertised = {}
      /\ DOMAIN InitEngine.policies = {PolicyKey(DefaultPolicy)}
      /\ InitEngine.policies[PolicyKey(DefaultPolicy)] = DefaultPolicy
      /\ DOMAIN InitEngine.matches = {} /\ DOMAIN InitEngine.chosen = {}
  BY DEF InitEngine, EmptyMap
<1>3. ChoicesMade(InitEngine)
  BY <1>2 DEF ChoicesMade
<1>4. PoliciesGenuine
  <2>1. Visited(DefaultPolicy)
    BY SdxAssumption, NullAssumption DEF Visited, DefaultPolicy, Occurs
  <2>2. ASSUME NEW m \in inflight, m.kind = "policy" PROVE Genuine(m.adv) /\ Visited(m.adv)
    BY <1>1, <2>2 DEF Genuine, Visited, Undisturbed
  <2> QED BY <1>1, <1>2, <2>1, <2>2 DEF PoliciesGenuine
<1>5. PoliciesReach /\ RoutesReach
  BY <1>1 DEF PoliciesReach, RoutesReach
<1> QED BY <1>1, <1>3, <1>4, <1>5 DEF AgreementInv

\* A new peer is told what there is that it has not had.
LEMMA NewPeerTold ==
  ASSUME Undisturbed, RoutingInv, AgreementInv, NEW a \in Sdxes, NEW b \in Sdxes,
         NewPeer(a, b), am' = am
  PROVE  AgreementInv'
<1> DEFINE routes   == {r \in am[a].routes : ~ Occurs(b, r.route)}
           policies == {am[a].policies[k] : k \in DOMAIN am[a].policies}
<1>1. /\ peers' = [peers EXCEPT ![a] = @ \cup {b}]
      /\ inflight' = inflight \cup (RouteMessages(a, routes, {b}) \cup PolicyMessagesTo(policies, {b}))
  <2>1. /\ peers' = [peers EXCEPT ![a] = @ \cup {b}]
        /\ Post(RouteMessages(a, routes, {b}) \cup PolicyMessagesTo(policies, {b}), {})
    BY DEF NewPeer
  <2> HIDE DEF routes, policies
  <2> QED BY <2>1, AllPosted
<1>2. /\ peers \in [Sdxes -> SUBSET Sdxes]
      /\ am[a].routes \subseteq RouteAdvertises /\ am[a].advertised \subseteq am[a].routes
  BY DEF RoutingInv, NetInv, TypeInv, TablesTyped, AgreementInv, ChoicesMade
<1>3. \A c \in Sdxes : \A d \in peers'[c] : d \in peers[c] \/ (c = a /\ d = b)
  <2>1. \A c \in Sdxes : peers'[c] = IF c = a THEN peers[c] \cup {b} ELSE peers[c]
    BY <1>1, <1>2
  <2> QED BY <2>1
<1>4. \A k \in DOMAIN am[a].policies :
        LET p == am[a].policies[k]
        IN  PolicyKey(p) = k /\ Visited(p) /\ (p = DefaultPolicy \/ Genuine(p))
  BY DEF AgreementInv, PoliciesGenuine
<1>5. \A p \in policies : p.owner # NoPid => Genuine(p) /\ Visited(p)
  BY <1>4 DEF DefaultPolicy
<1>6. \A k \in DOMAIN am[a].policies : am[a].policies[k] \in policies
  OBVIOUS
<1> HIDE DEF policies
<1>7. \A p : Visited(p) => Visited(p)'
  BY DEF Visited, Has
<1>8. PoliciesGenuine'
  <2>1. ASSUME NEW m \in inflight', m.kind = "policy" PROVE Genuine(m.adv) /\ Visited(m.adv)
    <3>1. CASE m \in inflight
      BY <2>1, <3>1 DEF AgreementInv, PoliciesGenuine
    <3>2. CASE m \in RouteMessages(a, routes, {b})
      BY <2>1, <3>2, RouteMessagesAre DEF Copy
    <3>3. CASE m \in PolicyMessagesTo(policies, {b})
      BY <1>5, <3>3, PolicyMessagesAre
    <3> QED BY <1>1, <3>1, <3>2, <3>3
  <2> QED BY <1>7, <2>1 DEF AgreementInv, PoliciesGenuine
<1>9. PoliciesReach'
  <2> SUFFICES ASSUME NEW c \in Sdxes, NEW d \in peers'[c] \ {c}, NEW k \in DOMAIN am[c].policies,
                      Genuine(am[c].policies[k])
               PROVE  Reaches(d, k)'
    BY DEF PoliciesReach
  <2>1. CASE d \in peers[c]
    <3>1. Reaches(d, k)
      BY <2>1 DEF AgreementInv, PoliciesReach
    <3> QED BY <1>1, <3>1 DEF Reaches, Has
  <2>2. CASE c = a /\ d = b
    <3> DEFINE p == am[a].policies[k]
    <3>1. /\ p \in policies /\ PolicyKey(p) = k /\ Visited(p) /\ Genuine(p)
          /\ b # p.owner /\ p.owner # NoPid
      BY <1>4, <1>6, <2>2, GenuineFacts
    <3> HIDE DEF p
    <3>2. CASE b = p.advertiser \/ Occurs(b, p.route)
      BY <2>2, <3>1, <3>2 DEF Visited, Reaches, Has
    <3>3. CASE b # p.advertiser /\ ~ Occurs(b, p.route)
      <4>1. PolicyTo(b, p) \in inflight'
        BY <1>1, <3>1, <3>3, PolicyPosted
      <4> QED BY <2>2, <3>1, <4>1 DEF Reaches, PolicyTo
    <3> QED BY <3>2, <3>3
  <2> QED BY <1>3, <2>1, <2>2
<1>10. RoutesReach'
  <2> SUFFICES ASSUME NEW c \in Sdxes, NEW d \in peers'[c] \ {c}, NEW r \in am[c].advertised,
                      d # r.owner, ~ Occurs(d, r.route)
               PROVE  Learning(c, d, r)'
    BY DEF RoutesReach
  <2>1. CASE d \in peers[c]
    <3>1. Learning(c, d, r)
      BY <2>1 DEF AgreementInv, RoutesReach
    <3> QED BY <1>1, <3>1 DEF Learning
  <2>2. CASE c = a /\ d = b
    <3>1. Copy(a, b, r) \in inflight'
      BY <1>1, <1>2, <2>2, RoutePosted
    <3> QED BY <2>2, <3>1 DEF Learning
  <2> QED BY <1>3, <2>1, <2>2
<1> QED BY <1>8, <1>9, <1>10 DEF AgreementInv

\* A message that was handled is no longer needed where it went to, if it was
\* recorded, and what the table took from it was passed on.
LEMMA RoutesReachKept ==
  ASSUME RoutesReach, Grows, NetInv', NEW m \in inflight, NEW a \in Sdxes, NEW routes, NEW others,
         peers' = peers,
         inflight' = (inflight \ {m}) \cup (RouteMessages(a, routes, peers[a]) \cup others),
         m.kind = "bgp" => m.adv \in am'[m.to].routes,
         \A c \in Sdxes \ {a} : am'[c].advertised = am[c].advertised,
         am'[a].advertised \subseteq am[a].advertised \cup routes,
         am'[a].advertised \subseteq am'[a].routes
  PROVE  RoutesReach'
<1> SUFFICES ASSUME NEW c \in Sdxes, NEW d \in peers[c] \ {c}, NEW r \in am'[c].advertised,
                    d # r.owner, ~ Occurs(d, r.route)
             PROVE  Learning(c, d, r)'
  BY DEF RoutesReach
<1>1. CASE r \in am[c].advertised
  <2>1. Learning(c, d, r)
    BY <1>1 DEF RoutesReach
  <2>2. CASE PassedOn(r, c) \in am[d].routes
    <3>1. d \in Sdxes
      BY DEF NetInv, TypeInv
    <3> QED BY <2>2, <3>1 DEF Learning, Grows
  <2>3. CASE Copy(c, d, r) \in inflight /\ m = Copy(c, d, r)
    BY <2>3 DEF Learning, Copy
  <2>4. CASE Copy(c, d, r) \in inflight /\ m # Copy(c, d, r)
    BY <2>4 DEF Learning
  <2> QED BY <2>1, <2>2, <2>3, <2>4 DEF Learning
<1>2. CASE c = a /\ r \in routes
  <2>1. r \in RouteAdvertises
    BY <1>2 DEF NetInv, TypeInv, TablesTyped
  <2>2. Copy(a, d, r) \in inflight'
    BY <1>2, <2>1, RoutePosted
  <2> QED BY <1>2, <2>2 DEF Learning
<1> QED BY <1>1, <1>2

\* configFib finds every network.
LEMMA ConfigSucceeds ==
  ASSUME NetInv', stitched' = stitched, NEW a \in Sdxes
  PROVE  ~ ConfigFails(a, am'[a])
BY DEF NetInv, FibStitched, ConfigFails, NewEntries

\* A route is recorded, and passed on if it is chosen.
LEMMA BgpAdvertiseTold ==
  ASSUME Undisturbed, RoutingInv, RoutingInv', NetStep, AgreementInv,
         NEW m \in inflight, BgpAdvertise(m)
  PROVE  AgreementInv'
<1> DEFINE a == m.to
           r == m.adv
<1>1. m.kind = "bgp" /\ a \in Sdxes /\ r \in RouteAdvertises
  BY DEF BgpAdvertise, RoutingInv, NetInv, TypeInv, BgpMessages, PolicyMessages
<1>2. PICK verdict \in Verdicts(a, AdvertiseAsks(am[a], r)) :
        /\ am' = [am EXCEPT ![a] = ReceiveAdvertise(am[a], r, verdict)]
        /\ LET routes == IF ConfigFails(a, am'[a]) THEN {}
                         ELSE AdvertisePropagates(am[a], r, verdict)
           IN  Post(RouteMessages(a, routes, peers[a]), {m})
  BY DEF BgpAdvertise
<1> DEFINE new    == ReceiveAdvertise(am[a], r, verdict)
           routes == AdvertisePropagates(am[a], r, verdict)
<1>3. peers' = peers /\ stitched' = stitched
  BY DEF BgpAdvertise
<1>4. EngineInv(am[a]) /\ ChoicesMade(am[a]) /\ PairRoute(r) /\ DOMAIN am = Sdxes
  <2>1. EngineInv(am[a]) /\ Sound(a, r) /\ Shared(r) /\ DOMAIN am = Sdxes
    BY <1>1 DEF RoutingInv, RoutesShared, NetInv, RoutesSound, TypeInv
  <2>2. PairRoute(r)
    BY <1>1, <2>1, SharedForPair DEF Sound
  <2> QED BY <1>1, <2>1, <2>2 DEF AgreementInv
<1>5. \A n \in AdvertiseAccepted(am[a], r) :
        IsCompliant(am[a], verdict, am[a].policies[PolicyFor(am[a], r, n)], r)
  BY <1>1, <1>4, AdvertiseCompliant DEF PairRoute
<1>6. ChoicesMade(new) /\ new.advertised = am[a].advertised \cup routes
  BY <1>4, <1>5, ChoicesOfAdvertise, Zenon
<1>7. new.routes = am[a].routes \cup {r} /\ new.policies = am[a].policies
  BY ReceiveAdvertiseTables
<1>8. Post(RouteMessages(a, routes, peers[a]), {m})
  <2>1. ~ ConfigFails(a, am'[a])
    BY <1>1, <1>3, ConfigSucceeds DEF RoutingInv
  <2> QED BY <1>2, <2>1
<1>9. am' = [am EXCEPT ![a] = new]
  BY <1>2
<1>10. m.to = a /\ m.adv = r
  OBVIOUS
<1> HIDE DEF new, routes, a, r
<1>11. inflight' = (inflight \ {m}) \cup RouteMessages(a, routes, peers[a])
  BY <1>8, AllPosted
<1>12. \A c \in Sdxes : am'[c] = IF c = a THEN new ELSE am[c]
  BY <1>1, <1>4, <1>9
<1>13. \A c \in Sdxes : ChoicesMade(am'[c])
  BY <1>6, <1>12, Zenon DEF AgreementInv
<1>14. \A c \in Sdxes : am'[c].policies = am[c].policies
  BY <1>7, <1>12
<1>15. \A b \in Sdxes : \A k : Has(b, k)' <=> Has(b, k)
  BY <1>14 DEF Has
<1>16. \A p : Visited(p) => Visited(p)'
  BY <1>15 DEF Visited
<1>17. PoliciesGenuine'
  <2>1. ASSUME NEW l \in inflight', l.kind = "policy" PROVE l \in inflight
    BY <1>11, <2>1, RouteMessagesAre DEF Copy
  <2> QED BY <1>14, <1>16, <2>1 DEF AgreementInv, PoliciesGenuine
<1>18. PoliciesReach'
  <2> SUFFICES ASSUME NEW c \in Sdxes, NEW d \in peers'[c] \ {c}, NEW k \in DOMAIN am'[c].policies,
                      Genuine(am'[c].policies[k])
               PROVE  Reaches(d, k)'
    BY DEF PoliciesReach
  <2>1. Reaches(d, k) /\ d \in Sdxes
    BY <1>3, <1>14 DEF AgreementInv, PoliciesReach, RoutingInv, NetInv, TypeInv
  <2> QED BY <1>1, <1>11, <1>15, <2>1 DEF Reaches
<1>19. RoutesReach'
  <2>1. RoutesReach /\ Grows /\ NetInv'
    BY DEF AgreementInv, NetStep, RoutingInv
  <2>2. inflight' = (inflight \ {m}) \cup (RouteMessages(a, routes, peers[a]) \cup {})
    BY <1>11
  <2>3. m.adv \in am'[m.to].routes
    BY <1>1, <1>7, <1>10, <1>12
  <2>4. /\ \A c \in Sdxes \ {a} : am'[c].advertised = am[c].advertised
        /\ am'[a].advertised \subseteq am[a].advertised \cup routes
        /\ am'[a].advertised \subseteq am'[a].routes
    BY <1>1, <1>6, <1>12 DEF ChoicesMade
  <2> QED BY <1>1, <1>3, <2>1, <2>2, <2>3, <2>4, RoutesReachKept
<1> QED BY <1>13, <1>17, <1>18, <1>19 DEF AgreementInv

\* A policy is recorded and passed on, with the routes that are chosen for it.
LEMMA PolicyAdvertiseTold ==
  ASSUME Undisturbed, RoutingInv, RoutingInv', NetStep, AgreementInv,
         NEW m \in inflight, m.kind = "policy", PolicyAdvertise(m)
  PROVE  AgreementInv'
<1> DEFINE a == m.to
           p == m.adv
<1>1. a \in Sdxes /\ a \in Pids /\ p \in PolicyAdvertises
  BY SdxAssumption DEF RoutingInv, NetInv, TypeInv, BgpMessages, PolicyMessages
<1>2. PICK verdict \in Verdicts(a, {p} \X PolicyRoutes(am[a], p)) :
        \E scan \in PolicyScans(am[a], p, verdict) :
          /\ am' = [am EXCEPT ![a] = ReceiveOutboundPolicy(am[a], p, verdict, scan)]
          /\ Post(RouteMessages(a, PolicyPropagates(am[a], p, verdict, scan), peers[a])
                    \cup PolicyMessagesTo({PassedOn(p, a)}, peers[a]), {m})
  BY DEF PolicyAdvertise
<1>3. PICK scan \in PolicyScans(am[a], p, verdict) :
        /\ am' = [am EXCEPT ![a] = ReceiveOutboundPolicy(am[a], p, verdict, scan)]
        /\ Post(RouteMessages(a, PolicyPropagates(am[a], p, verdict, scan), peers[a])
                  \cup PolicyMessagesTo({PassedOn(p, a)}, peers[a]), {m})
  BY <1>2
<1> DEFINE new    == ReceiveOutboundPolicy(am[a], p, verdict, scan)
           routes == PolicyPropagates(am[a], p, verdict, scan)
           key    == PolicyKey(p)
           copy   == PassedOn(p, a)
<1>4. peers' = peers
  BY DEF PolicyAdvertise
<1>5. /\ EngineInv(am[a]) /\ ChoicesMade(am[a]) /\ DOMAIN am = Sdxes
      /\ Trusted(p) /\ Genuine(p) /\ Visited(p)
  BY <1>1 DEF RoutingInv, PoliciesTrusted, NetInv, TypeInv, AgreementInv, PoliciesGenuine
<1>6. \A r \in scan : IsCompliant(am[a], verdict, p, r)
  BY <1>5, PolicyCompliant
<1>7. ChoicesMade(new) /\ new.advertised = am[a].advertised \cup routes
  BY <1>1, <1>5, <1>6, ChoicesOfPolicy
<1>8. /\ new.routes = am[a].routes
      /\ DOMAIN new.policies = DOMAIN am[a].policies \cup {key}
      /\ new.policies[key] = p
      /\ \A k \in DOMAIN am[a].policies \ {key} : new.policies[k] = am[a].policies[k]
  BY ReceiveOutboundPolicyTables
<1>9. /\ PolicyKey(copy) = key /\ copy.owner = p.owner
      /\ copy.advertiser = a /\ copy.route = <<a>> \o p.route /\ Genuine(copy)
  BY <1>1, <1>5, GenuineCopy
<1>10. /\ am' = [am EXCEPT ![a] = new]
       /\ Post(RouteMessages(a, routes, peers[a]) \cup PolicyMessagesTo({copy}, peers[a]), {m})
       /\ m.to = a /\ m.adv = p /\ PolicyKey(p) = key
  BY <1>3
<1> HIDE DEF new, routes, key, copy, a, p
<1>11. inflight' = (inflight \ {m})
                     \cup (RouteMessages(a, routes, peers[a]) \cup PolicyMessagesTo({copy}, peers[a]))
  BY <1>10, AllPosted
<1>12. \A c \in Sdxes : am'[c] = IF c = a THEN new ELSE am[c]
  BY <1>1, <1>5, <1>10
<1>13. \A c \in Sdxes : ChoicesMade(am'[c])
  BY <1>7, <1>12, Zenon DEF AgreementInv
<1>14. Kept /\ Has(a, key)'
  BY <1>1, <1>5, <1>8, <1>12 DEF Kept, Has
<1>15. Visited(p)' /\ Visited(copy)'
  <2>1. Visited(p)'
    BY <1>5, <1>14, VisitedKept
  <2>2. ASSUME NEW b \in Sdxes, b = a \/ Occurs(b, <<a>> \o p.route) PROVE Has(b, key)'
    <3>1. b = a \/ Occurs(b, p.route)
      BY <1>1, <2>2, OccursInFront DEF PolicyAdvertises
    <3> QED BY <1>10, <1>14, <2>1, <3>1 DEF Visited
  <2> QED BY <1>9, <2>1, <2>2 DEF Visited
<1>16. PoliciesGenuine'
  <2>1. ASSUME NEW l \in inflight', l.kind = "policy" PROVE Genuine(l.adv) /\ Visited(l.adv)'
    <3>1. CASE l \in inflight
      BY <1>14, <2>1, <3>1, VisitedKept DEF AgreementInv, PoliciesGenuine
    <3>2. CASE l \in RouteMessages(a, routes, peers[a])
      BY <2>1, <3>2, RouteMessagesAre DEF Copy
    <3>3. CASE l \in PolicyMessagesTo({copy}, peers[a])
      <4>1. l.adv = copy
        BY <3>3, PolicyMessagesAre
      <4> QED BY <1>9, <1>15, <4>1
    <3> QED BY <1>11, <3>1, <3>2, <3>3
  <2>2. ASSUME NEW c \in Sdxes, NEW k \in DOMAIN am'[c].policies, NEW q, q = am'[c].policies[k]
        PROVE  PolicyKey(q) = k /\ Visited(q)' /\ (q = DefaultPolicy \/ Genuine(q))
    <3>1. CASE c = a /\ k = key
      <4>1. q = p
        BY <1>1, <1>8, <1>12, <2>2, <3>1
      <4> QED BY <1>5, <1>10, <1>15, <3>1, <4>1
    <3>2. CASE ~ (c = a /\ k = key)
      <4>1. k \in DOMAIN am[c].policies /\ q = am[c].policies[k]
        BY <1>8, <1>12, <2>2, <3>2
      <4>2. PolicyKey(q) = k /\ Visited(q) /\ (q = DefaultPolicy \/ Genuine(q))
        BY <4>1 DEF AgreementInv, PoliciesGenuine
      <4> QED BY <1>14, <4>2, VisitedKept
    <3> QED BY <3>1, <3>2
  <2>3. ASSUME NEW c \in Sdxes, NEW k \in DOMAIN am'[c].policies
        PROVE  LET q == am'[c].policies[k]
               IN  /\ PolicyKey(q) = k /\ (q = DefaultPolicy \/ Genuine(q))
                   /\ \A b \in Sdxes : b = q.advertiser \/ Occurs(b, q.route) => Has(b, k)'
    <3>1. PICK q : q = am'[c].policies[k]
      OBVIOUS
    <3>2. PolicyKey(q) = k /\ Visited(q)' /\ (q = DefaultPolicy \/ Genuine(q))
      BY <2>2, <3>1
    <3>3. \A b \in Sdxes : b = q.advertiser \/ Occurs(b, q.route) => Has(b, k)'
      BY <3>2 DEF Visited, Has
    <3> QED BY <3>1, <3>2, <3>3
  <2> QED BY <2>1, <2>3 DEF PoliciesGenuine, Visited, Has, Genuine
<1>17. ASSUME NEW c \in Sdxes, NEW d \in peers[c] \ {c}, NEW k \in DOMAIN am'[c].policies,
              Genuine(am'[c].policies[k])
       PROVE  Reaches(d, k)'
  <2>1. d \in Sdxes
    BY DEF RoutingInv, NetInv, TypeInv
  <2>2. CASE c = a /\ k = key
    <3>1. p.owner \in Pids \ Sdxes /\ p.owner # NoPid
      BY <1>5, GenuineFacts
    <3>2. CASE Occurs(d, p.route)
      <4>1. Has(d, key)'
        BY <1>10, <1>15, <2>1, <3>2 DEF Visited
      <4> QED BY <2>2, <4>1 DEF Reaches
    <3>3. CASE ~ Occurs(d, p.route)
      <4>1. ~ Occurs(d, <<a>> \o p.route)
        BY <1>1, <2>2, <3>3, OccursInFront DEF PolicyAdvertises
      <4>2. d # copy.owner /\ d # copy.advertiser /\ ~ Occurs(d, copy.route) /\ copy.owner # NoPid
        BY <1>9, <2>1, <2>2, <3>1, <4>1
      <4>3. PolicyTo(d, copy) \in inflight'
        BY <1>11, <2>2, <4>2, PolicyPosted
      <4> QED BY <1>9, <2>2, <4>3 DEF Reaches, PolicyTo
    <3> QED BY <3>2, <3>3
  <2>3. CASE ~ (c = a /\ k = key)
    <3>1. k \in DOMAIN am[c].policies /\ am'[c].policies[k] = am[c].policies[k]
      BY <1>8, <1>12, <2>3
    <3>2. Reaches(d, k)
      BY <1>17, <3>1 DEF AgreementInv, PoliciesReach
    <3>3. CASE Has(d, k)
      BY <1>14, <2>1, <3>3 DEF Kept, Reaches
    <3>4. CASE \E l \in inflight : l.kind = "policy" /\ l.to = d /\ PolicyKey(l.adv) = k
      <4>1. PICK l \in inflight : l.kind = "policy" /\ l.to = d /\ PolicyKey(l.adv) = k
        BY <3>4
      <4>2. CASE l = m
        BY <1>10, <1>14, <4>1, <4>2 DEF Reaches
      <4>3. CASE l # m
        BY <1>11, <4>1, <4>3 DEF Reaches
      <4> QED BY <4>2, <4>3
    <3> QED BY <3>2, <3>3, <3>4 DEF Reaches
  <2> QED BY <2>2, <2>3
<1>18. PoliciesReach'
  <2> SUFFICES ASSUME NEW c \in Sdxes, NEW d \in peers'[c] \ {c}, NEW k \in DOMAIN am'[c].policies,
                      Genuine(am'[c].policies[k])
               PROVE  Reaches(d, k)'
    BY DEF PoliciesReach
  <2> QED BY <1>4, <1>17
<1>19. RoutesReach'
  <2>1. RoutesReach /\ Grows /\ NetInv'
    BY DEF AgreementInv, NetStep, RoutingInv
  <2>2. /\ \A c \in Sdxes \ {a} : am'[c].advertised = am[c].advertised
        /\ am'[a].advertised \subseteq am[a].advertised \cup routes
        /\ am'[a].advertised \subseteq am'[a].routes
    BY <1>1, <1>7, <1>12 DEF ChoicesMade
  <2> QED BY <1>1, <1>4, <1>11, <2>1, <2>2, RoutesReachKept
<1> QED BY <1>13, <1>16, <1>18, <1>19 DEF AgreementInv

\* Every step keeps the agreement.
LEMMA AgreementKept ==
  ASSUME Undisturbed, RoutingInv, AgreementInv, [Next]_vars
  PROVE  AgreementInv'
<1>1. RoutingInv' /\ NetStep
  BY NextRefines, NextNetStep DEF RoutingInv
<1>2. CASE am' = am /\ peers' = peers /\ inflight' = inflight
  <2>1. \A a \in Sdxes : ChoicesMade(am'[a])
    BY <1>2, Zenon DEF AgreementInv
  <2>2. PoliciesGenuine' /\ PoliciesReach' /\ RoutesReach'
    BY <1>2 DEF AgreementInv, PoliciesGenuine, PoliciesReach, RoutesReach, Visited, Has,
                Genuine, Reaches, Learning
  <2> QED BY <2>1, <2>2 DEF AgreementInv
<1>3. ASSUME NEW a \in Sdxes, NEW b \in Sdxes, ServePeer(a, b) PROVE AgreementInv'
  BY <1>3, NewPeerTold DEF ServePeer
<1>4. ASSUME NEW a \in Sdxes, FinishPeer(a) PROVE AgreementInv'
  <2>1. call[a].phase = "peered" /\ NewPeer(a, call[a].to) /\ am' = am
    BY <1>4 DEF FinishPeer
  <2>2. call[a].to \in Sdxes
    BY <2>1 DEF RoutingInv, NetInv, CallsStitched, Phases
  <2> QED BY <2>1, <2>2, NewPeerTold
<1>5. ASSUME NEW m \in inflight, Handle(m) \/ Lose(m) PROVE AgreementInv'
  <2>1. BgpAdvertise(m) \/ PolicyAdvertise(m)
    BY <1>5 DEF Handle, Refuse, Lose, Undisturbed
  <2>2. PolicyAdvertise(m) => m.kind = "policy"
    BY DEF PolicyAdvertise
  <2> QED BY <1>1, <2>1, <2>2, BgpAdvertiseTold, PolicyAdvertiseTold
<1>6. ASSUME NEW a \in Sdxes, Stitching(a) PROVE AgreementInv'
  <2>1. ASSUME NEW b \in Sdxes, StitchRequest(a, b) PROVE AgreementInv'
    BY <1>2, <2>1 DEF StitchRequest
  <2>2. CASE AskToPeer(a) \/ GiveUp(a)
    BY <1>2, <2>2 DEF AskToPeer, GiveUp
  <2> QED BY <1>3, <1>4, <1>6, <2>1, <2>2 DEF Stitching
<1>7. ASSUME NEW a \in Sdxes, NEW b \in Sdxes, StitchCmd(a, b) PROVE AgreementInv'
  BY <1>2, <1>7 DEF StitchCmd
<1>8. CASE UNCHANGED vars
  BY <1>2, <1>8 DEF vars
<1> QED BY <1>5, <1>6, <1>7, <1>8 DEF Next

\* Who has no message left has what its peers have.
LEMMA QuietAgrees ==
  ASSUME Undisturbed, RoutingInv, AgreementInv
  PROVE  QuietAgreement
<1>1. SUFFICES ASSUME Quiet PROVE QuietRoutes /\ QuietPolicies
  BY DEF QuietAgreement, QuietRoutes, QuietPolicies
<1>2. inflight = {} /\ \A a \in Sdxes : \A b \in peers[a] : b \in Sdxes
  BY <1>1 DEF Quiet, RoutingInv, NetInv, TypeInv
<1>3. ASSUME NEW a \in Sdxes, NEW b \in peers[a] \ {a}, NEW k \in DOMAIN am[a].policies,
             am[a].policies[k].owner # NoPid
      PROVE  /\ k \in DOMAIN am[b].policies
             /\ am[b].policies[k].owner = am[a].policies[k].owner
             /\ am[b].policies[k].token = am[a].policies[k].token
  <2>1. /\ PolicyKey(am[a].policies[k]) = k /\ Genuine(am[a].policies[k])
    BY <1>3 DEF AgreementInv, PoliciesGenuine, DefaultPolicy
  <2>2. Has(b, k)
    BY <1>2, <2>1 DEF AgreementInv, PoliciesReach, Reaches
  <2>3. PolicyKey(am[b].policies[k]) = k
    BY <1>2, <2>2 DEF AgreementInv, PoliciesGenuine, Has
  <2> QED BY <2>1, <2>2, <2>3, GenuineFacts DEF Has
<1>4. QuietPolicies
  <2> SUFFICES ASSUME NEW a \in Sdxes, NEW b \in peers[a], NEW k \in DOMAIN am[a].policies,
                      am[a].policies[k].owner # NoPid
               PROVE  /\ k \in DOMAIN am[b].policies
                      /\ am[b].policies[k].owner = am[a].policies[k].owner
                      /\ am[b].policies[k].token = am[a].policies[k].token
    BY DEF QuietPolicies
  <2> QED BY <1>3
<1>5. ASSUME NEW a \in Sdxes, NEW b \in peers[a] \ {a}, NEW n \in DOMAIN am[a].chosen,
             NEW r, r = am[a].chosen[n], b # r.owner, ~ Occurs(b, r.route)
      PROVE  /\ n \in DOMAIN am[b].chosen
             /\ Len(am[b].chosen[n].route) <= Len(r.route) + 1
  <2>1. /\ ChoicesMade(am[a]) /\ ChoicesMade(am[b]) /\ EngineInv(am[a]) /\ EngineInv(am[b])
    BY <1>2 DEF AgreementInv, RoutingInv
  <2>2. r \in am[a].advertised /\ r \in am[a].routes
    BY <1>5, <2>1 DEF ChoicesMade
  <2>3. PassedOn(r, a) \in am[b].routes
    BY <1>2, <1>5, <2>2 DEF AgreementInv, RoutesReach, Learning
  <2>4. Len(PassedOn(r, a).route) = Len(r.route) + 1
    <3>1. r \in RouteAdvertises /\ a \in Pids /\ r.route \in Seq(Pids)
      BY <2>1, <2>2, SdxAssumption DEF EngineInv, PairRoute, RouteAdvertises
    <3>2. PassedOn(r, a).route = <<a>> \o r.route
      BY <3>1, PassedOnRoute
    <3> QED BY <3>1, <3>2, PutInFront
  <2>5. n \in Meetings(am[b])
    <3>1. PICK k \in DOMAIN am[a].policies : Meets(Pair, k) /\ Intersect(Pair, k) = n
      BY <2>1 DEF ChoicesMade, Meetings
    <3>2. k \in DOMAIN am[b].policies
      <4>1. CASE am[a].policies[k].owner # NoPid
        BY <1>3, <4>1
      <4>2. CASE am[a].policies[k].owner = NoPid
        <5>1. PolicyKey(am[a].policies[k]) = k /\ am[a].policies[k] = DefaultPolicy
          BY <4>2, GenuineFacts DEF AgreementInv, PoliciesGenuine
        <5> QED BY <2>1, <5>1 DEF EngineInv
      <4> QED BY <4>1, <4>2
    <3> QED BY <3>1, <3>2 DEF Meetings
  <2>6. n \in DOMAIN am[b].chosen /\ Shortest(am[b], am[b].chosen[n])
    BY <2>1, <2>3, <2>5 DEF ChoicesMade
  <2> QED BY <2>3, <2>4, <2>6 DEF Shortest
<1>6. ASSUME NEW a \in Sdxes, NEW n \in DOMAIN am[a].chosen
      PROVE  Len(am[a].chosen[n].route) <= Len(am[a].chosen[n].route) + 1
  <2>1. am[a].chosen[n] \in RouteAdvertises
    BY DEF AgreementInv, ChoicesMade, Shortest, RoutingInv, EngineInv, PairRoute
  <2> QED BY <2>1 DEF RouteAdvertises
<1>7. QuietRoutes
  <2> SUFFICES ASSUME NEW a \in Sdxes, NEW b \in peers[a], NEW n \in DOMAIN am[a].chosen,
                      b # am[a].chosen[n].owner, ~ Occurs(b, am[a].chosen[n].route)
               PROVE  /\ n \in DOMAIN am[b].chosen
                      /\ Len(am[b].chosen[n].route) <= Len(am[a].chosen[n].route) + 1
    BY DEF QuietRoutes
  <2> QED BY <1>5, <1>6
<1> QED BY <1>4, <1>7

\* SDXes that peer agree as soon as nothing is on the way, in whatever order they
\* have peered and heard of routes and policies (updatePeer, processBgpAdvertise,
\* processPolicyAdvertise): if no post is lost and SAFE refuses nothing, and
\* customers do not offer different policies for one prefix pair.
THEOREM Agreement ==
  ASSUME Undisturbed
  PROVE  Spec => []QuietAgreement
<1>1. Init => AgreementInv
  BY AgreementStarts, Undisturbed
<1>2. RoutingInv /\ AgreementInv /\ [Next]_vars => AgreementInv'
  BY AgreementKept, Undisturbed
<1>3. RoutingInv /\ AgreementInv => QuietAgreement
  BY QuietAgrees, Undisturbed
<1> QED BY <1>1, <1>2, <1>3, RoutingInvariance, PTL DEF Spec
==============================================================================
