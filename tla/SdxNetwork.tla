----------------------------- MODULE SdxNetwork ------------------------------
(***************************************************************************)
(* SDXes that stitch to each other, peer, and exchange route and policy    *)
(* advertisements: ExoSdxManager's stitch command and its handlers of      *)
(* /stitchrequest, /peer, /bgp and /policy, around one AdvertiseManager    *)
(* per SDX.                                                                *)
(*                                                                         *)
(* All of them are synchronized methods of the manager.  A handler is one  *)
(* step.  The stitch command is several, because it posts to the other SDX *)
(* and waits for the answer, without a time limit, inside its own monitor: *)
(* until it has ended no handler of that SDX runs.  Advertisements are     *)
(* posted by a thread of their own each, so they arrive in any order, and  *)
(* one whose post fails is lost: nobody looks at the result.               *)
(*                                                                         *)
(* SAFE is on.  Its server is outside the code: a guard's answer is any    *)
(* member of Answers.                                                      *)
(***************************************************************************)
EXTENDS AdvertiseEngine, FiniteSets

CONSTANTS
  Sdxes,       \* the SDXes
  Customers,   \* a function from every SDX to the customers stitched to it
  Offered,     \* messages customers post to their SDXes, at any time
  Stitches,    \* the stitch commands <<a, b>> given to a, each of them once
  Answers,     \* what the SAFE server may answer to a guard
  Lossy        \* whether posts may fail

ASSUME SdxAssumption ==
  /\ Sdxes \subseteq Pids
  /\ Customers \in [Sdxes -> SUBSET (Pids \ Sdxes)]
  /\ Stitches \subseteq {ab \in Sdxes \X Sdxes : ab[1] # ab[2]}
  /\ SafeEnabled
  /\ Answers \subseteq BOOLEAN /\ Answers # {}
  /\ Lossy \in BOOLEAN

BgpMessages    == [kind : {"bgp"}, to : Sdxes, adv : RouteAdvertises]
PolicyMessages == [kind : {"policy"}, to : Sdxes, adv : PolicyAdvertises]

ASSUME OfferedAssumption == Offered \subseteq BgpMessages \cup PolicyMessages

\* A customer advertises to an SDX it is stitched to, and puts itself, and only
\* itself, on the path (SdxExogeniClient.processBgpCmd, processPrefixCmd).
ASSUME CustomersAssumption ==
  \A m \in Offered : m.kind = "bgp" =>
    m.adv.advertiser \in Customers[m.to] /\ m.adv.route = <<m.adv.advertiser>>

VARIABLES
  am,         \* advertiseManager of each SDX, an engine
  peers,      \* keys of peerUrls: the SDXes advertisements are sent on to
  stitched,   \* keys of customerNodes: the networks an SDX can forward to
  commands,   \* the stitch commands not given yet
  call,       \* what the stitch command of an SDX is waiting for, if one runs
  inflight    \* advertisements posted and not handled yet

vars == <<am, peers, stitched, commands, call, inflight>>

(***************************************************************************)
(* A stitch command that runs has asked for the stitch or is peering (its  *)
(* post is on the way or waits for the other monitor), or the answer to    *)
(* one of the two posts is there.                                          *)
(***************************************************************************)
Phases == {"asking", "stitched", "refused", "peering", "peered"}
Idle == [phase |-> "idle", to |-> NoPid]

Init ==
  /\ am = [a \in Sdxes |-> InitEngine]
  /\ peers = [a \in Sdxes |-> {}]
  /\ stitched = Customers
  /\ commands = Stitches
  /\ call = [a \in Sdxes |-> Idle]
  /\ inflight = Offered

MonitorFree(a) == call[a] = Idle

Occurs(a, path) == \E i \in 1..Len(path) : path[i] = a

\* The answers to one guard asked about each member of S: those it holds for.
Granted(S) ==
  {T \in SUBSET S : /\ T # S => FALSE \in Answers
                    /\ T # {} => TRUE \in Answers}

Verdicts(a, pairs) == [pairs \ DOMAIN am[a].checked -> Answers]

\* A mutation: the copy keeps the advertiser.
PassedOnAsIs(adv, a) == [adv EXCEPT !.route = <<a>> \o @]

\* The copy of an advertisement that SDX a passes on, a at the front of its path.
PassedOn(adv, a) == [adv EXCEPT !.route = <<a>> \o @, !.advertiser = a]

\* A mutation: the path is not looked at.
RouteTargetsAnywhere(adv, ps) == {b \in ps : b # adv.owner /\ b # adv.advertiser}

\* propagateRouteToPeer and propagatePolicyToPeer: who is to be asked about.
RouteTargets(adv, ps) ==
  {b \in ps : b # adv.owner /\ b # adv.advertiser /\ ~ Occurs(b, adv.route)}

PolicyTargets(adv, ps) ==
  {b \in ps : /\ b # adv.owner /\ b # adv.advertiser /\ ~ Occurs(b, adv.route)
              /\ adv.owner # NoPid}

\* The messages that pass the routes on from SDX a to those of ps.
RouteMessages(a, routes, ps) ==
  UNION {{[kind |-> "bgp", to |-> b, adv |-> PassedOn(r, a)] :
            b \in RouteTargets(PassedOn(r, a), ps)} : r \in routes}

PolicyMessagesTo(policies, ps) ==
  UNION {{[kind |-> "policy", to |-> b, adv |-> p] :
            b \in PolicyTargets(p, ps)} : p \in policies}

\* A mutation: the sender posts a message again although it has been handled.
PostAgain(candidates, handled) ==
  \E sent \in Granted(candidates) : inflight' = inflight \cup sent

\* Those of the messages whose receiver satisfies verifyAS are posted.
Post(candidates, handled) ==
  \E sent \in Granted(candidates) : inflight' = (inflight \ handled) \cup sent

------------------------------------------------------------------------------
(***************************************************************************)
(* The stitch command of SDX a to SDX b: processStitchCmd.                 *)
(***************************************************************************)
StitchCmd(a, b) ==
  /\ MonitorFree(a)
  /\ <<a, b>> \in commands
  /\ commands' = commands \ {<<a, b>>}
  /\ call' = [call EXCEPT ![a] = [phase |-> "asking", to |-> b]]
  /\ UNCHANGED <<am, peers, stitched, inflight>>

\* b handles a's /stitchrequest: stitchRequest.
StitchRequest(a, b) ==
  /\ MonitorFree(b)
  /\ call[a] = [phase |-> "asking", to |-> b]
  /\ \E ok \in Answers :
       /\ stitched' = IF ok THEN [stitched EXCEPT ![b] = @ \cup {a}] ELSE stitched
       /\ call' = [call EXCEPT ![a].phase = IF ok THEN "stitched" ELSE "refused"]
  /\ UNCHANGED <<am, peers, commands, inflight>>

\* A mutation: the peering request is posted before the stitch is recorded.
AskToPeerEarly(a) ==
  /\ call[a].phase = "stitched"
  /\ call' = [call EXCEPT ![a].phase = "peering"]
  /\ UNCHANGED <<am, peers, stitched, commands, inflight>>

\* a has the answer: it records the stitch and posts its peering request.
AskToPeer(a) ==
  /\ call[a].phase = "stitched"
  /\ stitched' = [stitched EXCEPT ![a] = @ \cup {call[a].to}]
  /\ call' = [call EXCEPT ![a].phase = "peering"]
  /\ UNCHANGED <<am, peers, commands, inflight>>

\* The stitch command gives up: it was refused, or an answer does not come.
GiveUp(a) ==
  /\ \/ call[a].phase = "refused"
     \/ Lossy /\ call[a].phase \in Phases
  /\ call' = [call EXCEPT ![a] = Idle]
  /\ UNCHANGED <<am, peers, stitched, commands, inflight>>

\* A mutation: a new peer is told only the routes.
NewPeerRoutesOnly(a, b) ==
  /\ peers' = [peers EXCEPT ![a] = @ \cup {b}]
  /\ Post(RouteMessages(a, {r \in am[a].routes : ~ Occurs(b, r.route)}, {b}), {})

\* updatePeer: the tables go to a new peer, routes with a in front, policies as
\* they are.
NewPeer(a, b) ==
  /\ peers' = [peers EXCEPT ![a] = @ \cup {b}]
  /\ LET routes   == {r \in am[a].routes : ~ Occurs(b, r.route)}
         policies == {am[a].policies[k] : k \in DOMAIN am[a].policies}
     IN  Post(RouteMessages(a, routes, {b}) \cup PolicyMessagesTo(policies, {b}), {})

\* b handles a's /peer: processPeerRequest.
ServePeer(a, b) ==
  /\ MonitorFree(b)
  /\ call[a] = [phase |-> "peering", to |-> b]
  /\ NewPeer(b, a)
  /\ call' = [call EXCEPT ![a].phase = "peered"]
  /\ UNCHANGED <<am, stitched, commands>>

\* A mutation: the command does not end.
FinishPeerForever(a) ==
  /\ call[a].phase = "peered"
  /\ NewPeer(a, call[a].to)
  /\ UNCHANGED <<am, stitched, commands, call>>

\* a has the answer to its peering request, and the command ends.
FinishPeer(a) ==
  /\ call[a].phase = "peered"
  /\ NewPeer(a, call[a].to)
  /\ call' = [call EXCEPT ![a] = Idle]
  /\ UNCHANGED <<am, stitched, commands>>

------------------------------------------------------------------------------
(***************************************************************************)
(* The handlers of advertisements.  configFib throws when a forwarding     *)
(* entry is new and its neighbour not stitched: in processBgpAdvertise     *)
(* before the route is propagated, in processPolicyAdvertise after.        *)
(***************************************************************************)
NewEntries(old, new) ==
  {n \in DOMAIN new.fib : n \notin DOMAIN old.fib \/ old.fib[n] # new.fib[n]}

ConfigFails(a, new) ==
  \E n \in NewEntries(am[a], new) : new.fib[n] \notin stitched[a]

\* processBgpAdvertise of a message SAFE refuses.
Refuse(m) ==
  /\ m \in inflight /\ m.kind = "bgp"
  /\ MonitorFree(m.to)
  /\ FALSE \in Answers
  /\ inflight' = inflight \ {m}
  /\ UNCHANGED <<am, peers, stitched, commands, call>>

\* processBgpAdvertise of a message SAFE authorizes.
BgpAdvertise(m) ==
  LET a == m.to
      r == m.adv
  IN  /\ m \in inflight /\ m.kind = "bgp"
      /\ MonitorFree(a)
      /\ TRUE \in Answers
      /\ \E verdict \in Verdicts(a, AdvertiseAsks(am[a], r)) :
           /\ am' = [am EXCEPT ![a] = ReceiveAdvertise(am[a], r, verdict)]
           /\ LET routes == IF ConfigFails(a, am'[a]) THEN {}
                            ELSE AdvertisePropagates(am[a], r, verdict)
              IN  Post(RouteMessages(a, routes, peers[a]), {m})
      /\ UNCHANGED <<peers, stitched, commands, call>>

\* processPolicyAdvertise: the policy itself is always passed on.
PolicyAdvertise(m) ==
  LET a == m.to
      p == m.adv
  IN  /\ m \in inflight /\ m.kind = "policy"
      /\ MonitorFree(a)
      /\ \E verdict \in Verdicts(a, {p} \X PolicyRoutes(am[a], p)) :
           \E scan \in PolicyScans(am[a], p, verdict) :
             /\ am' = [am EXCEPT ![a] = ReceiveOutboundPolicy(am[a], p, verdict, scan)]
             /\ Post(RouteMessages(a, PolicyPropagates(am[a], p, verdict, scan), peers[a])
                       \cup PolicyMessagesTo({PassedOn(p, a)}, peers[a]), {m})
      /\ UNCHANGED <<peers, stitched, commands, call>>

\* The post of an advertisement fails.
Lose(m) ==
  /\ Lossy
  /\ m \in inflight
  /\ inflight' = inflight \ {m}
  /\ UNCHANGED <<am, peers, stitched, commands, call>>

------------------------------------------------------------------------------
Handle(m) == Refuse(m) \/ BgpAdvertise(m) \/ PolicyAdvertise(m)

Stitching(a) ==
  \/ \E b \in Sdxes : StitchRequest(a, b) \/ ServePeer(a, b)
  \/ AskToPeer(a) \/ GiveUp(a) \/ FinishPeer(a)

Next ==
  \/ \E a, b \in Sdxes : StitchCmd(a, b)
  \/ \E a \in Sdxes : Stitching(a)
  \/ \E m \in inflight : Handle(m) \/ Lose(m)

Spec == Init /\ [][Next]_vars

\* Every thread that can take its next step takes it at some time; commands are
\* given when the operators please.
Fairness ==
  /\ \A a \in Sdxes : WF_vars(Stitching(a))
  /\ WF_vars(\E m \in inflight : Handle(m))

FairSpec == Spec /\ Fairness

------------------------------------------------------------------------------
(***************************************************************************)
(* Advertised paths are simple and do not come back: no SDX keeps or is    *)
(* sent a route that leads through itself or twice through anyone.  There  *)
(* is no check on arrival; the senders see to it, updatePeer on its own.   *)
(***************************************************************************)
Simple(path) == \A i, j \in 1..Len(path) : path[i] = path[j] => i = j

PathsSimple ==
  /\ \A a \in Sdxes : \A r \in am[a].routes :
       Simple(r.route) /\ ~ Occurs(a, r.route)
  /\ \A m \in inflight : m.kind = "bgp" =>
       Simple(m.adv.route) /\ ~ Occurs(m.to, m.adv.route)

(***************************************************************************)
(* A route is backed by the neighbour that sent it: the neighbour is the   *)
(* advertiser and the first on the path, and it keeps the rest of the path *)
(* as a route of its own for the same prefixes.                            *)
(***************************************************************************)
BackedBy(r) ==
  /\ r.advertiser = Head(r.route)
  /\ r.advertiser \in Sdxes =>
       \E q \in am[r.advertiser].routes :
         /\ q.route = Tail(r.route)
         /\ q.dest = r.dest /\ q.src = r.src /\ q.owner = r.owner

RoutesBacked ==
  /\ \A a \in Sdxes : \A r \in am[a].routes : BackedBy(r)
  /\ \A m \in inflight : m.kind = "bgp" => BackedBy(m.adv)

(***************************************************************************)
(* configFib never meets a neighbour without a stitched network, which     *)
(* would make it throw after the engine has taken the route: whoever may   *)
(* send an SDX routes has been recorded as stitched to it before.          *)
(***************************************************************************)
NeighborsStitched ==
  /\ \A a \in Sdxes : \A n \in DOMAIN am[a].fib : am[a].fib[n] \in stitched[a]
  /\ \A a, b \in Sdxes : b \in peers[a] => b \in stitched[a] /\ a \in stitched[b]

(***************************************************************************)
(* A stitch command ends, and with it the time in which its SDX handles    *)
(* nothing.  It takes that the commands do not wait for each other in a    *)
(* circle: the SDXes stitch in one direction only.                         *)
(***************************************************************************)
StitchEnds ==
  \A a \in Sdxes : []<>(call[a] = Idle)

\* The exchange of advertisements comes to an end.
Quiet == inflight = {} /\ \A a \in Sdxes : call[a] = Idle

ExchangeEnds == <>[]Quiet

(***************************************************************************)
(* When nothing is on the way, SDXes that peer agree: for each prefix pair *)
(* for which one has chosen a route that the other is not on and does not  *)
(* own, the other has chosen a route too, at most one step longer.         *)
(***************************************************************************)
QuietRoutes ==
  Quiet =>
    \A a \in Sdxes : \A b \in peers[a] : \A n \in DOMAIN am[a].chosen :
      LET r == am[a].chosen[n]
      IN  (b # r.owner /\ ~ Occurs(b, r.route)) =>
            /\ n \in DOMAIN am[b].chosen
            /\ Len(am[b].chosen[n].route) <= Len(r.route) + 1

(***************************************************************************)
(* A policy that one SDX has is known to the SDXes it peers with, unless   *)
(* the policy has come through them.  The path of the copy on record says  *)
(* less than where it has been: updatePeer passes policies on unchanged.   *)
(***************************************************************************)
QuietPolicies ==
  Quiet =>
    \A a \in Sdxes : \A b \in peers[a] : \A k \in DOMAIN am[a].policies :
      LET p == am[a].policies[k]
      IN  p.owner # NoPid =>
            /\ k \in DOMAIN am[b].policies
            /\ am[b].policies[k].owner = p.owner
            /\ am[b].policies[k].token = p.token

(***************************************************************************)
(* Both: SDXes that have exchanged everything agree, whenever they peered. *)
(***************************************************************************)
QuietAgreement == QuietRoutes /\ QuietPolicies
==============================================================================
