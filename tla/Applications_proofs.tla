-------------------------- MODULE Applications_proofs --------------------------
(***************************************************************************)
(* Proofs about the parts of Applications, for any packets, VLANs, rules,  *)
(* switches, customers and links.                                          *)
(***************************************************************************)
EXTENDS Applications, Sequences, FiniteSetTheorems, WellFoundedInduction, TLAPS

(* A step of the whole is a step of each part, or leaves it alone.           *)
LEMMA Separate ==
    ASSUME [Next]_vars
    PROVE  /\ part' = part
           /\ part = "suspended" => [Suspended!Next]_suspendedVars
           /\ part = "vlans" => [Vlans!Next]_vlanVars
           /\ part = "flows" => [Flows!Next]_flowVars
           /\ part = "learning" => [Learning!Next]_learningVars
           /\ part = "ingress" => [Ingress!Next]_ingressVars
           /\ part = "mirror" => [Mirror!Next]_mirrorVars
           /\ part = "vfc" => [Vfc!Next]_mirrorVars
           /\ part \in {"qos", "conf"} => [Qos!Next]_qosVars
           /\ part = "rest" => [Rest!Next]_restVars
           /\ part = "stitches" => [Stitches!Next]_stitchVars
           /\ part = "links" => [Links!Next]_linkVars
           /\ part = "restart" => [Restart!Next]_restartVars
BY DEF Next, Moves, vars, Qos!Next

-----------------------------------------------------------------------------
(* Suspended packets.                                                        *)
Waits == {"switch", "buffer", "taken"}
Places == Waits \cup {"dropped", "lost", "out", "refused"}

PacketsTyped ==
    /\ place \in [Packet -> Places]
    /\ outcome \in [Packet -> Nat]
    /\ buffer \subseteq Packet
    /\ done \in [Suspended!Greenlet -> SUBSET Packet]

\* A packet that still waits has had no outcome; one is in the buffer or with
\* the one greenlet that took it out.
Placed ==
    /\ \A p \in Packet : place[p] \in Waits => outcome[p] = 0
    /\ \A p \in buffer : place[p] = "buffer"
    /\ \A g \in Suspended!Greenlet : \A p \in done[g] : place[p] = "taken"
    /\ \A g, h \in Suspended!Greenlet : \A p \in done[g] \cap done[h] : g = h

SuspendedInv == PacketsTyped /\ Placed /\ Suspended!OneOutcome

(* The inductive invariant holds at first.                                   *)
LEMMA SuspendedInit == Suspended!Init => SuspendedInv
BY DEF Suspended!Init, SuspendedInv, PacketsTyped, Placed, Suspended!OneOutcome, Waits, Places

(* Each step keeps it: a release and a timer exclude each other by the buffer.*)
LEMMA SuspendedStep == SuspendedInv /\ [Suspended!Next]_suspendedVars => SuspendedInv'
<1> SUFFICES ASSUME SuspendedInv, [Suspended!Next]_suspendedVars PROVE SuspendedInv'
  OBVIOUS
<1> USE DEF SuspendedInv, PacketsTyped, Placed, Suspended!OneOutcome, Waits, Places
<1>1. ASSUME NEW p \in Packet, Suspended!PacketIn(p) PROVE SuspendedInv'
  BY <1>1 DEF Suspended!PacketIn, Suspended!work
<1>2. ASSUME NEW p \in Packet, Suspended!Forward(p) PROVE SuspendedInv'
  BY <1>2 DEF Suspended!Forward, Suspended!work
<1>3. ASSUME NEW p \in Packet, Suspended!Timeout(p) PROVE SuspendedInv'
  BY <1>3 DEF Suspended!Timeout, Suspended!work
<1>4. ASSUME NEW r \in PacketRoutes, Suspended!PostRoute(r) PROVE SuspendedInv'
  BY <1>4 DEF Suspended!PostRoute
<1>5. ASSUME NEW row \in table, Suspended!DeleteRoute(row) PROVE SuspendedInv'
  BY <1>5 DEF Suspended!DeleteRoute, Suspended!work
<1>6. ASSUME NEW gw \in Gateway, NEW reply \in BOOLEAN, Suspended!ArpIn(gw, reply)
      PROVE  SuspendedInv'
  BY <1>6 DEF Suspended!ArpIn
<1>7. CASE Suspended!SetAddress
  BY <1>7 DEF Suspended!SetAddress, Suspended!work
<1>8. CASE Suspended!DeleteAddress
  BY <1>8 DEF Suspended!DeleteAddress
<1>9. CASE Suspended!AddressDeleted
  BY <1>9 DEF Suspended!AddressDeleted, Suspended!Greenlet
<1>10. ASSUME NEW g \in Suspended!Greenlet, NEW p \in Packet, Suspended!TakeOut(g, p)
       PROVE  SuspendedInv'
  BY <1>10 DEF Suspended!TakeOut
<1>11. ASSUME NEW g \in Suspended!Greenlet, NEW p \in Packet, Suspended!TakeOutFails(g, p)
       PROVE  SuspendedInv'
  BY <1>11 DEF Suspended!TakeOutFails
<1>12. ASSUME NEW g \in Suspended!Greenlet, Suspended!Send(g) PROVE SuspendedInv'
  BY <1>12 DEF Suspended!Send
<1>13. CASE UNCHANGED suspendedVars
  BY <1>13 DEF suspendedVars
<1>14. QED
  BY <1>1, <1>2, <1>3, <1>4, <1>5, <1>6, <1>7, <1>8, <1>9, <1>10, <1>11, <1>12, <1>13
  DEF Suspended!Next

(* A packet that waited is forwarded once or reported unreachable once.      *)
THEOREM DecidedOnce == Spec => []OneOutcome
<1> DEFINE Inv == part = "suspended" => SuspendedInv
<1>1. Init => Inv
  BY SuspendedInit DEF Init
<1>2. Inv /\ [Next]_vars => Inv'
  BY Separate, SuspendedStep
<1>3. Inv => OneOutcome
  BY DEF OneOutcome, SuspendedInv
<1>4. QED
  BY <1>1, <1>2, <1>3, PTL DEF Spec

-----------------------------------------------------------------------------
(* Learning switches.                                                        *)
Places13 == Port \cup {Nowhere}
PacketTold ==
    [is : {"packet"}, in : Places13, src : Host, dst : Host, moves : Nat, buffered : BOOLEAN]
DeletionTold == [is : {"deleted"}, in : Port]

\* Where a host was when it had made so many moves, as far as that is still so.
Heard(where, n, count) ==
    count \in Nat /\ count <= moves[n] /\ (count = moves[n] => where = plug[n])

LearningTyped ==
    /\ moves \in [Host -> Nat]
    /\ mac_to_port \in [Host -> [port : Places13, moves : Nat]]
    /\ told \in Seq(PacketTold \cup DeletionTold)
    /\ plug \in [Host -> Places13]

LearningInv ==
    /\ LearningTyped
    /\ \A i \in 1 .. Len(told) : told[i].is = "packet" => Heard(told[i].in, told[i].src, told[i].moves)
    /\ \A n \in Host : mac_to_port[n] # Learning!Unheard =>
          Heard(mac_to_port[n].port, n, mac_to_port[n].moves)
    /\ \A f \in learntFlow : f.dst \in Host /\ Heard(f.out, f.dst, f.moves)

(* The inductive invariant holds at first: nothing was heard.                *)
LEMMA LearningStarts == Learning!Init => LearningInv
<1> SUFFICES ASSUME Learning!Init PROVE LearningInv
  OBVIOUS
<1>1. LearningTyped
  BY DEF Learning!Init, Learning!Unheard, LearningTyped, Places13
<1>2. QED
  BY <1>1 DEF Learning!Init, LearningInv

(* What was heard holds good while hosts move on.                            *)
LEMMA MovesKeep ==
    ASSUME LearningInv, NEW places \in [Host -> Places13], NEW made \in [Host -> Nat],
           plug' = places, moves' = made,
           \A n \in Host : (made[n] = moves[n] /\ places[n] = plug[n]) \/ made[n] = moves[n] + 1
    PROVE  /\ \A where, count : \A n \in Host : Heard(where, n, count) => Heard(where, n, count)'
           /\ moves' \in [Host -> Nat] /\ plug' \in [Host -> Places13]
BY DEF LearningInv, LearningTyped, Heard

(* A message more, about what is so now.                                     *)
LEMMA TellKeeps ==
    ASSUME LearningInv, NEW message \in PacketTold \cup DeletionTold, Learning!Tell(message),
           message.is = "packet" => Heard(message.in, message.src, message.moves)'
    PROVE  told' \in Seq(PacketTold \cup DeletionTold) /\
           \A i \in 1 .. Len(told') :
               (i \in 1 .. Len(told) /\ told'[i] = told[i]) \/ (i = Len(told) + 1 /\ told'[i] = message)
BY DEF LearningInv, LearningTyped, Learning!Tell

(* The first message is handled: the rest are as they were.                  *)
LEMMA HandleKeeps ==
    ASSUME LearningInv, told # <<>>, told' = Tail(told), UNCHANGED <<plug, moves>>
    PROVE  /\ Head(told) \in PacketTold \cup DeletionTold
           /\ told' \in Seq(PacketTold \cup DeletionTold)
           /\ Head(told).is = "packet" => Heard(Head(told).in, Head(told).src, Head(told).moves)
           /\ \A i \in 1 .. Len(told') : told'[i].is = "packet" =>
                 Heard(told'[i].in, told'[i].src, told'[i].moves)
<1>1. told \in Seq(PacketTold \cup DeletionTold)
  BY DEF LearningInv, LearningTyped
<1>2. Head(told) = told[1] /\ 1 \in 1 .. Len(told)
  BY <1>1
<1>3. ASSUME NEW i \in 1 .. Len(told') PROVE i + 1 \in 1 .. Len(told) /\ told'[i] = told[i + 1]
  BY <1>1
<1>4. ASSUME NEW i \in 1 .. Len(told'), told'[i].is = "packet"
      PROVE  Heard(told'[i].in, told'[i].src, told'[i].moves)
  <2>1. PICK j \in 1 .. Len(told) : j = i + 1
    BY <1>3
  <2>2. told'[i] = told[j]
    BY <2>1, <1>3
  <2>3. QED
    BY <2>2, <1>4 DEF LearningInv
<1>5. QED
  BY <1>1, <1>2, <1>4 DEF LearningInv

(* A packet is handled: what is learnt, and the flow that is set, are of what*)
(* was heard.                                                                *)
LEMMA LearnKeeps ==
    ASSUME LearningInv, NEW m, m = Head(told), told # <<>>, m.is = "packet",
           mac_to_port' = Learning!Learn(m), told' = Tail(told), UNCHANGED <<plug, moves>>,
           \A f \in learntFlow' : \/ f \in learntFlow
                                  \/ /\ mac_to_port'[m.dst] # Learning!Unheard
                                     /\ f.dst = m.dst /\ f.out = mac_to_port'[m.dst].port
                                     /\ f.moves = mac_to_port'[m.dst].moves
    PROVE  LearningInv'
<1>1. m \in PacketTold /\ Heard(m.in, m.src, m.moves)
  BY HandleKeeps DEF DeletionTold
<1>2. m.src \in Host /\ m.dst \in Host /\ m.in \in Places13 /\ m.moves \in Nat
  BY <1>1 DEF PacketTold
<1>3. mac_to_port' = [mac_to_port EXCEPT ![m.src] = [port |-> m.in, moves |-> m.moves]]
  BY DEF Learning!Learn
<1>4. mac_to_port \in [Host -> [port : Places13, moves : Nat]]
  BY DEF LearningInv, LearningTyped
<1>5. mac_to_port' \in [Host -> [port : Places13, moves : Nat]]
  BY <1>2, <1>3, <1>4
<1>6. ASSUME NEW n \in Host, mac_to_port'[n] # Learning!Unheard
      PROVE  Heard(mac_to_port'[n].port, n, mac_to_port'[n].moves)
  <2>1. CASE n = m.src
    BY <2>1, <1>1, <1>3, <1>4
  <2>2. CASE n # m.src
    <3>1. mac_to_port'[n] = mac_to_port[n]
      BY <2>2, <1>3, <1>4
    <3>2. QED
      BY <3>1, <1>6 DEF LearningInv
  <2>3. QED
    BY <2>1, <2>2
<1>7. ASSUME NEW f \in learntFlow' PROVE f.dst \in Host /\ Heard(f.out, f.dst, f.moves)
  <2>1. CASE f \in learntFlow
    BY <2>1 DEF LearningInv
  <2>2. CASE f \notin learntFlow
    BY <2>2, <1>2, <1>6, <1>7
  <2>3. QED
    BY <2>1, <2>2
<1>8. LearningTyped'
  <2>1. told' \in Seq(PacketTold \cup DeletionTold)
    BY HandleKeeps
  <2>2. QED
    BY <2>1, <1>5 DEF LearningInv, LearningTyped
<1>9. ASSUME NEW i \in 1 .. Len(told'), told'[i].is = "packet"
      PROVE  Heard(told'[i].in, told'[i].src, told'[i].moves)
  BY <1>9, HandleKeeps
<1>10. QED
  BY <1>6, <1>7, <1>8, <1>9 DEF LearningInv, Heard

(* Each step keeps the invariant.                                            *)
LEMMA LearningStep == LearningInv /\ [Learning!Next]_learningVars => LearningInv'
<1> SUFFICES ASSUME LearningInv, [Learning!Next]_learningVars PROVE LearningInv'
  OBVIOUS
<1>1. /\ moves \in [Host -> Nat] /\ plug \in [Host -> Places13]
      /\ told \in Seq(PacketTold \cup DeletionTold)
  BY DEF LearningInv, LearningTyped
<1>2. ASSUME NEW places \in [Host -> Places13], NEW made \in [Host -> Nat],
             plug' = places, moves' = made, UNCHANGED <<mac_to_port, learntFlow>>,
             \A n \in Host : (made[n] = moves[n] /\ places[n] = plug[n]) \/ made[n] = moves[n] + 1,
             told' \in Seq(PacketTold \cup DeletionTold),
             \A i \in 1 .. Len(told') : \/ i \in 1 .. Len(told) /\ told'[i] = told[i]
                                        \/ told'[i].is # "packet"
                                        \/ \E in, src, count :
                                              /\ in = told'[i].in /\ src = told'[i].src
                                              /\ count = told'[i].moves /\ Heard(in, src, count)'
      PROVE  LearningInv'
  <2>1. \A where, count : \A n \in Host : Heard(where, n, count) => Heard(where, n, count)'
    BY <1>2, MovesKeep
  <2>2. ASSUME NEW i \in 1 .. Len(told'), told'[i].is = "packet"
        PROVE  Heard(told[i].in, told[i].src, told[i].moves)'
    <3>1. CASE i \in 1 .. Len(told) /\ told'[i] = told[i]
      <4>1. told[i].src \in Host
        BY <3>1, <2>2, <1>1 DEF PacketTold, DeletionTold
      <4>2. Heard(told[i].in, told[i].src, told[i].moves)
        BY <3>1, <2>2 DEF LearningInv
      <4>3. PICK in, src, count : in = told[i].in /\ src = told[i].src /\ count = told[i].moves
        OBVIOUS
      <4>4. Heard(in, src, count)'
        BY <4>1, <4>2, <4>3, <2>1
      <4>5. QED
        BY <3>1, <4>3, <4>4 DEF Heard
    <3>2. CASE ~(i \in 1 .. Len(told) /\ told'[i] = told[i])
      <4>1. PICK in, src, count :
              /\ in = told'[i].in /\ src = told'[i].src
              /\ count = told'[i].moves /\ Heard(in, src, count)'
        BY <3>2, <2>2, <1>2
      <4>2. QED
        BY <4>1 DEF Heard
    <3>3. QED
      BY <3>1, <3>2
  <2>3. ASSUME NEW n \in Host, mac_to_port[n] # Learning!Unheard
        PROVE  Heard(mac_to_port[n].port, n, mac_to_port[n].moves)'
    <3>1. PICK where, count : where = mac_to_port[n].port /\ count = mac_to_port[n].moves
      OBVIOUS
    <3>2. Heard(where, n, count)'
      BY <3>1, <2>1, <2>3 DEF LearningInv
    <3>3. QED
      BY <3>1, <3>2, <1>2 DEF Heard
  <2>4. ASSUME NEW f \in learntFlow PROVE f.dst \in Host /\ Heard(f.out, f.dst, f.moves)'
    BY <2>1 DEF LearningInv
  <2>5. LearningTyped'
    BY <1>2 DEF LearningInv, LearningTyped
  <2>6. QED
    BY <2>2, <2>3, <2>4, <2>5, <1>2 DEF LearningInv, Heard
<1>3. ASSUME NEW src \in Host, NEW dst \in Host, NEW buffered \in BOOLEAN,
             Learning!Miss(src, dst, buffered)
      PROVE  LearningInv'
  <2> PICK message : message = [is |-> "packet", in |-> plug[src], src |-> src, dst |-> dst,
                                moves |-> moves[src], buffered |-> buffered]
    OBVIOUS
  <2>1. message \in PacketTold
    BY <1>1 DEF PacketTold
  <2>2. UNCHANGED <<plug, moves, mac_to_port, learntFlow>> /\ Learning!Tell(message)
    BY <1>3 DEF Learning!Miss
  <2>3. Heard(message.in, message.src, message.moves)'
    BY <2>2, <1>1 DEF Heard
  <2>4. /\ told' \in Seq(PacketTold \cup DeletionTold)
        /\ \A i \in 1 .. Len(told') : (i \in 1 .. Len(told) /\ told'[i] = told[i]) \/ told'[i] = message
    BY <2>1, <2>2, <2>3, TellKeeps
  <2>5. PICK in, count : in = message.in /\ count = message.moves /\ message.src = src
    OBVIOUS
  <2>6. Heard(in, src, count)'
    BY <2>3, <2>5 DEF Heard
  <2>7. QED
    BY <2>2, <2>4, <2>5, <2>6, <1>1, <1>2
<1>4. ASSUME NEW n \in Host, NEW p \in Port, Learning!Move(n, p) PROVE LearningInv'
  <2>1. PICK places, made : places = [plug EXCEPT ![n] = p] /\ made = [moves EXCEPT ![n] = @ + 1]
    OBVIOUS
  <2>2. places \in [Host -> Places13] /\ made \in [Host -> Nat]
    BY <2>1, <1>1 DEF Places13
  <2>3. plug' = places /\ moves' = made /\ UNCHANGED <<mac_to_port, learntFlow, told>>
    BY <2>1, <1>4 DEF Learning!Move
  <2>4. \A k \in Host : (made[k] = moves[k] /\ places[k] = plug[k]) \/ made[k] = moves[k] + 1
    BY <2>1, <1>1
  <2>5. QED
    BY <2>2, <2>3, <2>4, <1>1, <1>2
<1>5. ASSUME NEW p \in Port, Learning!DeletePort(p) PROVE LearningInv'
  <2>1. PICK places, made :
          /\ places = [n \in Host |-> IF plug[n] = p THEN Nowhere ELSE plug[n]]
          /\ made = [n \in Host |-> IF plug[n] = p THEN moves[n] + 1 ELSE moves[n]]
    OBVIOUS
  <2>2. places \in [Host -> Places13] /\ made \in [Host -> Nat]
    BY <2>1, <1>1 DEF Places13
  <2>3. PICK message : message = [is |-> "deleted", in |-> p]
    OBVIOUS
  <2>4. message \in DeletionTold /\ message.is # "packet"
    BY <2>3 DEF DeletionTold
  <2>5. /\ plug' = places /\ moves' = made /\ UNCHANGED <<mac_to_port, learntFlow>>
        /\ Learning!Tell(message)
    BY <2>1, <2>3, <1>5 DEF Learning!DeletePort
  <2>6. /\ told' \in Seq(PacketTold \cup DeletionTold)
        /\ \A i \in 1 .. Len(told') : (i \in 1 .. Len(told) /\ told'[i] = told[i]) \/ told'[i] = message
    BY <2>4, <2>5, TellKeeps
  <2>7. \A n \in Host : (made[n] = moves[n] /\ places[n] = plug[n]) \/ made[n] = moves[n] + 1
    BY <2>1
  <2>8. QED
    BY <2>2, <2>4, <2>5, <2>6, <2>7, <1>2
<1>6. ASSUME UNCHANGED <<plug, moves, mac_to_port>>, learntFlow' \subseteq learntFlow,
             told' = told \/ told' = <<>> \/ (told # <<>> /\ told' = Tail(told))
      PROVE  LearningInv'
  <2>1. told' \in Seq(PacketTold \cup DeletionTold)
    <3>1. PICK messages : messages = PacketTold \cup DeletionTold
      OBVIOUS
    <3>2. told \in Seq(messages) /\ <<>> \in Seq(messages)
      BY <1>1, <3>1
    <3>3. told # <<>> => Tail(told) \in Seq(messages)
      BY <3>2
    <3>4. QED
      BY <3>1, <3>2, <3>3, <1>6
  <2>2. \A i \in 1 .. Len(told') : told'[i].is = "packet" =>
          Heard(told'[i].in, told'[i].src, told'[i].moves)
    <3>1. CASE told' = told
      BY <3>1 DEF LearningInv
    <3>2. CASE told' = <<>>
      BY <3>2
    <3>3. CASE told # <<>> /\ told' = Tail(told)
      BY <3>3, <1>6, HandleKeeps
    <3>4. QED
      BY <3>1, <3>2, <3>3, <1>6
  <2>3. QED
    BY <2>1, <2>2, <1>6 DEF LearningInv, LearningTyped, Heard
<1>7. CASE \/ Learning!Restart \/ Learning!SwitchFeatures \/ Learning!DatapathHandler
           \/ Learning!PortStatus \/ UNCHANGED learningVars \/ \E f \in learntFlow : Learning!IdleTimeout(f)
  BY <1>6, <1>7
  DEF Learning!Restart, Learning!SwitchFeatures, Learning!DatapathHandler, Learning!PortStatus,
      Learning!DeleteFlow, Learning!IdleTimeout, learningVars
<1>8. CASE Learning!PacketInBroFails
  <2>1. PICK m : m = Head(told)
    OBVIOUS
  <2>2. QED
    BY <2>1, <1>8, LearnKeeps DEF Learning!PacketInBroFails
<1>9. CASE \/ Learning!PacketInSimple \/ Learning!PacketInSdnctrl \/ Learning!PacketInVfc
           \/ Learning!PacketInChameleon \/ Learning!PacketInBro
  <2>1. PICK m : m = Head(told)
    OBVIOUS
  <2>2. /\ told # <<>> /\ m.is = "packet" /\ mac_to_port' = Learning!Learn(m) /\ told' = Tail(told)
        /\ UNCHANGED <<plug, moves>>
    BY <2>1, <1>9
    DEF Learning!PacketInSimple, Learning!PacketInSdnctrl, Learning!PacketInVfc,
        Learning!PacketInChameleon, Learning!PacketInBro, Learning!PacketIn
  <2>3. PICK to : to = Learning!Learn(m)[m.dst]
    OBVIOUS
  <2>4. \/ UNCHANGED learntFlow
        \/ /\ to # Learning!Unheard
           /\ Learning!AddFlow10(m) \/ Learning!AddFlow13(m) \/ Learning!AddFlowChameleon(m)
    BY <2>1, <2>3, <1>9
    DEF Learning!Target, Learning!PacketInSimple, Learning!PacketInSdnctrl, Learning!PacketInVfc,
        Learning!PacketInChameleon, Learning!PacketInBro, Learning!PacketIn
  <2>5. ASSUME NEW f \in learntFlow', f \notin learntFlow
        PROVE  to # Learning!Unheard /\ f.dst = m.dst /\ f.out = to.port /\ f.moves = to.moves
    BY <2>3, <2>4, <2>5
    DEF Learning!AddFlow10, Learning!AddFlow13, Learning!AddFlowChameleon, Learning!Add,
        Learning!Leading, Learning!Target, Learning!Flow
  <2>6. QED
    BY <2>1, <2>2, <2>3, <2>5, LearnKeeps
<1>10. QED
  BY <1>3, <1>4, <1>5, <1>7, <1>8, <1>9 DEF Learning!Next

(* A flow set after its destination was heard where it is leads there.       *)
THEOREM HostsReached == Spec => []LeadsToHost
<1> DEFINE Inv == part = "learning" => LearningInv
<1>1. Init => Inv
  BY LearningStarts DEF Init, LearningInit
<1>2. Inv /\ [Next]_vars => Inv'
  BY Separate, LearningStep
<1>3. Inv => LeadsToHost
  BY DEF LeadsToHost, Learning!LeadsToHost, LearningInv, Heard
<1>4. QED
  BY <1>1, <1>2, <1>3, PTL DEF Spec

-----------------------------------------------------------------------------
(* Rules of the QoS application.                                             *)
QosRule ==
    [vlan : Vlan, prio : {m.prio : m \in Match}, match : {Qos!ToOpenflow(m.match) : m \in Match},
     id : Nat, counted : BOOLEAN]

RulesTyped ==
    /\ vlanList \in [DOMAIN vlanList -> Nat]
    /\ DOMAIN vlanList \subseteq Vlan
    /\ rules \subseteq QosRule

\* The counter of a VLAN is there as long as its rules are that can be told,
\* and ahead of them.
CountersAhead ==
    \A r \in rules : Qos!CanBeTold(r) => r.vlan \in DOMAIN vlanList /\ r.id <= vlanList[r.vlan]

QosInv == RulesTyped /\ CountersAhead /\ Qos!UniqueIds

(* The inductive invariant holds at first.                                   *)
LEMMA QosInit == NoVlan \in Vlan /\ Qos!Init => QosInv
BY DEF Qos!Init, QosInv, RulesTyped, CountersAhead, Qos!UniqueIds, Qos!NewList

(* The match of a rule that can be told comes back as it is.                 *)
LEMMA MatchComesBack ==
    ASSUME NEW r \in QosRule, Qos!CanBeTold(r)
    PROVE  [r EXCEPT !.match = Qos!ToModOpenflow(r.match)] = r
<1>1. PICK m \in Match : r.match = Qos!ToOpenflow(m.match)
  BY DEF QosRule
<1>2. r.match = [f \in DOMAIN r.match |-> r.match[f]]
  BY <1>1 DEF Qos!ToOpenflow
<1>3. {g \in DOMAIN r.match : r.match[g] # NoValue} = DOMAIN r.match
  BY DEF Qos!CanBeTold
<1>4. Qos!ToModOpenflow(r.match) = r.match
  BY <1>2, <1>3 DEF Qos!ToModOpenflow
<1>5. QED
  BY <1>4 DEF QosRule

(* Names of protocols are told apart by their numbers.                       *)
LEMMA ConvertedBack ==
    ASSUME NEW f \in DOMAIN Qos!Convert, NEW name \in DOMAIN Qos!Convert[f]
    PROVE  (CHOOSE n \in DOMAIN Qos!Convert[f] : Qos!Convert[f][n] = Qos!Convert[f][name]) = name
<1>1. CASE f = "dl_type"
  <2>1. DOMAIN Qos!Convert[f] = {"ARP", "IPv4", "IPv6"}
    BY <1>1 DEF Qos!Convert
  <2>2. \A n \in DOMAIN Qos!Convert[f] : Qos!Convert[f][n] = Qos!Convert[f][name] => n = name
    BY <1>1, <2>1 DEF Qos!Convert
  <2>3. QED
    BY <2>2
<1>2. CASE f = "nw_proto"
  <2>1. DOMAIN Qos!Convert[f] = {"TCP", "UDP", "ICMP", "ICMPv6"}
    BY <1>2 DEF Qos!Convert
  <2>2. \A n \in DOMAIN Qos!Convert[f] : Qos!Convert[f][n] = Qos!Convert[f][name] => n = name
    BY <1>2, <2>1 DEF Qos!Convert
  <2>3. QED
    BY <2>2
<1>3. QED
  BY <1>1, <1>2 DEF Qos!Convert

(* A rule is shown with the match of its request and the dl_type that was    *)
(* implied, when all its fields have values.                                 *)
THEOREM RulesShown ==
    ASSUME NEW m, ~Qos!Refused(m), \A f \in DOMAIN m : m[f] # NoValue
    PROVE  Qos!ToRest(Qos!ToOpenflow(m)) =
             [f \in DOMAIN m \cup {"dl_type"} |-> IF f = "dl_type" THEN Qos!DlType(m) ELSE m[f]]
<1> DEFINE full == [f \in DOMAIN m \cup {"dl_type"} |->
                      IF f = "dl_type" THEN Qos!DlType(m) ELSE m[f]]
           sent == Qos!ToOpenflow(m)
<1>1. /\ DOMAIN sent = DOMAIN full
      /\ \A f \in DOMAIN full :
           sent[f] = IF f \in DOMAIN Qos!Convert THEN Qos!Convert[f][full[f]] ELSE full[f]
  BY DEF Qos!ToOpenflow
<1>2. ASSUME NEW f \in DOMAIN full, f \in DOMAIN Qos!Convert PROVE full[f] \in DOMAIN Qos!Convert[f]
  BY <1>2 DEF Qos!Refused, Qos!Convert
<1> HIDE DEF full, sent
<1>3. ASSUME NEW f \in DOMAIN full PROVE sent[f] # NoValue
  <2>1. CASE f \in DOMAIN Qos!Convert
    <3>1. sent[f] = Qos!Convert[f][full[f]] /\ full[f] \in DOMAIN Qos!Convert[f]
      BY <2>1, <1>1, <1>2
    <3>2. QED
      BY <2>1, <3>1, NoValueAssumption
  <2>2. CASE f \notin DOMAIN Qos!Convert
    BY <2>2, <1>1 DEF Qos!Convert, full
  <2>3. QED
    BY <2>1, <2>2
<1>4. {g \in DOMAIN sent : sent[g] # NoValue} = DOMAIN full
  BY <1>1, <1>3
<1>5. ASSUME NEW f \in DOMAIN full
      PROVE  (IF f \in DOMAIN Qos!Convert
              THEN CHOOSE n \in DOMAIN Qos!Convert[f] : Qos!Convert[f][n] = sent[f]
              ELSE sent[f]) = full[f]
  <2>1. CASE f \in DOMAIN Qos!Convert
    <3>1. sent[f] = Qos!Convert[f][full[f]] /\ full[f] \in DOMAIN Qos!Convert[f]
      BY <2>1, <1>1, <1>2
    <3>2. (CHOOSE n \in DOMAIN Qos!Convert[f] : Qos!Convert[f][n] = Qos!Convert[f][full[f]]) = full[f]
      BY <2>1, <3>1, ConvertedBack
    <3>3. QED
      BY <2>1, <3>1, <3>2
  <2>2. CASE f \notin DOMAIN Qos!Convert
    BY <2>2, <1>1
  <2>3. QED
    BY <2>1, <2>2
<1>6. Qos!ToRest(sent) = [f \in DOMAIN full |-> full[f]]
  BY <1>4, <1>5 DEF Qos!ToRest
<1>7. QED
  BY <1>6 DEF full, sent

(* A rule that is posted gets an id that no other of its VLAN has.           *)
LEMMA SetQosKeeps ==
    ASSUME QosInv, NEW vlans \in SUBSET Vlan, NEW m \in Match, NEW sound \in BOOLEAN,
           Qos!SetQos(vlans, m, sound)
    PROVE  QosInv'
<1> DEFINE New(v) == [vlan |-> v, prio |-> m.prio, match |-> Qos!ToOpenflow(m.match),
                      id |-> Qos!Counted(vlans)[v], counted |-> TRUE]
           new == {New(v) : v \in vlans}
<1>1. /\ DOMAIN Qos!Counted(vlans) = DOMAIN vlanList \cup vlans
      /\ \A v \in DOMAIN vlanList \cup vlans : Qos!Counted(vlans)[v] \in Nat
      /\ \A v \in DOMAIN vlanList : vlanList[v] <= Qos!Counted(vlans)[v]
      /\ \A v \in vlans \cap DOMAIN vlanList : vlanList[v] < Qos!Counted(vlans)[v]
  BY DEF QosInv, RulesTyped, Qos!Counted
<1>2. vlanList' = Qos!Counted(vlans)
  BY DEF Qos!SetQos
<1>3. Qos!Counted(vlans) = [v \in DOMAIN Qos!Counted(vlans) |-> Qos!Counted(vlans)[v]]
  BY DEF Qos!Counted
<1>4. rules' \subseteq rules \cup new
  BY DEF Qos!SetQos
<1>5. new \subseteq QosRule
  <2> SUFFICES ASSUME NEW v \in vlans PROVE New(v) \in QosRule
    OBVIOUS
  <2>1. v \in Vlan /\ Qos!Counted(vlans)[v] \in Nat
    BY <1>1
  <2>2. QED
    BY <2>1 DEF QosRule
<1>6. RulesTyped'
  BY <1>1, <1>2, <1>3, <1>4, <1>5 DEF QosInv, RulesTyped
<1>7. CountersAhead'
  <2> SUFFICES ASSUME NEW r \in rules', Qos!CanBeTold(r)
               PROVE  r.vlan \in DOMAIN Qos!Counted(vlans) /\ r.id <= Qos!Counted(vlans)[r.vlan]
    BY <1>2 DEF CountersAhead
  <2>1. CASE r \in rules
    BY <2>1, <1>1 DEF QosInv, RulesTyped, CountersAhead, QosRule
  <2>2. CASE r \in new
    BY <2>2, <1>1
  <2>3. QED
    BY <2>1, <2>2, <1>4
<1>8. Qos!UniqueIds'
  <2> SUFFICES ASSUME NEW r \in rules', NEW q \in rules', Qos!CanBeTold(r), Qos!CanBeTold(q),
                      r.vlan = q.vlan, r.id = q.id
               PROVE  r = q
    BY DEF Qos!UniqueIds
  <2>1. ASSUME NEW x \in rules, Qos!CanBeTold(x), NEW y \in new, x.vlan = y.vlan PROVE x.id # y.id
    BY <2>1, <1>1 DEF QosInv, RulesTyped, CountersAhead, QosRule
  <2>2. CASE r \in rules /\ q \in rules
    BY <2>2 DEF QosInv, Qos!UniqueIds
  <2>3. CASE r \in new /\ q \in new
    <3>1. PICK v \in vlans : r = New(v)
      BY <2>3
    <3>2. PICK w \in vlans : q = New(w)
      BY <2>3
    <3>3. r.vlan = v /\ q.vlan = w
      BY <3>1, <3>2
    <3>4. QED
      BY <3>1, <3>2, <3>3
  <2>4. QED
    BY <2>1, <2>2, <2>3, <1>4
<1>9. QED
  BY <1>6, <1>7, <1>8 DEF QosInv

(* A deletion forgets only counters of VLANs without rules that it has       *)
(* counted and that can be told, and never that of NoVlan.                   *)
LEMMA DeleteQosKeeps ==
    ASSUME QosInv, NEW d, NEW seen, NEW v, NEW id, Qos!DeleteQos(d, seen, v, id)
    PROVE  QosInv'
<1> DEFINE meant == {r \in Qos!Listed(seen) : Qos!Meant(r, v, id)}
           kept == {w \in DOMAIN vlanList :
                      w = NoVlan \/ w \in {r.vlan : r \in Qos!Listed(seen) \ meant}}
           After(r) == [r EXCEPT !.counted = @ /\ r \in seen]
<1>1. /\ vlanList' = [w \in kept |-> vlanList[w]]
      /\ rules' = {After(r) : r \in Qos!Without(meant)}
  BY DEF Qos!DeleteQos, Qos!Deletes
<1>2. ASSUME NEW r \in rules'
      PROVE  r \in QosRule /\ (Qos!CanBeTold(r) => r \in Qos!Without(meant) /\ r \in seen)
  <2>1. PICK q \in Qos!Without(meant) : r = After(q)
    BY <1>1
  <2>2. q \in QosRule
    BY <2>1 DEF Qos!Without, QosInv, RulesTyped
  <2>3. r \in QosRule
    BY <2>1, <2>2 DEF QosRule
  <2>4. ASSUME Qos!CanBeTold(r) PROVE r = q /\ q \in seen
    <3>1. r.counted
      BY <2>4 DEF Qos!CanBeTold
    <3>2. q.counted /\ q \in seen
      BY <3>1, <2>1, <2>2 DEF QosRule
    <3>3. QED
      BY <3>2, <2>1, <2>2 DEF QosRule
  <2>5. QED
    BY <2>1, <2>3, <2>4
<1>3. RulesTyped'
  BY <1>1, <1>2 DEF QosInv, RulesTyped
<1>4. ASSUME NEW r \in rules', Qos!CanBeTold(r) PROVE r \in rules /\ r \in Qos!Listed(seen) \ meant
  <2>1. r \in Qos!Without(meant) /\ r \in seen /\ r \in QosRule
    BY <1>2, <1>4
  <2>2. Qos!Same(r, [r EXCEPT !.match = Qos!ToModOpenflow(r.match)])
    BY <2>1, <1>4, MatchComesBack DEF Qos!Same
  <2>3. r \notin meant
    BY <2>1, <2>2 DEF Qos!Without
  <2>4. QED
    BY <2>1, <2>3, <1>4 DEF Qos!Without, Qos!Listed, Qos!CanBeTold
<1>5. CountersAhead'
  <2> SUFFICES ASSUME NEW r \in rules', Qos!CanBeTold(r)
               PROVE  r.vlan \in DOMAIN vlanList' /\ r.id <= vlanList'[r.vlan]
    BY DEF CountersAhead
  <2>1. r.vlan \in DOMAIN vlanList /\ r.id <= vlanList[r.vlan]
    BY <1>4 DEF QosInv, CountersAhead
  <2>2. r.vlan \in kept
    BY <1>4, <2>1
  <2>3. QED
    BY <2>1, <2>2, <1>1
<1>6. Qos!UniqueIds'
  BY <1>4 DEF QosInv, Qos!UniqueIds
<1>7. QED
  BY <1>3, <1>5, <1>6 DEF QosInv

(* Each step keeps the invariant.                                            *)
LEMMA QosStep == NoVlan \in Vlan /\ QosInv /\ [Qos!Next]_qosVars => QosInv'
<1> SUFFICES ASSUME NoVlan \in Vlan, QosInv, [Qos!Next]_qosVars PROVE QosInv'
  OBVIOUS
<1>1. ASSUME NEW kept \in BOOLEAN, Qos!Join(kept) PROVE QosInv'
  <2>1. vlanList' = [v \in {NoVlan} |-> 0]
    BY <1>1 DEF Qos!Join, Qos!NewList
  <2>2. rules' \in {{}, {[r EXCEPT !.counted = FALSE] : r \in rules}}
    BY <1>1 DEF Qos!Join
  <2>3. ASSUME NEW r \in rules PROVE [r EXCEPT !.counted = FALSE] \in QosRule
    BY DEF QosInv, RulesTyped, QosRule
  <2>4. ASSUME NEW r \in rules' PROVE r \in QosRule /\ ~r.counted
    <3>1. PICK q \in rules : r = [q EXCEPT !.counted = FALSE]
      BY <2>2, <2>4
    <3>2. r \in QosRule /\ q \in QosRule
      BY <3>1, <2>3 DEF QosInv, RulesTyped
    <3>3. QED
      BY <3>1, <3>2 DEF QosRule
  <2>5. RulesTyped'
    BY <2>1, <2>4 DEF RulesTyped
  <2>6. QED
    BY <2>4, <2>5 DEF QosInv, CountersAhead, Qos!UniqueIds, Qos!CanBeTold
<1>2. CASE Qos!Rules
  <2>1. ASSUME NEW v \in Vlan, NEW m \in Match, NEW sound \in BOOLEAN, Qos!SetQos({v}, m, sound)
        PROVE  QosInv'
    BY <2>1, SetQosKeeps
  <2>2. ASSUME NEW m \in Match, Qos!SetQos(DOMAIN vlanList, m, TRUE) PROVE QosInv'
    BY <2>2, SetQosKeeps DEF QosInv, RulesTyped
  <2>3. ASSUME NEW d \in VlanClient, Qos!AskDelete(d) PROVE QosInv'
    BY <2>3 DEF Qos!AskDelete, QosInv, RulesTyped, CountersAhead, Qos!UniqueIds
  <2>4. ASSUME NEW d, NEW seen, NEW v, NEW id, Qos!DeleteQos(d, seen, v, id) PROVE QosInv'
    BY <2>4, DeleteQosKeeps
  <2>5. QED
    BY <1>2, <2>1, <2>2, <2>3, <2>4 DEF Qos!Rules
<1>3. CASE Qos!Leave \/ Qos!Configuration \/ UNCHANGED qosVars
  <2>1. UNCHANGED <<vlanList, rules>>
    BY <1>3 DEF Qos!Leave, Qos!Configuration, Qos!SetKey, Qos!DeleteKey, Qos!ConfEvent,
              Qos!SetQueue, Qos!DeleteQueue, qosVars
  <2>2. QED
    BY <2>1 DEF QosInv, RulesTyped, CountersAhead, Qos!UniqueIds
<1>4. QED
  BY <1>1, <1>2, <1>3 DEF Qos!Next, Qos!Switches

(* The ids of two rules of a VLAN differ if both can be told and every       *)
(* deletion has counted them, however many deletions wait while rules are    *)
(* posted, and whatever part of the statistics comes.                        *)
THEOREM IdsUnique == Spec => []UniqueIds
<1> DEFINE Inv == part \in {"qos", "conf"} => QosInv
<1>1. Init => Inv
  BY QosInit, NoVlanAssumption DEF Init
<1>2. Inv /\ [Next]_vars => Inv'
  BY Separate, QosStep, NoVlanAssumption
<1>3. Inv => UniqueIds
  BY DEF UniqueIds, QosInv
<1>4. QED
  BY <1>1, <1>2, <1>3, PTL DEF Spec

-----------------------------------------------------------------------------
(* Customers' stitches.                                                      *)
BooksTyped ==
    /\ at \in [Prefix -> Gateway \cup {None}]
    /\ owner \in [Prefix -> Customer \cup {None}]
    /\ ofGateway \in [Gateway -> SUBSET Prefix]
    /\ ofCustomer \in [Customer -> SUBSET Prefix]
    /\ routed \subseteq [dst : Prefix, src : Prefix, gateway : Gateway]

\* A prefix that is somewhere has an owner.
Owned == \A p \in Prefix : at[p] # None => owner[p] \in Customer

StitchInv == BooksTyped /\ Owned /\ Stitches!Revocable

(* The inductive invariant holds at first.                                   *)
LEMMA StitchInit == Stitches!Init => StitchInv
BY DEF Stitches!Init, StitchInv, BooksTyped, Owned, Stitches!Revocable

(* A prefix that is revoked has no gateway, no owner and no route.           *)
LEMMA RevokeKeeps ==
    ASSUME StitchInv, NEW k \in Customer, NEW ps, Stitches!Revoke(k, ps)
    PROVE  StitchInv'
<1>1. BooksTyped' /\ Owned'
  BY DEF Stitches!Revoke, StitchInv, BooksTyped, Owned
<1>2. Stitches!Revocable'
  BY DEF Stitches!Revoke, StitchInv, BooksTyped, Owned, Stitches!Revocable
<1>3. QED
  BY <1>1, <1>2 DEF StitchInv

(* A connection's routes lead to the gateways that list its prefixes.        *)
LEMMA ConnectionKeeps ==
    ASSUME StitchInv, NEW p \in Prefix, NEW q \in Prefix, Stitches!ConnectionRequest(p, q)
    PROVE  StitchInv'
<1>1. at[p] \in Gateway /\ at[q] \in Gateway
  BY DEF Stitches!ConnectionRequest, StitchInv, BooksTyped
<1>2. \A x \in routed' : \/ x \in routed
                         \/ x = [dst |-> p, src |-> q, gateway |-> at[p]]
                         \/ x = [dst |-> q, src |-> p, gateway |-> at[q]]
  BY DEF Stitches!ConnectionRequest, Stitches!WithRoute, Stitches!FindGatewayForPrefix
<1>3. UNCHANGED <<at, owner, ofGateway, ofCustomer>>
  BY DEF Stitches!ConnectionRequest, Stitches!books
<1>4. routed' \subseteq [dst : Prefix, src : Prefix, gateway : Gateway]
  BY <1>1, <1>2 DEF StitchInv, BooksTyped
<1>5. \A x \in routed' : x.dst \in ofGateway[x.gateway]
  BY <1>2 DEF Stitches!ConnectionRequest, StitchInv, Stitches!Revocable
<1>6. QED
  BY <1>3, <1>4, <1>5 DEF StitchInv, BooksTyped, Owned, Stitches!Revocable

(* Each step keeps the invariant.                                            *)
LEMMA StitchStep == StitchInv /\ [Stitches!Next]_stitchVars => StitchInv'
<1> SUFFICES ASSUME StitchInv, [Stitches!Next]_stitchVars PROVE StitchInv'
  OBVIOUS
<1>1. ASSUME NEW k \in Customer, NEW r \in Reserve, Stitches!UndoStitch(k, r) PROVE StitchInv'
  BY <1>1, RevokeKeeps DEF Stitches!UndoStitch
<1>2. ASSUME NEW p \in Prefix, NEW g \in Gateway, NEW k \in Customer, Stitches!NotifyPrefix(p, g, k)
      PROVE  StitchInv'
  BY <1>2 DEF Stitches!NotifyPrefix, StitchInv, BooksTyped, Owned, Stitches!Revocable
<1>3. ASSUME NEW p \in Prefix, NEW q \in Prefix, Stitches!ConnectionRequest(p, q) PROVE StitchInv'
  BY <1>3, ConnectionKeeps
<1>4. CASE UNCHANGED <<at, owner, ofGateway, ofCustomer, routed>>
  BY <1>4 DEF StitchInv, BooksTyped, Owned, Stitches!Revocable
<1>5. QED
  BY <1>1, <1>2, <1>3, <1>4
  DEF Stitches!Next, Stitches!Stitching, Stitches!StitchRequest, Stitches!StitchRequestFails,
      Stitches!StitchChameleon, Stitches!books, stitchVars

(* What a customer announced can be revoked, whoever announced it before and *)
(* wherever.                                                                 *)
THEOREM Revoked == Spec => []Revocable
<1> DEFINE Inv == part = "stitches" => StitchInv
<1>1. Init => Inv
  BY StitchInit DEF Init
<1>2. Inv /\ [Next]_vars => Inv'
  BY Separate, StitchStep
<1>3. Inv => Revocable
  BY DEF Revocable, StitchInv
<1>4. QED
  BY <1>1, <1>2, <1>3, PTL DEF Spec

(* The undo of a stitch is the only step that takes it from its customer, and*)
(* it revokes all that its gateway lists.                                    *)
LEMMA UndoneGone ==
    ASSUME StitchInv, [Stitches!Next]_stitchVars, NEW k \in DOMAIN nodes, NEW r \in Reserve,
           Stitches!Undone(k, r)
    PROVE  Stitches!Gone(r)
<1>1. ASSUME NEW c \in Customer, NEW q \in Reserve, nodes' = Stitches!WithNode(c, q) PROVE FALSE
  BY <1>1 DEF Stitches!Undone, Stitches!WithNode, Stitches!Nodes
<1>2. nodes' # nodes
  BY DEF Stitches!Undone, Stitches!Nodes
<1>3. PICK c \in Customer, q \in Reserve : Stitches!UndoStitch(c, q)
  BY <1>1, <1>2
  DEF Stitches!Next, Stitches!Stitching, Stitches!StitchRequest, Stitches!StitchRequestFails,
      Stitches!StitchChameleon, Stitches!NotifyPrefix, Stitches!ConnectionRequest, stitchVars
<1>4. c = k /\ q = r
  BY <1>3 DEF Stitches!UndoStitch, Stitches!Undone, Stitches!Nodes
<1>5. Stitches!Revoke(k, ofGateway[GatewayFor[r]]) /\ GatewayFor[r] # None
  BY <1>3, <1>4, GatewayAssumption DEF Stitches!UndoStitch
<1>6. \A p \in Prefix : at'[p] # GatewayFor[r]
  BY <1>5 DEF Stitches!Revoke, StitchInv, Stitches!Revocable
<1>7. \A x \in routed' : x.gateway # GatewayFor[r]
  BY <1>5 DEF Stitches!Revoke, StitchInv, Stitches!Revocable
<1>8. QED
  BY <1>6, <1>7 DEF Stitches!Gone

(* After an undo no prefix is behind the gateway, and no route leads there.  *)
THEOREM UndoForgets == Spec => UndoneForgotten
<1> DEFINE Inv == part = "stitches" => StitchInv
<1>1. Init => Inv
  BY StitchInit DEF Init
<1>2. Inv /\ [Next]_vars => Inv'
  BY Separate, StitchStep
<1>3. Inv /\ [Next]_vars =>
        [part = "stitches" =>
            \A k \in DOMAIN nodes, r \in Reserve : Stitches!Undone(k, r) => Stitches!Gone(r)]_vars
  BY Separate, UndoneGone
<1>4. QED
  BY <1>1, <1>2, <1>3, PTL DEF Spec, UndoneForgotten

-----------------------------------------------------------------------------
(* The lock of the slice and the interfaces that routers expect.             *)
LinksTyped ==
    /\ faces \in [Router -> Int]
    /\ expected \in [Router -> Int]
    /\ depth \in Nat
    /\ busy \in [stage : {"idle", "lock", "commit", "wait", "port"}, thread : Thread \cup {NoThread},
                 kind : {"none", "provision", "stitch", "router", "command", "undo"},
                 ends : SUBSET Router]

Holds == busy.stage \in {"commit", "wait"} /\ busy.kind # "command"

\* Only the handler that runs has the lock, once, unless one has left it locked.
LockGivenBack ==
    ~leaked => IF Holds THEN holder = busy.thread /\ depth = 1 ELSE holder = NoThread /\ depth = 0

\* What a router expects while nothing has gone wrong there.
Due(r) ==
    IF r \in busy.ends /\ busy.kind # "undo" THEN
        IF busy.stage = "commit" THEN faces[r] + 1
        ELSE IF busy.stage = "wait" THEN faces[r]
        ELSE 0
    ELSE 0

ExpectedDue ==
    /\ \A r \in Router \ spoilt : expected[r] = Due(r)
    /\ busy.kind \in {"none", "router"} => busy.ends = {}
    /\ busy.stage = "lock" => busy.kind # "command"
    /\ busy.stage = "port" => busy.ends \subseteq spoilt
    /\ busy.stage = "wait" => busy.kind \in {"provision", "stitch", "command"}
    /\ busy.stage = "idle" => busy = Links!Idle

LinksInv == LinksTyped /\ LockGivenBack /\ ExpectedDue

(* The inductive invariant holds at first.                                   *)
LEMMA LinksInit == Links!Init => LinksInv
BY DEF Links!Init, Links!Idle, LinksInv, LinksTyped, LockGivenBack, ExpectedDue, Holds, Due

(* A handler begins with nothing expected of the routers it is about, unless *)
(* one before it has failed there.                                           *)
LEMMA BeginsKeep == LinksInv /\ Links!Begins => LinksInv'
<1> SUFFICES ASSUME LinksInv, Links!Begins PROVE LinksInv'
  OBVIOUS
<1> USE DEF LinksInv, LinksTyped, LockGivenBack, ExpectedDue, Holds, Due, Links!Idle, Links!Begin,
        Links!lock
<1>1. ASSUME NEW t \in Thread, NEW a \in Router, NEW b \in Router, Links!Provision(t, {a, b})
      PROVE  LinksInv'
  BY <1>1 DEF Links!Provision
<1>2. ASSUME NEW t \in Thread, NEW r \in Router, Links!StitchRequest(t, r) PROVE LinksInv'
  BY <1>2 DEF Links!StitchRequest
<1>3. ASSUME NEW t \in Thread, NEW r \in Router, Links!StitchCmd(t, r) PROVE LinksInv'
  BY <1>3 DEF Links!StitchCmd, Links!Expect
<1>4. ASSUME NEW t \in Thread, NEW r \in Router, Links!UndoStitch(t, r) PROVE LinksInv'
  BY <1>4 DEF Links!UndoStitch
<1>5. ASSUME NEW t \in Thread, Links!StitchNewRouter(t) PROVE LinksInv'
  BY <1>5 DEF Links!StitchNewRouter
<1>6. QED
  BY <1>1, <1>2, <1>3, <1>4, <1>5 DEF Links!Begins

(* A commit that fails leaves a trace, and one that does not keeps the count.*)
LEMMA CommitsKeep == LinksInv /\ Links!Commits => LinksInv'
<1> SUFFICES ASSUME LinksInv, Links!Commits PROVE LinksInv'
  OBVIOUS
<1> USE DEF LinksInv, LinksTyped, LockGivenBack, ExpectedDue, Holds, Due, Links!Idle, Links!Stage,
        Links!lock
<1>1. CASE Links!Committed
  BY <1>1 DEF Links!Committed, Links!Grow
<1>2. CASE Links!CommitFails
  BY <1>2 DEF Links!CommitFails, Links!UnlockAfterFailure, Links!Unlock
<1>3. CASE Links!RouterAdded
  BY <1>3 DEF Links!RouterAdded, Links!Unlock
<1>4. CASE Links!RouterFails
  BY <1>4 DEF Links!RouterFails, Links!Unlock
<1>5. CASE Links!LinkRemoved
  BY <1>5 DEF Links!LinkRemoved, Links!Unlock
<1>6. CASE Links!UndoFails
  BY <1>6 DEF Links!UndoFails, Links!UnlockAfterFailure, Links!Unlock
<1>7. QED
  BY <1>1, <1>2, <1>3, <1>4, <1>5, <1>6 DEF Links!Commits

(* A wait that ends, or fails, leaves nothing expected but where it failed.  *)
LEMMA WaitsKeep == LinksInv /\ Links!Waits => LinksInv'
<1> SUFFICES ASSUME LinksInv, Links!Waits PROVE LinksInv'
  OBVIOUS
<1> USE DEF LinksInv, LinksTyped, LockGivenBack, ExpectedDue, Holds, Due, Links!Idle, Links!Ended,
        Links!Unlock, Links!lock
<1>1. CASE Links!WaitEnds
  BY <1>1 DEF Links!WaitEnds, Links!Waited, Links!Come
<1>2. ASSUME NEW came \in SUBSET busy.ends, Links!WaitFails(came) PROVE LinksInv'
  BY <1>2 DEF Links!WaitFails, Links!Waited
<1>3. CASE Links!LateLink
  BY <1>3 DEF Links!LateLink, Links!Grow
<1>4. QED
  BY <1>1, <1>2, <1>3 DEF Links!Waits

(* Each step keeps the invariant.                                            *)
LEMMA LinksStep == LinksInv /\ [Links!Next]_linkVars => LinksInv'
<1> SUFFICES ASSUME LinksInv, [Links!Next]_linkVars PROVE LinksInv'
  OBVIOUS
<1> USE DEF LinksInv, LinksTyped, LockGivenBack, ExpectedDue, Holds, Due, Links!Idle
<1>1. CASE Links!Lock
  BY <1>1 DEF Links!Lock, Links!LockSlice, Links!Expect, Links!Stage
<1>2. ASSUME NEW some \in SUBSET busy.ends, Links!ExpectFails(some) PROVE LinksInv'
  BY <1>2 DEF Links!ExpectFails, Links!LockSlice, Links!Expect
<1>3. ASSUME NEW r \in Router, Links!FaceGone(r) PROVE LinksInv'
  BY <1>3 DEF Links!FaceGone, Links!lock
<1>4. CASE UNCHANGED linkVars
  BY <1>4 DEF linkVars
<1>5. QED
  BY <1>1, <1>2, <1>3, <1>4, BeginsKeep, CommitsKeep, WaitsKeep DEF Links!Next

(* A handler that cannot go on has a failure before it to blame.             *)
THEOREM HangsExplained == Spec => []HangsAfterFailure
<1> DEFINE Inv == part = "links" => LinksInv
<1>1. Init => Inv
  BY LinksInit DEF Init
<1>2. Inv /\ [Next]_vars => Inv'
  BY Separate, LinksStep
<1>3. Inv => HangsAfterFailure
  <2> SUFFICES ASSUME part = "links", LinksInv PROVE Links!HangsAfterFailure
    BY DEF HangsAfterFailure
  <2>1. busy.stage = "lock" /\ holder \notin {NoThread, busy.thread} => leaked
    BY DEF LinksInv, LockGivenBack, Holds
  <2>2. busy.stage = "wait" /\ busy.ends \cap spoilt = {} => Links!Come
    BY DEF LinksInv, LinksTyped, ExpectedDue, Due, Links!Come
  <2>3. QED
    BY <2>1, <2>2 DEF Links!HangsAfterFailure
<1>4. QED
  BY <1>1, <1>2, <1>3, PTL DEF Spec

-----------------------------------------------------------------------------
(* Requests over the switches and their statistics.                          *)
Lists == Rest!Service \X Rest!Keys
Kinds == {"none"} \cup {Rest!Kind(r.path) : r \in UNION {AskedBy[k] : k \in Client}}
AnswerPart == [key : Rest!Keys, number : Nat, more : BOOLEAN]
Entry == [key : Rest!Keys, kind : Kinds, parts : Nat]
VisitMade == [key : Rest!Keys, whole : BOOLEAN, parts : Seq(AnswerPart)]
RestRequest ==
    [stage : {"idle", "loop", "wait"}, service : Rest!Service, kind : Kinds, todo : SUBSET Switch,
     visits : SUBSET VisitMade, now : Rest!Keys \cup {<<>>}]

RestTyped ==
    /\ routers \subseteq Switch
    /\ xid \in [Switch -> Nat]
    /\ waiters \subseteq Lists
    /\ msgs \in [Lists -> Seq(AnswerPart)]
    /\ stream \in [Switch -> Seq(Entry)]
    /\ client \in [Client -> RestRequest]

\* A key has been given out.
Given(key) == key[2] <= xid[key[1]]

\* Who hears of an answer has as many parts of it as have come.
EntryFits(s, e) ==
    /\ e.key[1] = s /\ Given(e.key)
    /\ \A w \in waiters : w[2] = e.key /\ Rest!Hears(w[1], e.kind, Version[s]) => e.parts = Len(msgs[w])

\* What a switch is going to answer has been counted right.
StreamsCounted ==
    /\ \A w \in waiters : Given(w[2])
    /\ \A s \in Switch : \A i \in 1 .. Len(stream[s]) : EntryFits(s, stream[s][i])
    /\ \A s \in Switch : \A i, j \in 1 .. Len(stream[s]) :
          stream[s][i].key = stream[s][j].key => i = j

Ordered(key, parts) ==
    \A i \in 1 .. Len(parts) : parts[i].key = key /\ parts[i].number = i

Complete(parts) == parts # <<>> /\ ~parts[Len(parts)].more

\* The list of a waiter has its own parts; one who need not wait has them all,
\* and nobody else waits for the same.
Awaits(k) == client[k].stage = "wait"
WaiterOf(k) == <<client[k].service, client[k].now>>

ListsOwn ==
    /\ \A w \in Lists : Ordered(w[2], msgs[w])
    /\ \A k \in Client : Awaits(k) =>
          /\ client[k].now \in Rest!Keys /\ Given(client[k].now)
          /\ WaiterOf(k) \notin waiters => Complete(msgs[WaiterOf(k)])
    /\ \A j, k \in Client : Awaits(j) /\ Awaits(k) /\ client[j].now = client[k].now => j = k

VisitsOwn ==
    \A k \in Client : \A v \in client[k].visits :
        Ordered(v.key, v.parts) /\ (v.whole => Complete(v.parts))

RestInv == RestTyped /\ StreamsCounted /\ ListsOwn /\ VisitsOwn

(* A key is a switch and a number.                                           *)
LEMMA KeyPairs ==
    ASSUME MaxXid \in [Switch -> Nat]
    PROVE  /\ \A key \in Rest!Keys :
                 key[1] \in Switch /\ key[2] \in Nat /\ key[2] >= 1 /\ key = <<key[1], key[2]>>
           /\ \A s \in Switch : \A n \in 1 .. MaxXid[s] : <<s, n>> \in Rest!Keys
BY DEF Rest!Keys

(* The inductive invariant holds at first: no key has been given out.        *)
LEMMA RestInit == MaxXid \in [Switch -> Nat] /\ Rest!Init => RestInv
<1> SUFFICES ASSUME MaxXid \in [Switch -> Nat], Rest!Init PROVE RestInv
  OBVIOUS
<1>1. \A k \in Client : client[k] = Rest!Idle
  BY DEF Rest!Init
<1>2. RestTyped
  BY DEF Rest!Init, Rest!Idle, Rest!Service, RestTyped, RestRequest, Kinds, Lists
<1>3. StreamsCounted
  BY DEF Rest!Init, StreamsCounted
<1>4. ListsOwn
  BY <1>1 DEF Rest!Init, Rest!Idle, ListsOwn, Lists, Awaits, Ordered
<1>5. VisitsOwn
  BY <1>1 DEF Rest!Idle, VisitsOwn
<1>6. QED
  BY <1>2, <1>3, <1>4, <1>5 DEF RestInv

(* A request is sent with a key that nobody has waited for.                  *)
LEMMA SendKeeps ==
    ASSUME MaxXid \in [Switch -> Nat], RestInv, NEW k \in Client, NEW s \in Switch,
           Rest!SendStatsRequest(k, s)
    PROVE  RestInv'
<1> PICK key : key = <<s, xid[s] + 1>>
  OBVIOUS
<1> PICK mine : mine = <<client[k].service, key>>
  OBVIOUS
<1> PICK new : new = [key |-> key, kind |-> client[k].kind, parts |-> 0]
  OBVIOUS
<1>1. xid \in [Switch -> Nat] /\ waiters \subseteq Lists /\ msgs \in [Lists -> Seq(AnswerPart)]
  BY DEF RestInv, RestTyped
<1>2. stream \in [Switch -> Seq(Entry)] /\ client \in [Client -> RestRequest]
  BY DEF RestInv, RestTyped
<1>3. key \in Rest!Keys /\ key[1] = s /\ key[2] = xid[s] + 1
  <2>1. xid[s] \in Nat /\ xid[s] + 1 \in 1 .. MaxXid[s]
    BY <1>1 DEF Rest!SendStatsRequest, Rest!Command
  <2>2. QED
    BY <2>1, KeyPairs
<1>4. client[k].service \in Rest!Service /\ client[k].kind \in Kinds
  BY <1>2 DEF RestRequest
<1>5. mine \in Lists /\ mine[2] = key
  BY <1>3, <1>4 DEF Lists
<1>6. /\ xid' = [xid EXCEPT ![s] = @ + 1]
      /\ waiters' = waiters \cup {mine}
      /\ msgs' = [msgs EXCEPT ![mine] = <<>>]
  BY DEF Rest!SendStatsRequest, Rest!Command
<1>7. stream' = [stream EXCEPT ![s] = IF s \in routers THEN Append(@, new) ELSE @]
  BY DEF Rest!SendStatsRequest, Rest!Command
<1>8. client' = [client EXCEPT ![k] = [client[k] EXCEPT !.stage = "wait", !.todo = @ \ {s}, !.now = key]]
  BY DEF Rest!SendStatsRequest, Rest!Command
<1>9. \A q \in Rest!Keys : Given(q) => q # key /\ Given(q)'
  BY <1>1, <1>3, <1>6, KeyPairs DEF Given
<1>10. Given(key)'
  BY <1>1, <1>3, <1>6 DEF Given
<1>11. ASSUME NEW w \in waiters
       PROVE  w \in Lists /\ w[2] \in Rest!Keys /\ w[2] # key /\ w # mine /\ Given(w[2])'
  <2>1. w \in Lists /\ w[2] \in Rest!Keys
    BY <1>1 DEF Lists
  <2>2. Given(w[2])
    BY DEF RestInv, StreamsCounted
  <2>3. QED
    BY <2>1, <2>2, <1>5, <1>9
<1>12. msgs'[mine] = <<>> /\ \A w \in Lists : w # mine => msgs'[w] = msgs[w]
  BY <1>1, <1>5, <1>6
<1>13. ASSUME NEW t \in Switch, NEW i \in 1 .. Len(stream'[t])
       PROVE  \/ i \in 1 .. Len(stream[t]) /\ stream'[t][i] = stream[t][i]
              \/ i = Len(stream[t]) + 1 /\ t = s /\ stream'[t][i] = new
  BY <1>2, <1>7, <1>13
<1>14. ASSUME NEW t \in Switch, NEW i \in 1 .. Len(stream[t])
       PROVE  EntryFits(t, stream[t][i]) /\ stream[t][i].key \in Rest!Keys /\ stream[t][i].key # key
  <2>1. stream[t][i] \in Entry
    BY <1>2
  <2>2. stream[t][i].key \in Rest!Keys
    BY <2>1 DEF Entry
  <2>3. EntryFits(t, stream[t][i])
    BY DEF RestInv, StreamsCounted
  <2>4. QED
    BY <2>2, <2>3, <1>9 DEF EntryFits
<1>15. RestTyped'
  <2>1. xid' \in [Switch -> Nat]
    BY <1>1, <1>6
  <2>2. waiters' \subseteq Lists
    BY <1>1, <1>5, <1>6
  <2>3. msgs' \in [Lists -> Seq(AnswerPart)]
    BY <1>1, <1>5, <1>6
  <2>4. stream' \in [Switch -> Seq(Entry)]
    <3>1. new \in Entry
      BY <1>3, <1>4 DEF Entry
    <3>2. QED
      BY <1>2, <1>7, <3>1
  <2>5. client' \in [Client -> RestRequest]
    <3> DEFINE next == [client[k] EXCEPT !.stage = "wait", !.todo = client[k].todo \ {s}, !.now = key]
    <3>1. next \in RestRequest
      BY <1>2, <1>3 DEF RestRequest
    <3>2. client' = [x \in Client |-> client'[x]] /\ client'[k] = next
      BY <1>2, <1>8
    <3>3. \A x \in Client \ {k} : client'[x] = client[x]
      BY <1>2, <1>8
    <3> HIDE DEF next
    <3>4. QED
      BY <1>2, <3>1, <3>2, <3>3
  <2>6. routers' \subseteq Switch
    BY DEF Rest!SendStatsRequest, Rest!Command, RestInv, RestTyped
  <2>7. QED
    BY <2>1, <2>2, <2>3, <2>4, <2>5, <2>6 DEF RestTyped
<1>16. ASSUME NEW t \in Switch, NEW e, e.key \in Rest!Keys, e.key # key, EntryFits(t, e)
       PROVE  EntryFits(t, e)'
  <2>1. e.key[1] = t /\ Given(e.key)'
    BY <1>9, <1>16 DEF EntryFits
  <2>2. ASSUME NEW w \in waiters', w[2] = e.key, Rest!Hears(w[1], e.kind, Version[t])
        PROVE  e.parts = Len(msgs'[w])
    <3>1. w \in waiters
      BY <2>2, <1>5, <1>6, <1>16
    <3>2. msgs'[w] = msgs[w]
      BY <3>1, <1>11, <1>12
    <3>3. QED
      BY <3>1, <3>2, <2>2, <1>16 DEF EntryFits
  <2>3. QED
    BY <2>1, <2>2 DEF EntryFits
<1>17. EntryFits(s, new)'
  <2>1. new.key = key /\ new.parts = 0
    OBVIOUS
  <2>2. ASSUME NEW w \in waiters', w[2] = key PROVE Len(msgs'[w]) = 0
    <3>1. w = mine
      BY <2>2, <1>6, <1>11
    <3>2. QED
      BY <3>1, <1>12
  <2>3. QED
    BY <2>1, <2>2, <1>3, <1>10 DEF EntryFits
<1>18. StreamsCounted'
  <2>1. ASSUME NEW t \in Switch, NEW i \in 1 .. Len(stream'[t]) PROVE EntryFits(t, stream[t][i])'
    <3>1. PICK e : e = stream'[t][i]
      OBVIOUS
    <3>2. EntryFits(t, e)'
      <4>1. CASE i \in 1 .. Len(stream[t]) /\ e = stream[t][i]
        BY <4>1, <1>14, <1>16
      <4>2. CASE t = s /\ e = new
        BY <4>2, <1>17
      <4>3. QED
        BY <3>1, <4>1, <4>2, <1>13
    <3>3. QED
      BY <3>1, <3>2 DEF EntryFits, Given
  <2>2. ASSUME NEW t \in Switch, NEW i \in 1 .. Len(stream'[t]), NEW j \in 1 .. Len(stream'[t]),
               stream'[t][i].key = stream'[t][j].key
        PROVE  i = j
    <3>1. ASSUME NEW x \in 1 .. Len(stream[t]), NEW y \in 1 .. Len(stream[t]),
                 stream[t][x].key = stream[t][y].key
          PROVE  x = y
      BY <3>1 DEF RestInv, StreamsCounted
    <3>2. ASSUME NEW x \in 1 .. Len(stream[t]) PROVE stream[t][x].key # key
      BY <3>2, <1>14
    <3> DEFINE Old(x) == x \in 1 .. Len(stream[t]) /\ stream'[t][x] = stream[t][x]
               New(x) == x = Len(stream[t]) + 1 /\ stream'[t][x] = new
    <3>3. (Old(i) \/ New(i)) /\ (Old(j) \/ New(j)) /\ new.key = key
      BY <1>13
    <3>4. CASE Old(i) /\ Old(j)
      BY <3>4, <2>2, <3>1
    <3>5. CASE Old(i) /\ New(j)
      BY <3>3, <3>5, <2>2, <3>2
    <3>6. CASE New(i) /\ Old(j)
      BY <3>3, <3>6, <2>2, <3>2
    <3>7. CASE New(i) /\ New(j)
      BY <3>7
    <3>8. QED
      BY <3>3, <3>4, <3>5, <3>6, <3>7
  <2>3. \A w \in waiters' : Given(w[2])'
    BY <1>5, <1>6, <1>10, <1>11
  <2>4. QED
    BY <2>1, <2>2, <2>3 DEF StreamsCounted
<1>19. /\ client'[k].stage = "wait" /\ client'[k].now = key /\ client'[k].service = client[k].service
       /\ client'[k].visits = client[k].visits
       /\ \A x \in Client \ {k} : client'[x] = client[x]
  BY <1>2, <1>8 DEF RestRequest
<1>20. ListsOwn'
  <2>1. ASSUME NEW w \in Lists PROVE Ordered(w[2], msgs'[w])
    <3>1. CASE w = mine
      BY <3>1, <1>12 DEF Ordered
    <3>2. CASE w # mine
      BY <3>2, <1>12 DEF RestInv, ListsOwn
    <3>3. QED
      BY <3>1, <3>2
  <2>2. ASSUME NEW x \in Client, x # k, Awaits(x)
        PROVE  /\ client[x].now \in Rest!Keys /\ client[x].now # key /\ Given(client[x].now)'
               /\ WaiterOf(x) \in Lists /\ WaiterOf(x) # mine
               /\ WaiterOf(x) \notin waiters => Complete(msgs[WaiterOf(x)])
    <3>1. client[x].now \in Rest!Keys /\ Given(client[x].now)
      BY <2>2 DEF RestInv, ListsOwn
    <3>2. client[x].now # key /\ Given(client[x].now)'
      BY <3>1, <1>9, <1>19, <2>2 DEF Given
    <3>3. client[x].service \in Rest!Service
      BY <1>2 DEF RestRequest
    <3>4. QED
      BY <2>2, <3>1, <3>2, <3>3, <1>5 DEF WaiterOf, Lists, RestInv, ListsOwn
  <2>3. ASSUME NEW x \in Client, Awaits(x)'
        PROVE  /\ (client[x].now \in Rest!Keys /\ Given(client[x].now))'
               /\ (WaiterOf(x) \notin waiters => Complete(msgs[WaiterOf(x)]))'
    <3>1. CASE x = k
      <4>1. WaiterOf(x)' = mine
        BY <3>1, <1>19 DEF WaiterOf
      <4>2. QED
        BY <3>1, <4>1, <1>3, <1>6, <1>10, <1>19 DEF Given
    <3>2. CASE x # k
      <4>1. client'[x] = client[x] /\ Awaits(x)
        BY <3>2, <2>3, <1>19 DEF Awaits
      <4>2. PICK w : w = WaiterOf(x)
        OBVIOUS
      <4>3. WaiterOf(x)' = w /\ w # mine /\ w \in Lists /\ msgs'[w] = msgs[w]
        BY <3>2, <4>1, <4>2, <2>2, <1>12 DEF WaiterOf
      <4>4. w \notin waiters' => Complete(msgs'[w])
        BY <3>2, <4>1, <4>2, <4>3, <2>2, <1>6
      <4>5. QED
        BY <3>2, <4>1, <4>3, <4>4, <2>2 DEF Complete, Given
    <3>3. QED
      BY <3>1, <3>2
  <2>4. ASSUME NEW x \in Client, NEW y \in Client, Awaits(x)', Awaits(y)',
               client'[x].now = client'[y].now
        PROVE  x = y
    <3>1. CASE x # k /\ y # k
      BY <3>1, <2>4, <1>19 DEF Awaits, RestInv, ListsOwn
    <3>2. CASE x = k /\ y # k
      BY <3>2, <2>4, <2>2, <1>19 DEF Awaits
    <3>3. CASE x # k /\ y = k
      BY <3>3, <2>4, <2>2, <1>19 DEF Awaits
    <3>4. QED
      BY <3>1, <3>2, <3>3
  <2>5. QED
    BY <2>1, <2>3, <2>4 DEF ListsOwn, Ordered, Awaits
<1>21. VisitsOwn'
  BY <1>19 DEF RestInv, VisitsOwn, Ordered, Complete
<1>22. QED
  BY <1>15, <1>18, <1>20, <1>21 DEF RestInv

(* A part is put into the list of its waiter, after those before it.         *)
LEMMA ReplyKeeps ==
    ASSUME MaxXid \in [Switch -> Nat], RestInv, NEW s \in Switch, stream[s] # <<>>,
           NEW more \in BOOLEAN, Rest!Answer(s, more)
    PROVE  RestInv'
<1>1. xid \in [Switch -> Nat] /\ waiters \subseteq Lists /\ msgs \in [Lists -> Seq(AnswerPart)]
  BY DEF RestInv, RestTyped
<1>2. stream \in [Switch -> Seq(Entry)]
  BY DEF RestInv, RestTyped
<1>3. PICK answer : answer = Head(stream[s])
  OBVIOUS
<1>4. answer \in Entry /\ answer = stream[s][1] /\ 1 \in 1 .. Len(stream[s])
  BY <1>2, <1>3
<1>5. PICK key : key = answer.key
  OBVIOUS
<1>6. key \in Rest!Keys /\ answer.parts \in Nat /\ EntryFits(s, answer)
  <2>1. key \in Rest!Keys /\ answer.parts \in Nat
    BY <1>4, <1>5 DEF Entry
  <2>2. EntryFits(s, answer)
    BY <1>4 DEF RestInv, StreamsCounted
  <2>3. QED
    BY <2>1, <2>2
<1>7. PICK found : found = {w \in waiters : w[2] = key /\ Rest!Hears(w[1], answer.kind, Version[s])}
  OBVIOUS
<1>8. PICK piece : piece = [key |-> key, number |-> answer.parts + 1, more |-> more]
  OBVIOUS
<1>9. found = {w \in Rest!Waiter(key) : Rest!Hears(w[1], answer.kind, Version[s])}
  BY <1>7 DEF Rest!Waiter
<1>10. PICK next : next = [answer EXCEPT !.parts = @ + 1]
  OBVIOUS
<1>11. /\ msgs' = [w \in Lists |-> IF w \in found THEN Append(msgs[w], piece) ELSE msgs[w]]
       /\ waiters' = IF more THEN waiters ELSE waiters \ found
       /\ stream' = [stream EXCEPT ![s] = IF more THEN <<next>> \o Tail(@) ELSE Tail(@)]
       /\ UNCHANGED <<routers, xid, client>>
  BY <1>3, <1>5, <1>8, <1>9, <1>10 DEF Rest!Answer, Rest!Part, Lists
<1>12. ASSUME NEW w \in found
       PROVE  /\ w \in Lists /\ w \in waiters /\ w[2] = key
              /\ msgs[w] \in Seq(AnswerPart) /\ Len(msgs[w]) \in Nat /\ answer.parts = Len(msgs[w])
              /\ msgs'[w] = Append(msgs[w], piece)
  <2>1. w \in waiters /\ w[2] = key /\ Rest!Hears(w[1], answer.kind, Version[s])
    BY <1>7
  <2>2. w \in Lists
    BY <2>1, <1>1
  <2>3. msgs[w] \in Seq(AnswerPart) /\ Len(msgs[w]) \in Nat
    BY <2>2, <1>1
  <2>4. answer.parts = Len(msgs[w])
    BY <2>1, <1>5, <1>6 DEF EntryFits
  <2>5. QED
    BY <2>1, <2>2, <2>3, <2>4, <1>11
<1>13. ASSUME NEW w \in Lists, w \notin found PROVE msgs'[w] = msgs[w]
  BY <1>11, <1>13
<1>14. piece \in AnswerPart /\ next \in Entry /\ next.key = key /\ next.kind = answer.kind
       /\ next.parts = answer.parts + 1
  <2>1. answer.kind \in Kinds /\ answer = [key |-> key, kind |-> answer.kind, parts |-> answer.parts]
    BY <1>4, <1>5 DEF Entry
  <2>2. piece \in AnswerPart
    BY <1>6, <1>8 DEF AnswerPart
  <2>3. next = [key |-> key, kind |-> answer.kind, parts |-> answer.parts + 1]
    BY <2>1, <1>10
  <2>4. QED
    BY <2>1, <2>2, <2>3, <1>6 DEF Entry
<1>15. ASSUME NEW t \in Switch, NEW i \in 1 .. Len(stream'[t])
       PROVE  \/ t # s /\ i \in 1 .. Len(stream[t]) /\ stream'[t][i] = stream[t][i]
              \/ t = s /\ more /\ i = 1 /\ stream'[t][i] = next
              \/ t = s /\ more /\ i # 1 /\ i \in 1 .. Len(stream[t]) /\ stream'[t][i] = stream[t][i]
              \/ t = s /\ ~more /\ i + 1 \in 1 .. Len(stream[t]) /\ stream'[t][i] = stream[t][i + 1]
  <2>1. CASE t # s
    BY <2>1, <1>2, <1>11, <1>15
  <2>2. CASE t = s /\ more
    <3>1. stream'[s] = <<next>> \o Tail(stream[s])
      BY <2>2, <1>2, <1>11
    <3>2. QED
      BY <2>2, <3>1, <1>2, <1>15
  <2>3. CASE t = s /\ ~more
    <3>1. stream'[s] = Tail(stream[s])
      BY <2>3, <1>2, <1>11
    <3>2. QED
      BY <2>3, <3>1, <1>2, <1>15
  <2>4. QED
    BY <2>1, <2>2, <2>3
<1>16. RestTyped'
  <2>1. xid' \in [Switch -> Nat] /\ waiters' \subseteq Lists
    BY <1>1, <1>11
  <2>2. msgs' \in [Lists -> Seq(AnswerPart)]
    <3>1. ASSUME NEW w \in Lists PROVE msgs'[w] \in Seq(AnswerPart)
      <4>1. CASE w \in found
        <5>1. Append(msgs[w], piece) \in Seq(AnswerPart)
          BY <4>1, <1>12, <1>14
        <5>2. QED
          BY <4>1, <5>1, <1>12
      <4>2. CASE w \notin found
        BY <4>2, <1>1, <1>13
      <4>3. QED
        BY <4>1, <4>2
    <3>2. msgs' = [w \in Lists |-> msgs'[w]]
      BY <1>11
    <3>3. QED
      BY <3>1, <3>2
  <2>3. stream' \in [Switch -> Seq(Entry)]
    <3>1. <<next>> \o Tail(stream[s]) \in Seq(Entry) /\ Tail(stream[s]) \in Seq(Entry)
      BY <1>2, <1>14
    <3>2. QED
      BY <1>2, <1>11, <3>1
  <2>4. client' \in [Client -> RestRequest] /\ routers' \subseteq Switch
    BY <1>11 DEF RestInv, RestTyped
  <2>5. QED
    BY <2>1, <2>2, <2>3, <2>4 DEF RestTyped
<1>17. ASSUME NEW t \in Switch, NEW i \in 1 .. Len(stream[t]), t # s \/ i # 1
       PROVE  EntryFits(t, stream[t][i]) /\ stream[t][i].key # key
  <2>1. EntryFits(t, stream[t][i])
    BY DEF RestInv, StreamsCounted
  <2>2. t = s /\ stream[t][i].key = key => i = 1
    BY <1>4, <1>5 DEF RestInv, StreamsCounted
  <2>3. stream[t][i].key = key => t = s
    BY <2>1, <1>5, <1>6 DEF EntryFits
  <2>4. QED
    BY <2>1, <2>2, <2>3, <1>17
<1>18. ASSUME NEW t \in Switch, NEW e, EntryFits(t, e), e.key # key PROVE EntryFits(t, e)'
  <2>1. e.key[1] = t /\ Given(e.key)'
    BY <1>11, <1>18 DEF EntryFits, Given
  <2>2. ASSUME NEW w \in waiters', w[2] = e.key, Rest!Hears(w[1], e.kind, Version[t])
        PROVE  e.parts = Len(msgs'[w])
    <3>1. w \in waiters /\ w \in Lists
      BY <1>1, <1>11
    <3>2. w \notin found
      BY <2>2, <1>12, <1>18
    <3>3. msgs'[w] = msgs[w]
      BY <3>1, <3>2, <1>13
    <3>4. QED
      BY <3>1, <3>3, <2>2, <1>18 DEF EntryFits
  <2>3. QED
    BY <2>1, <2>2 DEF EntryFits
<1>19. more => EntryFits(s, next)'
  <2> SUFFICES ASSUME more PROVE EntryFits(s, next)'
    OBVIOUS
  <2>1. next.key[1] = s /\ Given(next.key)'
    BY <1>5, <1>6, <1>11, <1>14 DEF EntryFits, Given
  <2>2. ASSUME NEW w \in waiters', w[2] = key, Rest!Hears(w[1], answer.kind, Version[s])
        PROVE  answer.parts + 1 = Len(msgs'[w])
    <3>1. w \in found
      BY <2>2, <1>7, <1>11
    <3>2. QED
      BY <3>1, <1>12, <1>14
  <2>3. QED
    BY <2>1, <2>2, <1>14 DEF EntryFits
<1>20. StreamsCounted'
  <2>1. ASSUME NEW t \in Switch, NEW i \in 1 .. Len(stream'[t]) PROVE EntryFits(t, stream[t][i])'
    <3>1. PICK e : e = stream'[t][i]
      OBVIOUS
    <3>2. EntryFits(t, e)'
      <4>1. CASE t # s /\ i \in 1 .. Len(stream[t]) /\ e = stream[t][i]
        BY <4>1, <1>17, <1>18
      <4>2. CASE t = s /\ more /\ e = next
        BY <4>2, <1>19
      <4>3. CASE i # 1 /\ i \in 1 .. Len(stream[t]) /\ e = stream[t][i]
        BY <4>3, <1>17, <1>18
      <4>4. CASE i + 1 \in 1 .. Len(stream[t]) /\ e = stream[t][i + 1]
        <5>1. PICK j \in 1 .. Len(stream[t]) : j = i + 1
          BY <4>4
        <5>2. j # 1
          BY <5>1, <2>1
        <5>3. EntryFits(t, stream[t][j]) /\ stream[t][j].key # key
          BY <5>2, <1>17
        <5>4. QED
          BY <4>4, <5>1, <5>3, <1>18
      <4>5. QED
        BY <3>1, <4>1, <4>2, <4>3, <4>4, <1>15
    <3>3. QED
      BY <3>1, <3>2 DEF EntryFits, Given
  <2>2. ASSUME NEW t \in Switch, NEW i \in 1 .. Len(stream'[t]), NEW j \in 1 .. Len(stream'[t]),
               stream'[t][i].key = stream'[t][j].key
        PROVE  i = j
    <3>1. ASSUME NEW x \in 1 .. Len(stream[t]), NEW y \in 1 .. Len(stream[t]),
                 stream[t][x].key = stream[t][y].key
          PROVE  x = y
      BY <3>1 DEF RestInv, StreamsCounted
    <3> DEFINE Same(x) == x \in 1 .. Len(stream[t]) /\ stream'[t][x] = stream[t][x]
               Later(x) == x + 1 \in 1 .. Len(stream[t]) /\ stream'[t][x] = stream[t][x + 1]
    <3>2. CASE t # s
      <4>1. Same(i) /\ Same(j)
        BY <3>2, <1>15
      <4>2. QED
        BY <4>1, <2>2, <3>1
    <3>3. CASE t = s /\ ~more
      <4>1. Later(i) /\ Later(j)
        BY <3>3, <1>15
      <4>2. i + 1 = j + 1
        BY <4>1, <2>2, <3>1
      <4>3. QED
        BY <4>2
    <3>4. CASE t = s /\ more
      <4> DEFINE First(x) == x = 1 /\ stream'[t][x].key = key
                 Other(x) == Same(x) /\ stream'[t][x].key # key
      <4>1. ASSUME NEW x \in 1 .. Len(stream'[t]) PROVE First(x) \/ Other(x)
        <5>1. CASE x = 1 /\ stream'[t][x] = next
          BY <5>1, <1>14
        <5>2. CASE x # 1 /\ Same(x)
          <6>1. stream[t][x].key # key
            BY <5>2, <1>17
          <6>2. QED
            BY <5>2, <6>1
        <5>3. QED
          BY <3>4, <1>15, <5>1, <5>2
      <4>2. CASE Other(i) /\ Other(j)
        BY <4>2, <2>2, <3>1
      <4>3. QED
        BY <4>1, <4>2, <2>2
    <3>5. QED
      BY <3>2, <3>3, <3>4
  <2>3. \A w \in waiters' : Given(w[2])'
    BY <1>11 DEF RestInv, StreamsCounted, Given
  <2>4. QED
    BY <2>1, <2>2, <2>3 DEF StreamsCounted
<1>21. ListsOwn'
  <2>1. ASSUME NEW w \in Lists PROVE Ordered(w[2], msgs'[w])
    <3>1. Ordered(w[2], msgs[w])
      BY DEF RestInv, ListsOwn
    <3>2. CASE w \in found
      <4>1. /\ msgs[w] \in Seq(AnswerPart) /\ msgs'[w] = Append(msgs[w], piece)
            /\ piece.key = w[2] /\ piece.number = Len(msgs[w]) + 1 /\ piece \in AnswerPart
        BY <3>2, <1>8, <1>12, <1>14
      <4>2. ASSUME NEW i \in 1 .. Len(msgs'[w])
            PROVE  msgs'[w][i].key = w[2] /\ msgs'[w][i].number = i
        <5>1. \/ i \in 1 .. Len(msgs[w]) /\ msgs'[w][i] = msgs[w][i]
              \/ i = Len(msgs[w]) + 1 /\ msgs'[w][i] = piece
          BY <4>1, <4>2
        <5>2. QED
          BY <5>1, <4>1, <3>1 DEF Ordered
      <4>3. QED
        BY <4>2 DEF Ordered
    <3>3. CASE w \notin found
      BY <3>1, <3>3, <1>13
    <3>4. QED
      BY <3>2, <3>3
  <2>2. ASSUME NEW x \in Client, Awaits(x)
        PROVE  /\ client[x].now \in Rest!Keys /\ Given(client[x].now)
               /\ WaiterOf(x) \notin waiters' => Complete(msgs'[WaiterOf(x)])
    <3>1. client[x].now \in Rest!Keys /\ Given(client[x].now)
      BY <2>2 DEF RestInv, ListsOwn
    <3>2. PICK w : w = WaiterOf(x)
      OBVIOUS
    <3>3. client[x].service \in Rest!Service
      BY DEF RestInv, RestTyped, RestRequest
    <3>4. w \in Lists
      BY <3>1, <3>2, <3>3 DEF WaiterOf, Lists
    <3>5. ASSUME w \notin waiters' PROVE Complete(msgs'[w])
      <4>1. CASE w \in found
        <5>1. ~more /\ ~piece.more
          BY <3>5, <4>1, <1>8, <1>11, <1>12
        <5>2. QED
          BY <4>1, <5>1, <1>12, <1>14 DEF Complete
      <4>2. CASE w \notin found
        <5>1. w \notin waiters
          BY <3>5, <4>2, <1>11
        <5>2. Complete(msgs[w])
          BY <5>1, <2>2, <3>2 DEF RestInv, ListsOwn
        <5>3. QED
          BY <4>2, <5>2, <3>4, <1>13
      <4>3. QED
        BY <4>1, <4>2
    <3>6. QED
      BY <3>1, <3>2, <3>5
  <2>3. ASSUME NEW x \in Client, Awaits(x)'
        PROVE  /\ (client[x].now \in Rest!Keys /\ Given(client[x].now))'
               /\ (WaiterOf(x) \notin waiters => Complete(msgs[WaiterOf(x)]))'
    <3>1. Awaits(x) /\ client'[x] = client[x] /\ WaiterOf(x)' = WaiterOf(x) /\ xid' = xid
      BY <2>3, <1>11 DEF Awaits, WaiterOf
    <3>2. QED
      BY <3>1, <2>2 DEF Given, Complete
  <2>4. (\A j, k \in Client : Awaits(j) /\ Awaits(k) /\ client[j].now = client[k].now => j = k)'
    BY <1>11 DEF RestInv, ListsOwn, Awaits
  <2>5. QED
    BY <2>1, <2>3, <2>4 DEF ListsOwn, Ordered
<1>22. VisitsOwn'
  BY <1>11 DEF RestInv, VisitsOwn, Ordered, Complete
<1>23. QED
  BY <1>16, <1>20, <1>21, <1>22 DEF RestInv

(* A visit that ends takes the list of its own key.                          *)
LEMMA EndVisitKeeps ==
    ASSUME RestInv, NEW k \in Client, NEW whole \in BOOLEAN, NEW forgets \in BOOLEAN,
           Rest!EndVisit(k, whole, forgets)
    PROVE  RestInv'
<1>1. PICK key : key = client[k].now
  OBVIOUS
<1>2. PICK mine : mine = WaiterOf(k)
  OBVIOUS
<1>3. client[k] \in RestRequest /\ client \in [Client -> RestRequest]
  BY DEF RestInv, RestTyped
<1>4. Awaits(k) /\ key \in Rest!Keys /\ mine \in Lists /\ mine[2] = key
  <2>1. Awaits(k)
    BY DEF Rest!EndVisit, Awaits
  <2>2. key \in Rest!Keys
    BY <1>1, <2>1 DEF RestInv, ListsOwn
  <2>3. QED
    BY <1>1, <1>2, <1>3, <2>1, <2>2 DEF WaiterOf, Lists, RestRequest
<1>5. Ordered(key, msgs[mine]) /\ (whole => Complete(msgs[mine]))
  <2>1. Ordered(key, msgs[mine])
    BY <1>4 DEF RestInv, ListsOwn
  <2>2. whole => mine \notin waiters
    BY <1>2 DEF Rest!EndVisit, WaiterOf
  <2>3. QED
    BY <1>2, <1>4, <2>1, <2>2 DEF RestInv, ListsOwn
<1>6. PICK visit : visit = [key |-> key, whole |-> whole, parts |-> msgs[mine]]
  OBVIOUS
<1>7. visit \in VisitMade /\ Ordered(visit.key, visit.parts) /\ (visit.whole => Complete(visit.parts))
  <2>1. msgs[mine] \in Seq(AnswerPart)
    BY <1>4 DEF RestInv, RestTyped
  <2>2. QED
    BY <1>4, <1>5, <1>6, <2>1 DEF VisitMade
<1>8. PICK next : next = [client[k] EXCEPT !.stage = "loop", !.visits = @ \cup {visit}]
  OBVIOUS
<1>9. next \in RestRequest /\ next.stage = "loop" /\ next.visits = client[k].visits \cup {visit}
  BY <1>3, <1>7, <1>8 DEF RestRequest
<1>10. client' = [client EXCEPT ![k] = next]
  BY <1>1, <1>2, <1>6, <1>8 DEF Rest!EndVisit, WaiterOf
<1>11. UNCHANGED <<routers, xid, msgs, stream>> /\ (waiters' = waiters \/ waiters' = waiters \ {mine})
  BY <1>2 DEF Rest!EndVisit, WaiterOf
<1>12. client'[k] = next /\ \A x \in Client : x # k => client'[x] = client[x]
  BY <1>3, <1>10
<1>13. RestTyped'
  BY <1>3, <1>9, <1>10, <1>11 DEF RestInv, RestTyped
<1>14. StreamsCounted'
  <2>1. waiters' \subseteq waiters
    BY <1>11
  <2>2. ASSUME NEW t \in Switch, NEW i \in 1 .. Len(stream[t]) PROVE EntryFits(t, stream[t][i])'
    <3>1. EntryFits(t, stream[t][i])
      BY DEF RestInv, StreamsCounted
    <3>2. QED
      BY <3>1, <2>1, <1>11 DEF EntryFits, Given
  <2>3. QED
    BY <2>1, <2>2, <1>11 DEF RestInv, StreamsCounted, Given
<1>15. ListsOwn'
  <2>1. ASSUME NEW x \in Client, Awaits(x)'
        PROVE  x # k /\ client'[x] = client[x] /\ Awaits(x) /\ client[x].now # key
    <3>1. x # k
      BY <2>1, <1>9, <1>12 DEF Awaits
    <3>2. client'[x] = client[x] /\ Awaits(x)
      BY <3>1, <2>1, <1>12 DEF Awaits
    <3>3. client[x].now # key
      BY <3>1, <3>2, <1>1, <1>4 DEF RestInv, ListsOwn
    <3>4. QED
      BY <3>1, <3>2, <3>3
  <2>2. ASSUME NEW x \in Client, Awaits(x)'
        PROVE  /\ (client[x].now \in Rest!Keys /\ Given(client[x].now))'
               /\ (WaiterOf(x) \notin waiters => Complete(msgs[WaiterOf(x)]))'
    <3>1. client'[x] = client[x] /\ Awaits(x) /\ client[x].now # key
      BY <2>1, <2>2
    <3>2. PICK w : w = WaiterOf(x)
      OBVIOUS
    <3>3. WaiterOf(x)' = w /\ w # mine
      BY <3>1, <3>2, <1>4 DEF WaiterOf
    <3>4. client[x].now \in Rest!Keys /\ Given(client[x].now) /\ (w \notin waiters => Complete(msgs[w]))
      BY <3>1, <3>2 DEF RestInv, ListsOwn
    <3>5. QED
      BY <3>1, <3>3, <3>4, <1>11 DEF Given, Complete
  <2>3. ASSUME NEW x \in Client, NEW y \in Client, Awaits(x)', Awaits(y)',
               client'[x].now = client'[y].now
        PROVE  x = y
    BY <2>1, <2>3 DEF RestInv, ListsOwn
  <2>4. QED
    BY <2>2, <2>3, <1>11 DEF RestInv, ListsOwn, Ordered, Awaits
<1>16. VisitsOwn'
  <2>1. ASSUME NEW x \in Client, NEW v \in client'[x].visits
        PROVE  Ordered(v.key, v.parts) /\ (v.whole => Complete(v.parts))
    <3>1. v \in client[x].visits \/ v = visit
      BY <1>9, <1>12, <2>1
    <3>2. QED
      BY <3>1, <1>7 DEF RestInv, VisitsOwn
  <2>2. QED
    BY <2>1 DEF VisitsOwn, Ordered, Complete
<1>17. QED
  BY <1>13, <1>14, <1>15, <1>16 DEF RestInv

(* The steps of a request that neither sends nor ends a wait.                *)
LEMMA RequestKeeps ==
    ASSUME RestInv, NEW k \in Client, NEW next \in RestRequest, next.stage # "wait",
           next.visits \subseteq client[k].visits, client' = [client EXCEPT ![k] = next],
           UNCHANGED <<routers, xid, waiters, msgs, stream>>
    PROVE  RestInv'
<1>1. RestTyped'
  BY DEF RestInv, RestTyped
<1>2. StreamsCounted'
  BY DEF RestInv, StreamsCounted, EntryFits, Given
<1>3. client \in [Client -> RestRequest]
  BY DEF RestInv, RestTyped
<1>4. client'[k] = next /\ \A x \in Client : x # k => client'[x] = client[x]
  BY <1>3
<1>5. ListsOwn'
  <2>1. ASSUME NEW x \in Client, Awaits(x)'
        PROVE  client'[x] = client[x] /\ Awaits(x) /\ WaiterOf(x)' = WaiterOf(x)
    BY <1>4, <2>1 DEF Awaits, WaiterOf
  <2>2. ASSUME NEW x \in Client, Awaits(x)'
        PROVE  /\ (client[x].now \in Rest!Keys /\ Given(client[x].now))'
               /\ (WaiterOf(x) \notin waiters => Complete(msgs[WaiterOf(x)]))'
    <3>1. client'[x] = client[x] /\ Awaits(x) /\ WaiterOf(x)' = WaiterOf(x)
      BY <2>1, <2>2
    <3>2. /\ client[x].now \in Rest!Keys /\ Given(client[x].now)
          /\ WaiterOf(x) \notin waiters => Complete(msgs[WaiterOf(x)])
      BY <3>1 DEF RestInv, ListsOwn
    <3>3. QED
      BY <3>1, <3>2 DEF Given, Complete
  <2>3. ASSUME NEW x \in Client, NEW y \in Client, Awaits(x)', Awaits(y)',
               client'[x].now = client'[y].now
        PROVE  x = y
    BY <2>1, <2>3 DEF RestInv, ListsOwn
  <2>4. QED
    BY <2>2, <2>3 DEF RestInv, ListsOwn, Ordered, Awaits
<1>6. VisitsOwn'
  BY <1>4 DEF RestInv, VisitsOwn, Ordered, Complete
<1>7. QED
  BY <1>1, <1>2, <1>5, <1>6 DEF RestInv

(* A message that is not answered takes a number.                            *)
LEMMA CommandKeeps ==
    ASSUME MaxXid \in [Switch -> Nat], RestInv, NEW k \in Client, NEW s \in Switch,
           Rest!CommandMethod(k, s)
    PROVE  RestInv'
<1>1. xid' = [xid EXCEPT ![s] = @ + 1] /\ UNCHANGED <<routers, waiters, msgs, stream, client>>
  BY DEF Rest!CommandMethod, Rest!Command
<1>2. xid \in [Switch -> Nat] /\ waiters \subseteq Lists /\ stream \in [Switch -> Seq(Entry)]
  BY DEF RestInv, RestTyped
<1>3. \A q \in Rest!Keys : Given(q) => Given(q)'
  BY <1>1, <1>2, KeyPairs DEF Given
<1>4. RestTyped'
  BY <1>1, <1>2 DEF RestInv, RestTyped
<1>5. StreamsCounted'
  <2>1. ASSUME NEW w \in waiters PROVE Given(w[2])'
    BY <1>2, <1>3 DEF RestInv, StreamsCounted, Lists
  <2>2. ASSUME NEW t \in Switch, NEW i \in 1 .. Len(stream[t]) PROVE EntryFits(t, stream[t][i])'
    <3>1. EntryFits(t, stream[t][i]) /\ stream[t][i] \in Entry
      BY <1>2 DEF RestInv, StreamsCounted
    <3>2. stream[t][i].key \in Rest!Keys
      BY <3>1 DEF Entry
    <3>3. PICK e : e = stream[t][i]
      OBVIOUS
    <3>4. Given(e.key)'
      BY <3>1, <3>2, <3>3, <1>3 DEF EntryFits
    <3>5. QED
      BY <3>1, <3>3, <3>4, <1>1 DEF EntryFits, Given
  <2>3. QED
    BY <2>1, <2>2, <1>1 DEF RestInv, StreamsCounted, Given
<1>6. ListsOwn'
  <2>1. ASSUME NEW x \in Client, Awaits(x) PROVE client[x].now \in Rest!Keys /\ Given(client[x].now)'
    <3>1. PICK key : key = client[x].now
      OBVIOUS
    <3>2. key \in Rest!Keys /\ Given(key)'
      BY <3>1, <2>1, <1>3 DEF RestInv, ListsOwn
    <3>3. QED
      BY <3>1, <3>2, <1>1 DEF Given
  <2>2. QED
    BY <2>1, <1>1 DEF RestInv, ListsOwn, Ordered, Complete, Awaits, WaiterOf, Given
<1>7. VisitsOwn'
  BY <1>1 DEF RestInv, VisitsOwn, Ordered, Complete
<1>8. QED
  BY <1>4, <1>5, <1>6, <1>7 DEF RestInv

(* Switches that join, or leave with what they had still to answer.          *)
LEMMA JoinsKeep ==
    ASSUME RestInv, NEW s \in Switch, Rest!RegisterRouter(s) \/ Rest!UnregisterRouter(s)
    PROVE  RestInv'
<1>1. UNCHANGED <<xid, waiters, msgs, client>>
  BY DEF Rest!RegisterRouter, Rest!UnregisterRouter
<1>2. stream' = stream \/ stream' = [stream EXCEPT ![s] = <<>>]
  BY DEF Rest!RegisterRouter, Rest!UnregisterRouter
<1>3. RestTyped'
  <2>1. stream' \in [Switch -> Seq(Entry)]
    <3>1. <<>> \in Seq(Entry) /\ stream \in [Switch -> Seq(Entry)]
      BY DEF RestInv, RestTyped
    <3>2. QED
      BY <3>1, <1>2
  <2>2. routers' \subseteq Switch
    BY DEF Rest!RegisterRouter, Rest!UnregisterRouter, RestInv, RestTyped
  <2>3. QED
    BY <1>1, <2>1, <2>2 DEF RestInv, RestTyped
<1>4. StreamsCounted'
  <2>1. ASSUME NEW t \in Switch PROVE stream'[t] = stream[t] \/ stream'[t] = <<>>
    BY <1>2 DEF RestInv, RestTyped
  <2>2. ASSUME NEW t \in Switch, NEW i \in 1 .. Len(stream'[t]) PROVE stream'[t] = stream[t]
    BY <2>1, <2>2
  <2>3. ASSUME NEW t \in Switch, NEW i \in 1 .. Len(stream'[t])
        PROVE  /\ EntryFits(t, stream[t][i])'
               /\ \A j \in 1 .. Len(stream'[t]) : stream'[t][i].key = stream'[t][j].key => i = j
    <3>1. stream'[t] = stream[t]
      BY <2>2
    <3>2. i \in 1 .. Len(stream[t])
      BY <3>1
    <3>3. /\ EntryFits(t, stream[t][i])
          /\ \A j \in 1 .. Len(stream[t]) : stream[t][i].key = stream[t][j].key => i = j
      BY <3>2 DEF RestInv, StreamsCounted
    <3>4. QED
      BY <3>1, <3>3, <1>1 DEF EntryFits, Given
  <2>4. \A w \in waiters : Given(w[2])'
    BY <1>1 DEF RestInv, StreamsCounted, Given
  <2>5. QED
    BY <1>1, <2>3, <2>4 DEF StreamsCounted
<1>5. ListsOwn' /\ VisitsOwn'
  BY <1>1 DEF RestInv, ListsOwn, VisitsOwn, Given, Ordered, Complete, Awaits, WaiterOf
<1>6. QED
  BY <1>3, <1>4, <1>5 DEF RestInv

(* Each step keeps the invariant.                                            *)
LEMMA RestStep ==
    ASSUME MaxXid \in [Switch -> Nat], RestInv, [Rest!Next]_restVars
    PROVE  RestInv'
<1>1. CASE Rest!Switches
  <2>1. PICK s \in Switch : \/ Rest!RegisterRouter(s) \/ Rest!UnregisterRouter(s)
                            \/ Rest!StatsReply(s) \/ Rest!FeaturesReply(s)
    BY <1>1 DEF Rest!Switches
  <2>2. CASE Rest!StatsReply(s)
    BY <2>2, ReplyKeeps DEF Rest!StatsReply
  <2>3. CASE Rest!FeaturesReply(s)
    BY <2>3, ReplyKeeps DEF Rest!FeaturesReply
  <2>4. QED
    BY <2>1, <2>2, <2>3, JoinsKeep
<1>2. ASSUME NEW k \in Client, NEW r \in AskedBy[k], NEW found, r.service \in Rest!Service,
             Rest!Access(k, r, found)
      PROVE  RestInv'
  <2> DEFINE next == [Rest!Idle EXCEPT
                !.stage = "loop", !.service = r.service, !.kind = Rest!Kind(r.path), !.todo = found]
  <2>1. client' = [client EXCEPT ![k] = next]
    BY <1>2 DEF Rest!Access
  <2>2. found \subseteq Switch /\ Rest!Kind(r.path) \in Kinds
    BY <1>2 DEF Rest!Access, RestInv, RestTyped, Kinds
  <2>3. next \in RestRequest /\ next.stage # "wait" /\ next.visits \subseteq client[k].visits
    BY <1>2, <2>2 DEF RestRequest, Rest!Idle
  <2>4. UNCHANGED <<routers, xid, waiters, msgs, stream>>
    BY <1>2 DEF Rest!Access
  <2> HIDE DEF next
  <2>5. QED
    BY <2>1, <2>3, <2>4, RequestKeeps
<1>3. ASSUME NEW k \in Client, Rest!Refuse(k) \/ Rest!Finish(k) PROVE RestInv'
  <2>1. client' = [client EXCEPT ![k] = Rest!Idle]
    BY <1>3 DEF Rest!Refuse, Rest!Finish
  <2>2. Rest!Idle \in RestRequest /\ Rest!Idle.stage # "wait" /\ Rest!Idle.visits \subseteq client[k].visits
    BY DEF Rest!Idle, Rest!Service, RestRequest, Kinds
  <2>3. UNCHANGED <<routers, xid, waiters, msgs, stream>>
    BY <1>3 DEF Rest!Refuse, Rest!Finish
  <2>4. QED
    BY <2>1, <2>2, <2>3, RequestKeeps
<1>4. ASSUME NEW k \in Client, NEW s \in Switch, Rest!Visit(k, s) PROVE RestInv'
  <2> DEFINE next == [client[k] EXCEPT !.todo = @ \ {s}]
  <2>1. client' = [client EXCEPT ![k] = next]
    BY <1>4 DEF Rest!Visit
  <2>2. client[k] \in RestRequest /\ client[k].stage = "loop"
    BY <1>4 DEF Rest!Visit, RestInv, RestTyped
  <2>3. next \in RestRequest /\ next.stage # "wait" /\ next.visits \subseteq client[k].visits
    BY <2>2 DEF RestRequest
  <2>4. UNCHANGED <<routers, xid, waiters, msgs, stream>>
    BY <1>4 DEF Rest!Visit
  <2> HIDE DEF next
  <2>5. QED
    BY <2>1, <2>3, <2>4, RequestKeeps
<1>5. ASSUME NEW k \in Client, Rest!Requests(k) PROVE RestInv'
  <2>1. ASSUME NEW r \in AskedBy[k], NEW found, Rest!AccessRouter(k, r, found) PROVE RestInv'
    BY <2>1, <1>2 DEF Rest!AccessRouter, Rest!Service
  <2>2. ASSUME NEW r \in AskedBy[k], NEW found, Rest!AccessSwitch(k, r, found) PROVE RestInv'
    BY <2>2, <1>2 DEF Rest!AccessSwitch, Rest!Service
  <2>3. ASSUME NEW r \in AskedBy[k], NEW s \in Switch, Rest!StatsMethod(k, r, s) PROVE RestInv'
    BY <2>3, <1>2 DEF Rest!StatsMethod, Rest!Service
  <2>4. ASSUME NEW s \in Switch,
               Rest!CommandMethod(k, s) \/ Rest!Visit(k, s) \/ Rest!SendStatsRequest(k, s)
        PROVE  RestInv'
    BY <2>4, <1>4, CommandKeeps, SendKeeps
  <2>5. ASSUME NEW whole \in BOOLEAN, NEW forgets \in BOOLEAN, Rest!EndVisit(k, whole, forgets)
        PROVE  RestInv'
    BY <2>5, EndVisitKeeps
  <2>6. CASE Rest!Refuse(k) \/ Rest!Finish(k)
    BY <2>6, <1>3
  <2>7. QED
    BY <1>5, <2>1, <2>2, <2>3, <2>4, <2>5, <2>6 DEF Rest!Requests
<1>6. CASE UNCHANGED restVars
  BY <1>6
  DEF restVars, RestInv, RestTyped, StreamsCounted, EntryFits, ListsOwn, VisitsOwn, Given, Ordered, Complete,
      Awaits, WaiterOf
<1>7. QED
  BY <1>1, <1>5, <1>6 DEF Rest!Next

(* A visit has its own answer, in order, and all of it unless it gave up.    *)
THEOREM AnswerOwn == Spec => []OwnAnswer
<1> DEFINE Inv == part = "rest" => RestInv
<1>1. Init => Inv
  BY RestInit, MaxXidAssumption DEF Init
<1>2. Inv /\ [Next]_vars => Inv'
  BY Separate, RestStep, MaxXidAssumption
<1>3. Inv => OwnAnswer
  <2> SUFFICES ASSUME part = "rest", RestInv PROVE Rest!OwnAnswer
    BY DEF OwnAnswer
  <2> SUFFICES ASSUME NEW c \in Client, NEW v \in client[c].visits
               PROVE  /\ \A i \in DOMAIN v.parts : v.parts[i].key = v.key /\ v.parts[i].number = i
                      /\ v.whole => v.parts # <<>> /\ ~v.parts[Len(v.parts)].more
    BY DEF Rest!OwnAnswer
  <2>1. v \in VisitMade
    BY DEF RestInv, RestTyped, RestRequest
  <2>2. DOMAIN v.parts = 1 .. Len(v.parts)
    BY <2>1 DEF VisitMade
  <2>3. QED
    BY <2>2 DEF RestInv, VisitsOwn, Ordered, Complete
<1>4. QED
  BY <1>1, <1>2, <1>3, PTL DEF Spec

-----------------------------------------------------------------------------
(* Routers of VLANs that come and go.                                        *)
VlanRouter ==
    [vlan : Vlan, address : Nat, routes : [Vlans!RoutePlaces -> Nat], macs : SUBSET Vlans!RoutePlaces,
     waiting : SUBSET {"near", "far"}, addressId : Nat, routeId : Nat]
Cookie == {"none", "default", "address", "route"} \X Nat
PlaceFlows == [Vlans!Places -> Cookie]
Deletion ==
    [stage : {"idle", "asked", "answered"}, job : {"none", "address", "route", "remove"},
     obj : Nat, skip : Nat, seen : SUBSET Cookie]

VlansTyped ==
    /\ router \in Seq(VlanRouter)
    /\ vlanTable \in [Vlan -> Nat]
    /\ connected \in BOOLEAN
    /\ vlanFlow \in [Vlan -> PlaceFlows]
    /\ vlanRequest \in [VlanClient -> Deletion]

\* The entry of a VLAN is a router of this VLAN.
TableOwn ==
    /\ \A v \in Vlan : vlanTable[v] # 0 =>
          vlanTable[v] \in 1 .. Len(router) /\ router[vlanTable[v]].vlan = v
    /\ ~connected => /\ \A v \in Vlan : vlanTable[v] = 0
                     /\ \A c \in VlanClient : vlanRequest[c] = Vlans!Idle

\* A deletion is for a router that is in the table, and what it decided on when it
\* asked for the flows is still so when they come.
Fits(q, rs, tb) ==
    q.stage # "idle" =>
        /\ q.obj \in 1 .. Len(rs) /\ tb[rs[q.obj].vlan] = q.obj
        /\ q.job = "remove" => Vlans!Unneeded(rs[q.obj])
        /\ q.job = "address" /\ Vlans!HasRoutes(rs[q.obj]) => q.skip = rs[q.obj].address

RequestsFit == \A c \in VlanClient : Fits(vlanRequest[c], router, vlanTable)

RouterServed(r, f) ==
    /\ r.address # 0 => f["address"] = <<"address", r.address>>
    /\ \A p \in Vlans!RoutePlaces : r.routes[p] # 0 => r.address # 0 /\ f[p] = <<"route", r.routes[p]>>

TableServed == \A v \in Vlan : vlanTable[v] # 0 => RouterServed(router[vlanTable[v]], vlanFlow[v])

VlansInv == VlansTyped /\ TableOwn /\ RequestsFit /\ TableServed

(* The inductive invariant holds at first.                                   *)
LEMMA VlansInit == Vlans!Init => VlansInv
<1> SUFFICES ASSUME Vlans!Init PROVE VlansInv
  OBVIOUS
<1>1. Vlans!NoFlow \in Cookie
  BY DEF Vlans!NoFlow, Cookie
<1>2. VlansTyped
  <2>1. router \in Seq(VlanRouter)
    BY DEF Vlans!Init
  <2>2. vlanFlow \in [Vlan -> PlaceFlows]
    BY <1>1 DEF Vlans!Init, PlaceFlows
  <2>3. vlanRequest \in [VlanClient -> Deletion]
    BY DEF Vlans!Init, Vlans!Idle, Deletion
  <2>4. QED
    BY <2>1, <2>2, <2>3 DEF Vlans!Init, VlansTyped
<1>3. TableOwn /\ RequestsFit /\ TableServed
  BY DEF Vlans!Init, TableOwn, RequestsFit, Fits, TableServed, Vlans!Idle
<1>4. QED
  BY <1>2, <1>3 DEF VlansInv

(* A step that replaces one router of the table and the flows of its VLAN.   *)
LEMMA UpdateKeeps ==
    ASSUME VlansInv, NEW v \in Vlan, vlanTable[v] # 0,
           NEW r \in VlanRouter, r.vlan = v, NEW f \in PlaceFlows, RouterServed(r, f),
           router' = [router EXCEPT ![vlanTable[v]] = r],
           vlanFlow' = [vlanFlow EXCEPT ![v] = f],
           UNCHANGED <<vlanTable, connected>>,
           vlanRequest' \in [VlanClient -> Deletion],
           \A c \in VlanClient : Fits(vlanRequest'[c], router', vlanTable)
    PROVE  VlansInv'
<1>1. vlanTable[v] \in 1 .. Len(router) /\ router[vlanTable[v]].vlan = v /\ connected
  BY DEF VlansInv, VlansTyped, TableOwn
<1>2. router \in Seq(VlanRouter) /\ vlanFlow \in [Vlan -> PlaceFlows]
  BY DEF VlansInv, VlansTyped
<1>3. router' \in Seq(VlanRouter) /\ Len(router') = Len(router)
  BY <1>1, <1>2
<1>4. VlansTyped'
  BY <1>2, <1>3 DEF VlansInv, VlansTyped
<1>5. /\ router'[vlanTable[v]] = r
      /\ \A i \in 1 .. Len(router) : i # vlanTable[v] => router'[i] = router[i]
  BY <1>1, <1>2
<1>6. \A w \in Vlan : vlanTable[w] # 0 /\ w # v =>
          /\ vlanTable[w] \in 1 .. Len(router) /\ router[vlanTable[w]].vlan = w
          /\ vlanTable[w] # vlanTable[v]
  BY <1>1 DEF VlansInv, TableOwn
<1>7. TableOwn'
  BY <1>1, <1>3, <1>5, <1>6 DEF TableOwn
<1>8. TableServed'
  <2>1. ASSUME NEW w \in Vlan, vlanTable[w] # 0
        PROVE  RouterServed(router'[vlanTable[w]], vlanFlow'[w])
    <3>1. CASE w = v
      BY <3>1, <1>2, <1>5
    <3>2. CASE w # v
      BY <3>2, <2>1, <1>2, <1>5, <1>6 DEF VlansInv, TableServed
    <3>3. QED
      BY <3>1, <3>2
  <2>2. QED
    BY <2>1 DEF TableServed, RouterServed
<1>9. RequestsFit'
  BY DEF RequestsFit, Fits, Vlans!Unneeded, Vlans!HasRoutes
<1>10. QED
  BY <1>4, <1>7, <1>8, <1>9 DEF VlansInv

(* A step that puts a new router into the table.                             *)
LEMMA AppendKeeps ==
    ASSUME VlansInv, NEW v \in Vlan, vlanTable[v] = 0,
           NEW r \in VlanRouter, r.vlan = v, NEW f \in PlaceFlows, RouterServed(r, f),
           router' = Append(router, r),
           vlanTable' = [vlanTable EXCEPT ![v] = Len(router) + 1],
           vlanFlow' \in [Vlan -> PlaceFlows], vlanFlow'[v] = f,
           \A w \in Vlan : vlanTable[w] # 0 => vlanFlow'[w] = vlanFlow[w],
           connected',
           vlanRequest' \in [VlanClient -> Deletion],
           \A c \in VlanClient : Fits(vlanRequest'[c], router', vlanTable')
    PROVE  VlansInv'
<1>1. router \in Seq(VlanRouter) /\ vlanTable \in [Vlan -> Nat] /\ Len(router) \in Nat
  BY DEF VlansInv, VlansTyped
<1>2. router' \in Seq(VlanRouter) /\ Len(router') = Len(router) + 1
  BY <1>1
<1>3. router'[Len(router) + 1] = r /\ \A i \in 1 .. Len(router) : router'[i] = router[i]
  BY <1>1
<1>4. vlanTable'[v] = Len(router) + 1 /\ \A w \in Vlan : w # v => vlanTable'[w] = vlanTable[w]
  BY <1>1
<1>5. VlansTyped'
  BY <1>1, <1>2 DEF VlansTyped
<1>6. TableOwn'
  BY <1>1, <1>2, <1>3, <1>4 DEF VlansInv, TableOwn
<1>7. TableServed'
  <2>1. ASSUME NEW w \in Vlan, vlanTable'[w] # 0
        PROVE  RouterServed(router'[vlanTable'[w]], vlanFlow'[w])
    <3>1. CASE w = v
      BY <3>1, <1>3, <1>4
    <3>2. CASE w # v
      <4>1. vlanTable'[w] = vlanTable[w] /\ vlanTable[w] \in 1 .. Len(router)
        BY <3>2, <2>1, <1>4 DEF VlansInv, TableOwn
      <4>2. QED
        BY <4>1, <2>1, <1>3 DEF VlansInv, TableServed
    <3>3. QED
      BY <3>1, <3>2
  <2>2. QED
    BY <2>1 DEF TableServed, RouterServed
<1>8. RequestsFit'
  BY DEF RequestsFit, Fits, Vlans!Unneeded, Vlans!HasRoutes
<1>9. QED
  BY <1>5, <1>6, <1>7, <1>8 DEF VlansInv

(* The router that a request gets is as it is listed.                        *)
LEMMA TargetServed ==
    ASSUME VlansInv, NEW v \in Vlan
    PROVE  /\ Vlans!Target(v) \in VlanRouter /\ Vlans!Target(v).vlan = v
           /\ RouterServed(Vlans!Target(v), vlanFlow[v])
           /\ vlanTable[v] = 0 =>
                Vlans!Target(v).address = 0 /\ \A p \in Vlans!RoutePlaces : Vlans!Target(v).routes[p] = 0
<1>1. CASE vlanTable[v] # 0
  <2>1. vlanTable[v] \in 1 .. Len(router) /\ router \in Seq(VlanRouter)
    BY <1>1 DEF VlansInv, TableOwn, VlansTyped
  <2>2. router[vlanTable[v]] \in VlanRouter
    BY <2>1
  <2>3. QED
    BY <1>1, <2>2 DEF Vlans!Target, VlansInv, TableOwn, TableServed
<1>2. CASE vlanTable[v] = 0
  <2>1. Vlans!Target(v) = Vlans!NewRouter(v)
    BY <1>2 DEF Vlans!Target
  <2>2. Vlans!NewRouter(v) \in VlanRouter
    BY DEF Vlans!NewRouter, VlanRouter, Vlans!RoutePlaces
  <2>3. QED
    BY <2>1, <2>2 DEF Vlans!NewRouter, RouterServed
<1>3. QED
  BY <1>1, <1>2

(* A post that leaves the router served leaves all of them so.               *)
LEMMA PostingKeeps ==
    ASSUME VlansInv, NEW v \in Vlan, connected,
           NEW r \in VlanRouter, r.vlan = v, NEW f \in PlaceFlows, RouterServed(r, f),
           vlanTable[v] = 0 => r.routes["default"] = 0,
           Vlans!Posting(v, r, [vlanFlow EXCEPT ![v] = f]),
           UNCHANGED connected,
           vlanRequest' \in [VlanClient -> Deletion],
           \A c \in VlanClient : Fits(vlanRequest'[c], router', vlanTable')
    PROVE  VlansInv'
<1>1. CASE vlanTable[v] # 0
  <2>1. /\ router' = [router EXCEPT ![vlanTable[v]] = r]
        /\ vlanFlow' = [vlanFlow EXCEPT ![v] = f]
        /\ UNCHANGED vlanTable
    BY <1>1 DEF Vlans!Posting
  <2>2. QED
    BY <1>1, <2>1, UpdateKeeps
<1>2. CASE vlanTable[v] = 0
  <2>1. PICK g : g = [f EXCEPT !["default"] = Vlans!DropFlow]
    OBVIOUS
  <2>2. /\ router' = Append(router, r)
        /\ vlanTable' = [vlanTable EXCEPT ![v] = Len(router) + 1]
        /\ vlanFlow' = [[vlanFlow EXCEPT ![v] = f] EXCEPT ![v]["default"] = Vlans!DropFlow]
    BY <1>2 DEF Vlans!Posting
  <2>3. vlanFlow \in [Vlan -> PlaceFlows]
    BY DEF VlansInv, VlansTyped
  <2>4. g \in PlaceFlows
    BY <2>1 DEF PlaceFlows, Vlans!DropFlow, Cookie
  <2>5. vlanFlow' = [vlanFlow EXCEPT ![v] = g]
    BY <2>1, <2>2, <2>3
  <2>6. RouterServed(r, g)
    BY <1>2, <2>1 DEF RouterServed, PlaceFlows, Vlans!Places, Vlans!RoutePlaces
  <2>7. vlanFlow' \in [Vlan -> PlaceFlows] /\ vlanFlow'[v] = g
    BY <2>3, <2>4, <2>5
  <2>8. \A w \in Vlan : vlanTable[w] # 0 => vlanFlow'[w] = vlanFlow[w]
    BY <1>2, <2>3, <2>5
  <2>9. QED
    BY <1>2, <2>2, <2>4, <2>6, <2>7, <2>8, AppendKeeps
<1>3. QED
  BY <1>1, <1>2

(* A request that posts is the only one there is.                            *)
LEMMA AloneFits ==
    ASSUME \A a, b \in VlanClient : a = b, NEW c \in VlanClient, vlanRequest[c] = Vlans!Idle,
           UNCHANGED vlanRequest
    PROVE  \A a \in VlanClient : Fits(vlanRequest'[a], router', vlanTable')
BY DEF Fits, Vlans!Idle

(* An address is posted to a router without one, and so without routes.      *)
LEMMA SetAddressKeeps ==
    ASSUME \A a, b \in VlanClient : a = b, VlansInv, NEW c \in VlanClient, NEW v \in Vlan,
           Vlans!SetAddress(c, v)
    PROVE  VlansInv'
<1>1. PICK r : r = Vlans!Target(v)
  OBVIOUS
<1>2. /\ r \in VlanRouter /\ r.vlan = v /\ RouterServed(r, vlanFlow[v]) /\ r.address = 0
      /\ vlanTable[v] = 0 => \A p \in Vlans!RoutePlaces : r.routes[p] = 0
  BY <1>1, TargetServed DEF Vlans!SetAddress
<1>3. PICK next : next = [r EXCEPT !.address = r.addressId, !.addressId = r.addressId + 1]
  OBVIOUS
<1>4. PICK f : f = [vlanFlow[v] EXCEPT !["address"] = <<"address", r.addressId>>]
  OBVIOUS
<1>5. next \in VlanRouter /\ next.vlan = v /\ next.address = r.addressId /\ next.routes = r.routes
  <2>1. r.addressId \in Nat /\ r.addressId + 1 \in Nat
    BY <1>2 DEF VlanRouter
  <2>2. PICK n \in Nat : n = r.addressId + 1
    BY <2>1
  <2>3. next = [r EXCEPT !.address = r.addressId, !.addressId = n]
    BY <1>3, <2>2
  <2>4. QED
    BY <1>2, <2>1, <2>3 DEF VlanRouter
<1>6. vlanFlow \in [Vlan -> PlaceFlows]
  BY DEF VlansInv, VlansTyped
<1>7. f \in PlaceFlows /\ f["address"] = <<"address", r.addressId>>
  BY <1>2, <1>4, <1>6 DEF PlaceFlows, Cookie, Vlans!Places, VlanRouter
<1>8. RouterServed(next, f)
  BY <1>2, <1>5, <1>7 DEF RouterServed
<1>9. Vlans!Posting(v, next, [vlanFlow EXCEPT ![v] = f])
  <2>1. [vlanFlow EXCEPT ![v]["address"] = <<"address", r.addressId>>] = [vlanFlow EXCEPT ![v] = f]
    BY <1>4, <1>6
  <2>2. Vlans!WithAddress(r) = next
    BY <1>3 DEF Vlans!WithAddress
  <2>3. QED
    BY <1>1, <2>1, <2>2 DEF Vlans!SetAddress
<1>10. connected /\ UNCHANGED <<connected, vlanRequest>> /\ vlanRequest[c] = Vlans!Idle
  BY DEF Vlans!SetAddress, Vlans!Ready
<1>11. vlanRequest' \in [VlanClient -> Deletion]
  BY <1>10 DEF VlansInv, VlansTyped
<1>12. "default" \in Vlans!RoutePlaces
  BY DEF Vlans!RoutePlaces
<1>13. QED
  BY <1>2, <1>5, <1>7, <1>8, <1>9, <1>10, <1>11, <1>12, AloneFits, PostingKeeps

(* A route is posted where there is an address.                              *)
LEMMA SetRouteKeeps ==
    ASSUME \A a, b \in VlanClient : a = b, VlansInv, NEW c \in VlanClient, NEW v \in Vlan,
           NEW p \in Vlans!RoutePlaces, Vlans!SetRoute(c, v, p)
    PROVE  VlansInv'
<1>1. PICK r : r = Vlans!Target(v)
  OBVIOUS
<1>2. /\ r \in VlanRouter /\ r.vlan = v /\ RouterServed(r, vlanFlow[v]) /\ r.address # 0
      /\ vlanTable[v] # 0
  BY <1>1, TargetServed DEF Vlans!SetRoute
<1>3. PICK next : next = [r EXCEPT !.routes[p] = r.routeId, !.routeId = r.routeId + 1, !.macs = r.macs \ {p}]
  OBVIOUS
<1>4. PICK f : f = [vlanFlow[v] EXCEPT ![p] = <<"route", r.routeId>>]
  OBVIOUS
<1>5. /\ next \in VlanRouter /\ next.vlan = v /\ next.address = r.address
      /\ next.routes = [r.routes EXCEPT ![p] = r.routeId]
  <2>1. r.routeId \in Nat /\ r.routeId + 1 \in Nat /\ r.routes \in [Vlans!RoutePlaces -> Nat]
    BY <1>2 DEF VlanRouter
  <2>2. PICK n \in Nat : n = r.routeId + 1
    BY <2>1
  <2>3. PICK rows \in [Vlans!RoutePlaces -> Nat] : rows = [r.routes EXCEPT ![p] = r.routeId]
    BY <2>1
  <2>4. PICK macs_ \in SUBSET Vlans!RoutePlaces : macs_ = r.macs \ {p}
    BY <1>2 DEF VlanRouter
  <2>5. next = [r EXCEPT !.routes = rows, !.routeId = n, !.macs = macs_]
    BY <1>2, <1>3, <2>2, <2>3, <2>4 DEF VlanRouter
  <2>6. QED
    BY <1>2, <2>3, <2>5 DEF VlanRouter
<1>6. vlanFlow \in [Vlan -> PlaceFlows]
  BY DEF VlansInv, VlansTyped
<1>7. f \in PlaceFlows /\ p \in Vlans!Places /\ p # "address" /\ r.routes \in [Vlans!RoutePlaces -> Nat]
  BY <1>2, <1>4, <1>6 DEF PlaceFlows, Cookie, Vlans!Places, Vlans!RoutePlaces, VlanRouter
<1>8. RouterServed(next, f)
  BY <1>2, <1>4, <1>5, <1>6, <1>7 DEF RouterServed, PlaceFlows, Vlans!Places, Vlans!RoutePlaces
<1>9. Vlans!Posting(v, next, [vlanFlow EXCEPT ![v] = f])
  <2>1. [vlanFlow EXCEPT ![v][p] = <<"route", r.routeId>>] = [vlanFlow EXCEPT ![v] = f]
    BY <1>4, <1>6
  <2>2. Vlans!WithRoute(r, p) = next
    BY <1>3 DEF Vlans!WithRoute
  <2>3. QED
    BY <1>1, <2>1, <2>2 DEF Vlans!SetRoute
<1>10. connected /\ UNCHANGED <<connected, vlanRequest>> /\ vlanRequest[c] = Vlans!Idle
  BY DEF Vlans!SetRoute, Vlans!Ready
<1>11. vlanRequest' \in [VlanClient -> Deletion]
  BY <1>10 DEF VlansInv, VlansTyped
<1>12. QED
  BY <1>2, <1>5, <1>7, <1>8, <1>9, <1>10, <1>11, AloneFits, PostingKeeps

(* A post that is refused may leave a router that nobody needs, which is then*)
(* to be removed.                                                            *)
LEMMA SetNothingKeeps ==
    ASSUME \A a, b \in VlanClient : a = b, VlansInv, NEW c \in VlanClient, NEW v \in Vlan,
           Vlans!SetNothing(c, v)
    PROVE  VlansInv'
<1>1. PICK r : r = Vlans!Target(v)
  OBVIOUS
<1>2. /\ r \in VlanRouter /\ r.vlan = v /\ RouterServed(r, vlanFlow[v])
      /\ vlanTable[v] = 0 => \A p \in Vlans!RoutePlaces : r.routes[p] = 0
  BY <1>1, TargetServed
<1>3. /\ vlanFlow \in [Vlan -> PlaceFlows] /\ router \in Seq(VlanRouter) /\ vlanTable \in [Vlan -> Nat]
      /\ vlanRequest \in [VlanClient -> Deletion]
  BY DEF VlansInv, VlansTyped
<1>4. /\ Vlans!Posting(v, r, vlanFlow) /\ connected /\ UNCHANGED connected
      /\ vlanRequest' = [vlanRequest EXCEPT ![c] = Vlans!Remainder(v, vlanTable'[v], r)]
  BY <1>1 DEF Vlans!SetNothing, Vlans!Ready
<1>5. Vlans!Posting(v, r, [vlanFlow EXCEPT ![v] = vlanFlow[v]])
  <2>1. [vlanFlow EXCEPT ![v] = vlanFlow[v]] = vlanFlow
    BY <1>3
  <2>2. QED
    BY <1>4, <2>1
<1>6. vlanTable'[v] \in 1 .. Len(router') /\ router'[vlanTable'[v]] = r
  <2>1. CASE vlanTable[v] # 0
    <3>1. vlanTable[v] \in 1 .. Len(router)
      BY <2>1 DEF VlansInv, TableOwn
    <3>2. router' = [router EXCEPT ![vlanTable[v]] = r] /\ UNCHANGED vlanTable
      BY <2>1, <1>4 DEF Vlans!Posting
    <3>3. QED
      BY <3>1, <3>2, <1>3
  <2>2. CASE vlanTable[v] = 0
    <3>1. router' = Append(router, r) /\ vlanTable' = [vlanTable EXCEPT ![v] = Len(router) + 1]
      BY <2>2, <1>4 DEF Vlans!Posting
    <3>2. QED
      BY <3>1, <1>3, <1>2
  <2>3. QED
    BY <2>1, <2>2
<1>7. PICK o : o = vlanTable'[v]
  OBVIOUS
<1>8. PICK q : q = Vlans!Remainder(v, o, r)
  OBVIOUS
<1>9. o \in Nat /\ q \in Deletion /\ Fits(q, router', vlanTable')
  <2>1. o \in 1 .. Len(router') /\ router'[o] = r /\ vlanTable'[r.vlan] = o
    BY <1>2, <1>6, <1>7
  <2>2. Len(router') \in Nat
    BY <1>3, <1>4, <1>2 DEF Vlans!Posting
  <2>3. o \in Nat
    BY <2>1, <2>2
  <2>4. CASE q = Vlans!Idle
    BY <2>3, <2>4 DEF Vlans!Idle, Deletion, Fits
  <2>5. CASE q # Vlans!Idle
    <3>1. q = Vlans!Asked("remove", o, 0) /\ Vlans!Unneeded(r)
      BY <2>5, <1>8 DEF Vlans!Remainder
    <3>2. QED
      BY <2>1, <2>3, <3>1 DEF Vlans!Asked, Vlans!Idle, Deletion, Fits
  <2>6. QED
    BY <2>4, <2>5
<1>10. vlanRequest' = [vlanRequest EXCEPT ![c] = q]
  BY <1>4, <1>7, <1>8
<1>11. \A a \in VlanClient : vlanRequest'[a] = q
  BY <1>3, <1>10
<1>12. vlanRequest' \in [VlanClient -> Deletion]
  BY <1>3, <1>9, <1>10
<1>13. \A a \in VlanClient : Fits(vlanRequest'[a], router', vlanTable')
  BY <1>9, <1>11
<1>14. vlanFlow[v] \in PlaceFlows /\ "default" \in Vlans!RoutePlaces
  BY <1>3 DEF Vlans!RoutePlaces
<1>15. QED
  BY <1>2, <1>4, <1>5, <1>12, <1>13, <1>14, PostingKeeps

(* A deletion asks for the flows; the switch answers.                        *)
LEMMA AskingKeeps ==
    ASSUME VlansInv, NEW c \in VlanClient, NEW q \in Deletion,
           Fits(q, router, vlanTable), connected,
           vlanRequest' = [vlanRequest EXCEPT ![c] = q],
           UNCHANGED <<router, vlanTable, connected, vlanFlow>>
    PROVE  VlansInv'
<1>1. vlanRequest \in [VlanClient -> Deletion]
  BY DEF VlansInv, VlansTyped
<1>2. VlansTyped'
  BY <1>1 DEF VlansInv, VlansTyped
<1>3. TableOwn' /\ TableServed'
  BY DEF VlansInv, TableOwn, TableServed, RouterServed
<1>4. RequestsFit'
  BY <1>1 DEF VlansInv, RequestsFit, Fits, Vlans!Unneeded, Vlans!HasRoutes
<1>5. QED
  BY <1>2, <1>3, <1>4 DEF VlansInv

(* The requests that ask and that are answered fit.                          *)
LEMMA DeletionAsks ==
    ASSUME VlansInv, NEW c \in VlanClient,
           \/ \E v \in Vlan, task \in {"address", "route"} : Vlans!AskDelete(c, v, task)
           \/ Vlans!StatsReply(c)
    PROVE  VlansInv'
<1>1. vlanRequest \in [VlanClient -> Deletion] /\ vlanFlow \in [Vlan -> PlaceFlows]
  BY DEF VlansInv, VlansTyped
<1>2. ASSUME NEW v \in Vlan, NEW task \in {"address", "route"}, Vlans!AskDelete(c, v, task)
      PROVE  VlansInv'
  <2>1. vlanTable[v] # 0 /\ connected
    BY <1>2 DEF Vlans!AskDelete, Vlans!Ready
  <2>2. PICK o : o = vlanTable[v]
    OBVIOUS
  <2>3. PICK r : r = Vlans!Target(v)
    OBVIOUS
  <2>4. o \in 1 .. Len(router) /\ r = router[o] /\ r \in VlanRouter /\ vlanTable[r.vlan] = o /\ o \in Nat
    BY <2>1, <2>2, <2>3, TargetServed DEF VlansInv, TableOwn, VlansTyped, Vlans!Target
  <2>5. PICK skip : skip = IF Vlans!HasRoutes(r) THEN r.address ELSE 0
    OBVIOUS
  <2>6. PICK q : q = Vlans!Asked(task, o, skip)
    OBVIOUS
  <2>7. skip \in Nat
    BY <2>4, <2>5 DEF VlanRouter
  <2>8. q \in Deletion /\ Fits(q, router, vlanTable)
    BY <2>4, <2>5, <2>6, <2>7 DEF Vlans!Asked, Vlans!Idle, Deletion, Fits
  <2>9. /\ vlanRequest' = [vlanRequest EXCEPT ![c] = q]
        /\ UNCHANGED <<router, vlanTable, connected, vlanFlow>>
    BY <1>2, <2>2, <2>3, <2>5, <2>6 DEF Vlans!AskDelete
  <2>10. QED
    BY <2>1, <2>8, <2>9, AskingKeeps
<1>3. CASE Vlans!StatsReply(c)
  <2>1. vlanRequest[c].stage = "asked" /\ vlanRequest[c] \in Deletion
    BY <1>1, <1>3 DEF Vlans!StatsReply
  <2>2. /\ vlanRequest[c].obj \in 1 .. Len(router)
        /\ router[vlanRequest[c].obj].vlan \in Vlan
    <3>1. vlanRequest[c].obj \in 1 .. Len(router) /\ router \in Seq(VlanRouter)
      BY <2>1 DEF VlansInv, RequestsFit, Fits, VlansTyped
    <3>2. router[vlanRequest[c].obj] \in VlanRouter
      BY <3>1
    <3>3. QED
      BY <3>1, <3>2 DEF VlanRouter
  <2>3. connected
    BY <2>1 DEF VlansInv, TableOwn, VlansTyped, Vlans!Idle
  <2>4. PICK some \in SUBSET Vlans!Places :
          vlanRequest' = [vlanRequest EXCEPT ![c].stage = "answered",
              ![c].seen = {vlanFlow[router[vlanRequest[c].obj].vlan][p] : p \in some} \ {Vlans!NoFlow}]
    BY <1>3 DEF Vlans!StatsReply
  <2>5. PICK seen : seen = {vlanFlow[router[vlanRequest[c].obj].vlan][p] : p \in some} \ {Vlans!NoFlow}
    OBVIOUS
  <2>6. seen \in SUBSET Cookie
    BY <1>1, <2>2, <2>5 DEF PlaceFlows
  <2>7. PICK q : q = [vlanRequest[c] EXCEPT !.stage = "answered", !.seen = seen]
    OBVIOUS
  <2>8. /\ q \in Deletion /\ q.obj = vlanRequest[c].obj /\ q.job = vlanRequest[c].job
        /\ q.skip = vlanRequest[c].skip
    BY <2>1, <2>6, <2>7 DEF Deletion
  <2>9. Fits(q, router, vlanTable)
    BY <2>1, <2>8 DEF VlansInv, RequestsFit, Fits
  <2>10. vlanRequest' = [vlanRequest EXCEPT ![c] = q]
    BY <1>1, <2>4, <2>5, <2>7
  <2>11. UNCHANGED <<router, vlanTable, connected, vlanFlow>>
    BY <1>3 DEF Vlans!StatsReply
  <2>12. QED
    BY <2>3, <2>8, <2>9, <2>10, <2>11, AskingKeeps
<1>4. QED
  BY <1>2, <1>3

(* What a deletion is for is in the table, under its VLAN.                   *)
LEMMA DeletionTarget ==
    ASSUME VlansInv, NEW c \in VlanClient, vlanRequest[c].stage # "idle",
           NEW o, o = vlanRequest[c].obj
    PROVE  /\ o \in 1 .. Len(router) /\ o \in Nat /\ o # 0
           /\ router[o] \in VlanRouter /\ router[o].vlan \in Vlan
           /\ vlanTable[router[o].vlan] = o
           /\ RouterServed(router[o], vlanFlow[router[o].vlan])
<1>1. router \in Seq(VlanRouter)
  BY DEF VlansInv, VlansTyped
<1>2. o \in 1 .. Len(router) /\ vlanTable[router[o].vlan] = o
  BY DEF VlansInv, RequestsFit, Fits
<1>3. router[o] \in VlanRouter /\ o \in Nat /\ o # 0
  BY <1>1, <1>2
<1>4. router[o].vlan \in Vlan
  BY <1>3 DEF VlanRouter
<1>5. QED
  BY <1>2, <1>3, <1>4 DEF VlansInv, TableServed

(* The flows and rows that are deleted are the same, and an address that a   *)
(* route needs is not among them.                                            *)
LEMMA DeleteDataKeeps ==
    ASSUME \A a, b \in VlanClient : a = b, VlansInv, NEW c \in VlanClient, Vlans!DeleteData(c)
    PROVE  VlansInv'
<1>1. PICK o : o = vlanRequest[c].obj
  OBVIOUS
<1>2. PICK r : r = router[o]
  OBVIOUS
<1>3. PICK v : v = r.vlan
  OBVIOUS
<1>4. PICK doomed : doomed = Vlans!Doomed(c)
  OBVIOUS
<1>5. /\ o \in 1 .. Len(router) /\ o \in Nat /\ o # 0
      /\ r \in VlanRouter /\ v \in Vlan /\ vlanTable[v] = o /\ RouterServed(r, vlanFlow[v])
  BY <1>1, <1>2, <1>3, DeletionTarget DEF Vlans!DeleteData
<1>6. /\ vlanFlow \in [Vlan -> PlaceFlows] /\ router \in Seq(VlanRouter)
      /\ vlanRequest \in [VlanClient -> Deletion]
  BY DEF VlansInv, VlansTyped
<1>7. PICK next : next = Vlans!WithoutRows(r, doomed)
  OBVIOUS
<1>8. /\ next \in VlanRouter /\ next.vlan = v
      /\ next.address = IF <<"address", r.address>> \in doomed THEN 0 ELSE r.address
      /\ next.routes = [p \in Vlans!RoutePlaces |->
                          IF <<"route", r.routes[p]>> \in doomed THEN 0 ELSE r.routes[p]]
  <2>1. PICK rows : rows = [p \in Vlans!RoutePlaces |->
                               IF <<"route", r.routes[p]>> \in doomed THEN 0 ELSE r.routes[p]]
    OBVIOUS
  <2>2. PICK n : n = IF <<"address", r.address>> \in doomed THEN 0 ELSE r.address
    OBVIOUS
  <2>3. PICK left : left = IF <<"address", r.address>> \in doomed THEN r.waiting \ {"near"} ELSE r.waiting
    OBVIOUS
  <2>4. rows \in [Vlans!RoutePlaces -> Nat] /\ n \in Nat /\ left \in SUBSET {"near", "far"}
    BY <1>5, <2>1, <2>2, <2>3 DEF VlanRouter
  <2>5. next = [r EXCEPT !.address = n, !.waiting = left, !.routes = rows]
    BY <1>7, <2>1, <2>2, <2>3 DEF Vlans!WithoutRows
  <2>6. next \in VlanRouter /\ next.vlan = v /\ next.address = n /\ next.routes = rows
    BY <1>3, <1>5, <2>4, <2>5 DEF VlanRouter
  <2>7. QED
    BY <2>1, <2>2, <2>6
<1>9. PICK f : f = [p \in Vlans!Places |->
                      IF vlanFlow[v][p] \notin doomed THEN vlanFlow[v][p]
                      ELSE IF p = "default" THEN Vlans!DropFlow ELSE Vlans!NoFlow]
  OBVIOUS
<1>10. f \in PlaceFlows
  <2>1. Vlans!DropFlow \in Cookie /\ Vlans!NoFlow \in Cookie
    BY DEF Vlans!DropFlow, Vlans!NoFlow, Cookie
  <2>2. vlanFlow[v] \in PlaceFlows
    BY <1>5, <1>6
  <2>3. QED
    BY <1>9, <2>1, <2>2 DEF PlaceFlows
<1>11. vlanFlow' = [vlanFlow EXCEPT ![v] = f]
  BY <1>1, <1>2, <1>3, <1>4, <1>6, <1>9 DEF Vlans!DeleteData, Vlans!FlowsWithout
<1>12. router' = [router EXCEPT ![o] = next]
  BY <1>1, <1>2, <1>4, <1>7 DEF Vlans!DeleteData
<1>13. ASSUME NEW p \in Vlans!RoutePlaces, next.routes[p] # 0
       PROVE  r.routes[p] # 0 /\ next.routes[p] = r.routes[p] /\ <<"route", r.routes[p]>> \notin doomed
  BY <1>8, <1>13
<1>14. (\E p \in Vlans!RoutePlaces : r.routes[p] # 0) /\ <<"address", r.address>> \in doomed => FALSE
  <2>1. <<"address", r.address>> \in doomed =>
            vlanRequest[c].job = "address" /\ r.address # vlanRequest[c].skip
    BY <1>4 DEF Vlans!Doomed
  <2>2. vlanRequest[c].job = "address" /\ Vlans!HasRoutes(r) => vlanRequest[c].skip = r.address
    BY <1>1, <1>2 DEF Vlans!DeleteData, VlansInv, RequestsFit, Fits
  <2>3. QED
    BY <2>1, <2>2 DEF Vlans!HasRoutes
<1>15. RouterServed(next, f)
  <2>1. next.address # 0 => f["address"] = <<"address", next.address>>
    BY <1>5, <1>8, <1>9 DEF RouterServed, Vlans!Places
  <2>2. ASSUME NEW p \in Vlans!RoutePlaces, next.routes[p] # 0
        PROVE  next.address # 0 /\ f[p] = <<"route", next.routes[p]>>
    <3>1. r.routes[p] # 0 /\ next.routes[p] = r.routes[p] /\ <<"route", r.routes[p]>> \notin doomed
      BY <1>13, <2>2
    <3>2. r.address # 0 /\ vlanFlow[v][p] = <<"route", r.routes[p]>>
      BY <3>1, <1>5 DEF RouterServed
    <3>3. next.address # 0
      BY <3>1, <3>2, <1>8, <1>14
    <3>4. p \in Vlans!Places
      BY DEF Vlans!Places, Vlans!RoutePlaces
    <3>5. QED
      BY <3>1, <3>2, <3>3, <3>4, <1>9
  <2>3. QED
    BY <2>1, <2>2 DEF RouterServed
<1>16. PICK q : q = Vlans!Remainder(v, o, next)
  OBVIOUS
<1>17. router'[o] = next
  BY <1>5, <1>6, <1>12
<1>18. vlanRequest' = [vlanRequest EXCEPT ![c] = q]
  BY <1>1, <1>2, <1>3, <1>5, <1>16, <1>17 DEF Vlans!DeleteData
<1>19. q \in Deletion /\ Fits(q, router', vlanTable)
  <2>1. Len(router') = Len(router)
    BY <1>5, <1>6, <1>8, <1>12
  <2>2. CASE q = Vlans!Idle
    BY <2>2 DEF Vlans!Idle, Deletion, Fits
  <2>3. CASE q # Vlans!Idle
    <3>1. q = Vlans!Asked("remove", o, 0) /\ Vlans!Unneeded(next)
      BY <2>3, <1>16 DEF Vlans!Remainder
    <3>2. QED
      BY <3>1, <2>1, <1>5, <1>8, <1>17 DEF Vlans!Asked, Vlans!Idle, Deletion, Fits
  <2>4. QED
    BY <2>2, <2>3
<1>20. \A a \in VlanClient : vlanRequest'[a] = q
  BY <1>6, <1>18
<1>21. /\ vlanRequest' \in [VlanClient -> Deletion]
       /\ \A a \in VlanClient : Fits(vlanRequest'[a], router', vlanTable)
  BY <1>6, <1>18, <1>19, <1>20
<1>22. UNCHANGED <<vlanTable, connected>>
  BY DEF Vlans!DeleteData
<1>23. QED
  BY <1>5, <1>8, <1>10, <1>11, <1>12, <1>15, <1>21, <1>22, UpdateKeeps

(* A router that is removed was needed by nobody when its flows were asked   *)
(* for, and so it is when they are deleted.                                  *)
LEMMA RemoveRouterKeeps ==
    ASSUME \A a, b \in VlanClient : a = b, VlansInv, NEW c \in VlanClient, Vlans!RemoveRouter(c)
    PROVE  VlansInv'
<1>1. PICK o : o = vlanRequest[c].obj
  OBVIOUS
<1>2. PICK r : r = router[o]
  OBVIOUS
<1>3. PICK v : v = r.vlan
  OBVIOUS
<1>4. PICK seen : seen = vlanRequest[c].seen
  OBVIOUS
<1>5. /\ o \in 1 .. Len(router) /\ o \in Nat /\ o # 0
      /\ r \in VlanRouter /\ v \in Vlan /\ vlanTable[v] = o /\ RouterServed(r, vlanFlow[v])
  BY <1>1, <1>2, <1>3, DeletionTarget DEF Vlans!RemoveRouter
<1>6. /\ vlanFlow \in [Vlan -> PlaceFlows] /\ router \in Seq(VlanRouter) /\ vlanTable \in [Vlan -> Nat]
      /\ vlanRequest \in [VlanClient -> Deletion] /\ connected \in BOOLEAN
  BY DEF VlansInv, VlansTyped
<1>7. Vlans!Unneeded(r)
  BY <1>1, <1>2 DEF Vlans!RemoveRouter, VlansInv, RequestsFit, Fits
<1>8. PICK f : f = [p \in Vlans!Places |->
                      IF vlanFlow[v][p] \notin seen THEN vlanFlow[v][p] ELSE Vlans!NoFlow]
  OBVIOUS
<1>9. f \in PlaceFlows
  <2>1. Vlans!NoFlow \in Cookie
    BY DEF Vlans!NoFlow, Cookie
  <2>2. vlanFlow[v] \in PlaceFlows
    BY <1>5, <1>6
  <2>3. QED
    BY <1>8, <2>1, <2>2 DEF PlaceFlows
<1>10. vlanFlow' = [vlanFlow EXCEPT ![v] = f]
  BY <1>1, <1>2, <1>3, <1>4, <1>6, <1>8 DEF Vlans!RemoveRouter, Vlans!FlowsWithout
<1>11. RouterServed(r, f)
  BY <1>7 DEF RouterServed, Vlans!Unneeded, Vlans!HasRoutes
<1>12. vlanRequest' = [vlanRequest EXCEPT ![c] = Vlans!Idle] /\ UNCHANGED <<router, connected>>
  BY DEF Vlans!RemoveRouter
<1>13. Vlans!Idle \in Deletion
  BY DEF Vlans!Idle, Deletion
<1>14. vlanRequest' \in [VlanClient -> Deletion] /\ \A a \in VlanClient : vlanRequest'[a] = Vlans!Idle
  BY <1>6, <1>12, <1>13
<1>15. CASE UNCHANGED vlanTable
  <2>1. router' = [router EXCEPT ![vlanTable[v]] = r]
    BY <1>2, <1>5, <1>6, <1>12
  <2>2. \A a \in VlanClient : Fits(vlanRequest'[a], router', vlanTable)
    BY <1>14 DEF Fits, Vlans!Idle
  <2>3. QED
    BY <2>1, <2>2, <1>3, <1>5, <1>9, <1>10, <1>11, <1>12, <1>14, <1>15, UpdateKeeps
<1>16. CASE vlanTable' = [vlanTable EXCEPT ![v] = 0]
  <2>1. VlansTyped'
    BY <1>6, <1>9, <1>10, <1>12, <1>14, <1>16 DEF VlansTyped
  <2>2. TableOwn'
    BY <1>6, <1>12, <1>14, <1>16 DEF VlansInv, TableOwn
  <2>3. RequestsFit'
    BY <1>14 DEF RequestsFit, Fits, Vlans!Idle
  <2>4. TableServed'
    BY <1>6, <1>10, <1>12, <1>16 DEF VlansInv, TableServed, RouterServed
  <2>5. QED
    BY <2>1, <2>2, <2>3, <2>4 DEF VlansInv
<1>17. vlanTable' = vlanTable \/ vlanTable' = [vlanTable EXCEPT ![v] = 0]
  BY <1>1, <1>2, <1>3 DEF Vlans!RemoveRouter
<1>18. QED
  BY <1>15, <1>16, <1>17

(* Packets that come and go leave addresses, routes and requests alone.      *)
LEMMA SameRowsKeep ==
    ASSUME VlansInv, NEW o \in 1 .. Len(router), NEW r \in VlanRouter,
           r.vlan = router[o].vlan, r.address = router[o].address, r.routes = router[o].routes,
           router' = [router EXCEPT ![o] = r],
           NEW v \in Vlan, NEW f \in PlaceFlows,
           vlanTable[v] # 0 => RouterServed(router[vlanTable[v]], f),
           vlanFlow' = [vlanFlow EXCEPT ![v] = f],
           UNCHANGED <<vlanTable, connected, vlanRequest>>
    PROVE  VlansInv'
<1>1. router \in Seq(VlanRouter) /\ vlanFlow \in [Vlan -> PlaceFlows]
  BY DEF VlansInv, VlansTyped
<1>2. router' \in Seq(VlanRouter) /\ Len(router') = Len(router)
  BY <1>1
<1>3. \A i \in 1 .. Len(router) :
          /\ router'[i].vlan = router[i].vlan
          /\ router'[i].address = router[i].address
          /\ router'[i].routes = router[i].routes
  BY <1>1
<1>4. VlansTyped'
  BY <1>1, <1>2 DEF VlansInv, VlansTyped
<1>5. TableOwn'
  BY <1>2, <1>3 DEF VlansInv, TableOwn
<1>6. RequestsFit'
  <2>1. ASSUME NEW c \in VlanClient, vlanRequest[c].stage # "idle"
        PROVE  /\ vlanRequest[c].obj \in 1 .. Len(router')
               /\ vlanTable[router'[vlanRequest[c].obj].vlan] = vlanRequest[c].obj
               /\ vlanRequest[c].job = "remove" => Vlans!Unneeded(router'[vlanRequest[c].obj])
               /\ vlanRequest[c].job = "address" /\ Vlans!HasRoutes(router'[vlanRequest[c].obj])
                    => vlanRequest[c].skip = router'[vlanRequest[c].obj].address
    <3>1. PICK i : i = vlanRequest[c].obj
      OBVIOUS
    <3>2. /\ i \in 1 .. Len(router) /\ vlanTable[router[i].vlan] = i
          /\ vlanRequest[c].job = "remove" => Vlans!Unneeded(router[i])
          /\ vlanRequest[c].job = "address" /\ Vlans!HasRoutes(router[i])
               => vlanRequest[c].skip = router[i].address
      BY <2>1, <3>1 DEF VlansInv, RequestsFit, Fits
    <3>3. QED
      BY <3>1, <3>2, <1>2, <1>3 DEF Vlans!Unneeded, Vlans!HasRoutes
  <2>2. QED
    BY <2>1 DEF RequestsFit, Fits, Vlans!Unneeded, Vlans!HasRoutes
<1>7. TableServed'
  <2>1. ASSUME NEW w \in Vlan, vlanTable[w] # 0
        PROVE  RouterServed(router'[vlanTable[w]], vlanFlow'[w])
    <3>1. RouterServed(router[vlanTable[w]], vlanFlow'[w])
      BY <2>1, <1>1 DEF VlansInv, TableServed
    <3>2. vlanTable[w] \in 1 .. Len(router)
      BY <2>1 DEF VlansInv, TableOwn
    <3>3. QED
      BY <3>1, <3>2, <1>3 DEF RouterServed
  <2>2. QED
    BY <2>1 DEF TableServed, RouterServed
<1>8. QED
  BY <1>4, <1>5, <1>6, <1>7 DEF VlansInv

(* A packet waits, an ARP reply completes routes, a packet waits no more.    *)
LEMMA PacketsKeep ==
    ASSUME Busy \subseteq Vlan, VlansInv, Vlans!Packets
    PROVE  VlansInv'
<1>1. /\ vlanFlow \in [Vlan -> PlaceFlows] /\ router \in Seq(VlanRouter)
      /\ \A i \in 1 .. Len(router) : router[i] \in VlanRouter
      /\ DOMAIN router = 1 .. Len(router)
  BY DEF VlansInv, VlansTyped
<1>2. \A v \in Vlan : vlanTable[v] # 0 =>
          vlanTable[v] \in 1 .. Len(router) /\ RouterServed(router[vlanTable[v]], vlanFlow[v])
  BY DEF VlansInv, TableOwn, TableServed
<1>3. \A v \in Vlan : vlanFlow[v] \in PlaceFlows /\ vlanFlow = [vlanFlow EXCEPT ![v] = vlanFlow[v]]
  BY <1>1
<1>4. ASSUME NEW o \in 1 .. Len(router), NEW left \in SUBSET {"near", "far"},
             router' = [router EXCEPT ![o].waiting = left],
             UNCHANGED <<vlanTable, connected, vlanFlow, vlanRequest>>
      PROVE  VlansInv'
  <2>1. PICK r : r = [router[o] EXCEPT !.waiting = left]
    OBVIOUS
  <2>2. /\ r \in VlanRouter /\ r.vlan = router[o].vlan /\ r.address = router[o].address
        /\ r.routes = router[o].routes
    BY <1>1, <2>1 DEF VlanRouter
  <2>3. router' = [router EXCEPT ![o] = r]
    BY <1>4, <2>1
  <2>4. PICK v \in Vlan : v = r.vlan
    BY <2>2 DEF VlanRouter
  <2>5. vlanFlow[v] \in PlaceFlows /\ vlanFlow' = [vlanFlow EXCEPT ![v] = vlanFlow[v]]
    BY <1>3, <1>4
  <2>6. vlanTable[v] # 0 => RouterServed(router[vlanTable[v]], vlanFlow[v])
    BY <1>2
  <2>7. QED
    BY <2>2, <2>3, <2>5, <2>6, <1>4, SameRowsKeep
<1>5. ASSUME NEW v \in Busy, NEW kind \in {"near", "far"}, Vlans!PacketIn(v, kind) PROVE VlansInv'
  <2>1. PICK o \in 1 .. Len(router) : o = vlanTable[v]
    BY <1>2, <1>5 DEF Vlans!PacketIn
  <2>2. PICK left \in SUBSET {"near", "far"} : left = router[o].waiting \cup {kind}
    BY <1>1 DEF VlanRouter
  <2>3. router' = [router EXCEPT ![o].waiting = left]
    BY <1>5, <2>1, <2>2 DEF Vlans!PacketIn
  <2>4. QED
    BY <2>3, <1>4, <1>5 DEF Vlans!PacketIn
<1>6. ASSUME NEW o \in DOMAIN router, NEW kind \in {"near", "far"}, Vlans!Timeout(o, kind)
      PROVE  VlansInv'
  <2>1. o \in 1 .. Len(router)
    BY <1>1
  <2>2. PICK left \in SUBSET {"near", "far"} : left = router[o].waiting \ {kind}
    BY <1>1, <2>1 DEF VlanRouter
  <2>3. router' = [router EXCEPT ![o].waiting = left]
    BY <1>6, <2>2 DEF Vlans!Timeout
  <2>4. QED
    BY <2>1, <2>3, <1>4, <1>6 DEF Vlans!Timeout
<1>7. ASSUME NEW v \in Busy, NEW kind \in {"near", "far"}, Vlans!ArpReply(v, kind) PROVE VlansInv'
  <2>1. PICK o \in 1 .. Len(router) : o = vlanTable[v]
    BY <1>2, <1>7 DEF Vlans!ArpReply
  <2>2. v \in Vlan /\ vlanTable[v] # 0 /\ router[o] \in VlanRouter /\ RouterServed(router[o], vlanFlow[v])
    BY <1>1, <1>2, <1>7, <2>1 DEF Vlans!ArpReply
  <2>3. PICK rows : rows = IF kind = "near" THEN {} ELSE Vlans!RowsUpdated(router[o])
    OBVIOUS
  <2>4. rows \in SUBSET Vlans!RoutePlaces /\ \A p \in rows : router[o].routes[p] # 0
    BY <2>3 DEF Vlans!RowsUpdated
  <2>5. PICK left \in SUBSET {"near", "far"} : left = router[o].waiting \ {kind}
    BY <2>2 DEF VlanRouter
  <2>6. PICK macs_ \in SUBSET Vlans!RoutePlaces : macs_ = router[o].macs \cup rows
    BY <2>2, <2>4 DEF VlanRouter
  <2>7. PICK r : r = [router[o] EXCEPT !.waiting = left, !.macs = macs_]
    OBVIOUS
  <2>8. /\ r \in VlanRouter /\ r.vlan = router[o].vlan /\ r.address = router[o].address
        /\ r.routes = router[o].routes
    BY <2>2, <2>7 DEF VlanRouter
  <2>9. router' = [router EXCEPT ![o] = r]
    BY <1>7, <2>1, <2>3, <2>5, <2>6, <2>7 DEF Vlans!ArpReply
  <2>10. PICK f : f = [p \in Vlans!Places |->
                         IF p \in rows THEN <<"route", router[o].routes[p]>> ELSE vlanFlow[v][p]]
    OBVIOUS
  <2>11. vlanFlow' = [vlanFlow EXCEPT ![v] = f]
    BY <1>1, <1>7, <2>1, <2>2, <2>3, <2>10 DEF Vlans!ArpReply
  <2>12. f \in PlaceFlows
    <3>1. vlanFlow[v] \in PlaceFlows /\ router[o].routes \in [Vlans!RoutePlaces -> Nat]
      BY <1>3, <2>2 DEF VlanRouter
    <3>2. QED
      BY <3>1, <2>4, <2>10 DEF PlaceFlows, Cookie
  <2>13. RouterServed(router[o], f)
    BY <2>2, <2>4, <2>10 DEF RouterServed, Vlans!Places, Vlans!RoutePlaces
  <2>14. UNCHANGED <<vlanTable, connected, vlanRequest>>
    BY <1>7 DEF Vlans!ArpReply
  <2>15. QED
    BY <2>1, <2>2, <2>8, <2>9, <2>11, <2>12, <2>13, <2>14, SameRowsKeep
<1>8. QED
  BY <1>5, <1>6, <1>7 DEF Vlans!Packets

(* A switch that joins has a router without VLAN, and no other.              *)
LEMMA RegisterKeeps ==
    ASSUME NoVlan \in Vlan, VlansInv, NEW kept \in BOOLEAN, Vlans!RegisterRouter(kept)
    PROVE  VlansInv'
<1>1. /\ vlanFlow \in [Vlan -> PlaceFlows] /\ router \in Seq(VlanRouter)
      /\ vlanRequest \in [VlanClient -> Deletion]
  BY DEF VlansInv, VlansTyped
<1>2. /\ \A v \in Vlan : vlanTable[v] = 0
      /\ \A c \in VlanClient : vlanRequest[c] = Vlans!Idle
  BY DEF Vlans!RegisterRouter, VlansInv, TableOwn
<1>3. PICK r : r = Vlans!NewRouter(NoVlan)
  OBVIOUS
<1>4. /\ r \in VlanRouter /\ r.vlan = NoVlan /\ r.address = 0
      /\ \A p \in Vlans!RoutePlaces : r.routes[p] = 0
  BY <1>3 DEF Vlans!NewRouter, VlanRouter, Vlans!RoutePlaces
<1>5. vlanFlow' \in [Vlan -> PlaceFlows]
  <2>1. Vlans!DropFlow \in Cookie /\ Vlans!NoFlow \in Cookie
    BY DEF Vlans!DropFlow, Vlans!NoFlow, Cookie
  <2>2. \A v \in Vlan : \A p \in Vlans!Places : vlanFlow[v][p] \in Cookie
    BY <1>1 DEF PlaceFlows
  <2>3. vlanFlow' = [v \in Vlan |-> [p \in Vlans!Places |->
                        IF v = NoVlan /\ p = "default" THEN Vlans!DropFlow
                        ELSE IF kept THEN vlanFlow[v][p] ELSE Vlans!NoFlow]]
    BY DEF Vlans!RegisterRouter
  <2>4. QED
    BY <2>1, <2>2, <2>3 DEF PlaceFlows
<1>6. PICK f : f = vlanFlow'[NoVlan]
  OBVIOUS
<1>7. f \in PlaceFlows /\ RouterServed(r, f)
  BY <1>4, <1>5, <1>6 DEF RouterServed
<1>8. /\ router' = Append(router, r)
      /\ vlanTable' = [vlanTable EXCEPT ![NoVlan] = Len(router) + 1]
      /\ connected' /\ UNCHANGED vlanRequest
  BY <1>3 DEF Vlans!RegisterRouter
<1>9. \A c \in VlanClient : Fits(vlanRequest'[c], router', vlanTable')
  BY <1>2, <1>8 DEF Fits, Vlans!Idle
<1>10. vlanTable[NoVlan] = 0 /\ vlanRequest' \in [VlanClient -> Deletion]
       /\ \A w \in Vlan : vlanTable[w] # 0 => vlanFlow'[w] = vlanFlow[w]
  BY <1>1, <1>2, <1>8
<1>11. QED
  BY <1>4, <1>5, <1>6, <1>7, <1>8, <1>9, <1>10, AppendKeeps

(* A switch that leaves takes its routers with it.                           *)
LEMMA UnregisterKeeps ==
    ASSUME VlansInv, Vlans!UnregisterRouter
    PROVE  VlansInv'
<1>1. /\ connected' = FALSE /\ vlanTable' = [v \in Vlan |-> 0] /\ router' = <<>>
      /\ vlanRequest' = [c \in VlanClient |-> Vlans!Idle] /\ UNCHANGED vlanFlow
  BY DEF Vlans!UnregisterRouter
<1>2. VlansTyped'
  <2>1. router' \in Seq(VlanRouter)
    BY <1>1
  <2>2. vlanRequest' \in [VlanClient -> Deletion]
    BY <1>1 DEF Vlans!Idle, Deletion
  <2>3. QED
    BY <1>1, <2>1, <2>2 DEF VlansInv, VlansTyped
<1>3. TableOwn' /\ RequestsFit' /\ TableServed'
  BY <1>1 DEF TableOwn, RequestsFit, Fits, TableServed, Vlans!Idle
<1>4. QED
  BY <1>2, <1>3 DEF VlansInv

(* Each step keeps the invariant, if one request is handled at a time.       *)
LEMMA VlansStep ==
    ASSUME NoVlan \in Vlan, Busy \subseteq Vlan, \A a, b \in VlanClient : a = b,
           VlansInv, [Vlans!Next]_vlanVars
    PROVE  VlansInv'
<1>1. ASSUME NEW c \in VlanClient, Vlans!Request(c) PROVE VlansInv'
  <2>1. ASSUME NEW v \in Busy, Vlans!SetAddress(c, v) \/ Vlans!SetNothing(c, v) PROVE VlansInv'
    BY <2>1, SetAddressKeeps, SetNothingKeeps
  <2>2. ASSUME NEW v \in Busy, NEW p \in Vlans!RoutePlaces, Vlans!SetRoute(c, v, p) PROVE VlansInv'
    BY <2>2, SetRouteKeeps
  <2>3. ASSUME NEW v \in Busy, NEW task \in {"address", "route"}, Vlans!AskDelete(c, v, task)
        PROVE  VlansInv'
    BY <2>3, DeletionAsks
  <2>4. CASE Vlans!StatsReply(c)
    BY <2>4, DeletionAsks
  <2>5. CASE Vlans!DeleteData(c)
    BY <2>5, DeleteDataKeeps
  <2>6. CASE Vlans!RemoveRouter(c)
    BY <2>6, RemoveRouterKeeps
  <2>7. QED
    BY <1>1, <2>1, <2>2, <2>3, <2>4, <2>5, <2>6 DEF Vlans!Request
<1>2. CASE UNCHANGED vlanVars
  BY <1>2
  DEF vlanVars, VlansInv, VlansTyped, TableOwn, RequestsFit, Fits, TableServed, RouterServed,
      Vlans!Unneeded, Vlans!HasRoutes
<1>3. QED
  BY <1>1, <1>2, RegisterKeeps, UnregisterKeeps, PacketsKeep DEF Vlans!Next

(* With one request at a time, the switch does what the routers in the table *)
(* list, however routers, switch and packets come and go in between.         *)
THEOREM ServedInTurn ==
    ASSUME \A a, b \in VlanClient : a = b
    PROVE  Spec => []Served
<1> DEFINE Inv == part = "vlans" => VlansInv
<1>1. Init => Inv
  BY VlansInit DEF Init
<1>2. Inv /\ [Next]_vars => Inv'
  BY Separate, VlansStep, NoVlanAssumption, BusyAssumption
<1>3. Inv => Served
  BY DEF Served, Vlans!Served, VlansInv, TableServed, RouterServed
<1>4. QED
  BY <1>1, <1>2, <1>3, PTL DEF Spec

-----------------------------------------------------------------------------
(* A manager that starts again.                                              *)
Number == FirstIp .. FirstIp + MaxLinks

\* Two routers.
Pair(ends) == \E a, b \in SliceRouter : a # b /\ ends = {a, b}

RestartTyped ==
    /\ stage \in {"down", "cleared", "loaded", "joining", "config", "up"}
    /\ stitched \subseteq SliceCustomer
    /\ undoable \subseteq Chameleon
    /\ switches \subseteq SliceRouter
    /\ DOMAIN addressed = SliceRouter
    /\ \A r \in SliceRouter : \A a \in addressed[r] :
          \/ a = Restart!Address(a.net, 1)
          \/ a = Restart!Address(a.net, 2) /\ a.net \in Number

\* Links are made one after the other: all but the last one are there.
SliceOrdered ==
    \A k \in DOMAIN slice :
        /\ k \in 0 .. MaxLinks - 1
        /\ slice[k] = [ends |-> slice[k].ends, up |-> slice[k].up]
        /\ Pair(slice[k].ends)
        /\ \A i \in 0 .. k - 1 : i \in DOMAIN slice /\ slice[i].up

\* The links that the manager knows.
Running == stage \notin {"down", "cleared"}

LinksKnown ==
    /\ DOMAIN links \subseteq DOMAIN slice
    /\ ~Running => links = <<>> /\ curip = FirstIp
    /\ Running => \A k \in DOMAIN slice : \A i \in 0 .. k - 1 : i \in DOMAIN links
    /\ \A k \in DOMAIN links : links[k] # 0 => slice[k].up

NumberedLinks == {k \in DOMAIN links : links[k] # 0}

\* Numbers are given once, in turn, and none in vain.
Numbered ==
    /\ \A k \in NumberedLinks : links[k] \in Number /\ links[k] \in usedip
    /\ \A i, j \in NumberedLinks : links[i] = links[j] => i = j
    /\ curip \in Nat /\ curip >= FirstIp
    /\ \A n \in FirstIp .. curip - 1 : n \in usedip
    /\ usedip \subseteq Number \cup {MaskNumber}
    /\ IsFiniteSet(usedip) /\ Cardinality(usedip) <= 1 + Cardinality(NumberedLinks)

\* What is still to be configured.
StillDue ==
    /\ stage \in {"loaded", "joining", "config"} => NumberedLinks = DOMAIN links \ configs.links
    /\ stage \in {"loaded", "joining"} => NumberedLinks = {}
    /\ stage = "up" => NumberedLinks = DOMAIN links \ (IF job.posts = <<>> THEN {job.link} ELSE {})
    /\ configs.links \subseteq DOMAIN links
    /\ \A k \in configs.links : slice[k].up
    /\ configs.stitches \subseteq stitched \ Chameleon
    /\ configs.stitches # {} => MaskNumber \in usedip /\ NumberedLinks = {}
    /\ stage \in {"down", "cleared", "up"} => configs = Restart!NoTodo
    /\ configs = [stitches |-> configs.stitches, links |-> configs.links]

Own(n, host) == {r \in SliceRouter : Restart!Address(n, host) \in addressed[r]}

\* The posts of a link that are still to be made.
Left(n, ends, ps) ==
    \E a, b \in SliceRouter :
        /\ a # b /\ ends = {a, b}
        /\ \/ ps = Restart!Posts(n, a, b) /\ Own(n, 1) = {} /\ Own(n, 2) = {}
           \/ ps = <<<<b, Restart!Address(n, 2)>>>> /\ Own(n, 1) = {a} /\ Own(n, 2) = {}

JobFits ==
    /\ stage \notin {"config", "up"} => job = Restart!Idle
    /\ job # Restart!Idle => job.link \in DOMAIN links
    /\ stage = "config" /\ job # Restart!Idle => job.posts # <<>>
    /\ job.posts # <<>> => job.link \in NumberedLinks /\ Left(links[job.link], slice[job.link].ends, job.posts)
    /\ stage = "up" /\ job # Restart!Idle => DOMAIN slice = DOMAIN links
    /\ job = Restart!Idle \/ Pair(job.ends)
    /\ job = [link |-> job.link, ends |-> job.ends, posts |-> job.posts]

LinkServed(n, ends) ==
    \E a, b \in SliceRouter :
        a # b /\ ends = {a, b} /\ Own(n, 1) = {a} /\ Own(n, 2) = {b}

Explained(r, n) ==
    \/ \E k \in NumberedLinks : links[k] = n
    \/ \E u \in stitched : RouterOf[u] = r /\ n = NetOf[u]
    \/ MaskNumber \in usedip /\ \E u \in stitched \ Chameleon : RouterOf[u] = r /\ n = MaskNumber

TableFits ==
    /\ stage = "joining" => \A r \in SliceRouter : addressed[r] = {}
    /\ stage \in {"config", "up"} =>
          /\ switches = SliceRouter
          /\ \A k \in NumberedLinks \ {job.link} : LinkServed(links[k], slice[k].ends)
          /\ \A r \in SliceRouter : \A a \in addressed[r] : Explained(r, a.net)

RestartInv == RestartTyped /\ SliceOrdered /\ LinksKnown /\ Numbered /\ StillDue /\ JobFits /\ TableFits

(* The hypothesis of the theorem, which nothing in the program ensures: the  *)
(* addresses of customers are in no network that the manager numbers, and    *)
(* the number that the undo of a stitch port releases is none of a link.     *)
NumbersApart ==
    /\ \A u \in SliceCustomer : NetOf[u] \notin Number
    /\ Chameleon # {} => FirstOctet \notin Number \cup {MaskNumber}

(* A nonempty set of naturals has a least member.                            *)
LEMMA LeastNatural ==
    ASSUME NEW T \in SUBSET Nat, T # {}
    PROVE  \E x \in T : \A y \in T : x <= y
<1>1. PICK x \in T : \A y \in T : ~ (<<y, x>> \in OpToRel(<, Nat))
  BY NatLessThanWellFounded, WFMin
<1>2. OpToRel(<, Nat) = {ss \in Nat \X Nat : ss[1] < ss[2]}
  BY Zenon DEF OpToRel
<1>3. ASSUME NEW y \in T PROVE x <= y
  <2>1. <<y, x>> \notin {ss \in Nat \X Nat : ss[1] < ss[2]}
    BY <1>1, <1>2
  <2>2. <<y, x>> \in Nat \X Nat
    OBVIOUS
  <2>3. ~ (y < x)
    BY <2>1, <2>2
  <2>4. QED
    BY <2>3
<1>4. QED
  BY <1>3

(* There is a number to give to a link that has none.                        *)
LEMMA NumberFree ==
    ASSUME SliceOrdered, LinksKnown, Numbered, NEW k \in DOMAIN links \ NumberedLinks
    PROVE  LET n == Restart!NextFree(usedip) IN
           n \in Number /\ n >= curip /\ n \notin usedip /\ \A i \in curip .. n - 1 : i \in usedip
<1>0. PICK size : size = Cardinality(usedip)
  OBVIOUS
<1> DEFINE IsNext(n) == n >= curip /\ n \notin usedip /\ \A i \in curip .. n - 1 : i \in usedip
<1>1. size \in Nat /\ size <= MaxLinks
  <2>1. NumberedLinks \subseteq (0 .. MaxLinks - 1) \ {k} /\ k \in 0 .. MaxLinks - 1
    BY DEF SliceOrdered, LinksKnown, NumberedLinks
  <2>2. IsFiniteSet(0 .. MaxLinks - 1) /\ Cardinality(0 .. MaxLinks - 1) = MaxLinks
    <3>1. MaxLinks - 1 \in Int /\ 0 <= MaxLinks - 1 /\ (MaxLinks - 1) - 0 + 1 = MaxLinks
      BY <2>1, RestartAssumption
    <3>2. QED
      BY <3>1, FS_Interval
  <2>3. /\ IsFiniteSet((0 .. MaxLinks - 1) \ {k})
        /\ Cardinality((0 .. MaxLinks - 1) \ {k}) = MaxLinks - 1
    BY <2>1, <2>2, FS_RemoveElement
  <2>4. Cardinality(NumberedLinks) <= MaxLinks - 1 /\ Cardinality(NumberedLinks) \in Nat
    <3>1. PICK others : others = (0 .. MaxLinks - 1) \ {k}
      OBVIOUS
    <3>2. NumberedLinks \in SUBSET others /\ IsFiniteSet(others) /\ Cardinality(others) = MaxLinks - 1
      BY <2>1, <2>3, <3>1
    <3>3. IsFiniteSet(NumberedLinks) /\ Cardinality(NumberedLinks) <= MaxLinks - 1
      BY <3>2, FS_Subset
    <3>4. QED
      BY <3>3, FS_CardinalityType
  <2>5. size \in Nat /\ size <= 1 + Cardinality(NumberedLinks)
    BY <1>0, FS_CardinalityType DEF Numbered
  <2>6. QED
    BY <2>4, <2>5, RestartAssumption
<1>2. PICK m \in FirstIp .. FirstIp + size : m \notin usedip
  <2>1. IsFiniteSet(FirstIp .. FirstIp + size) /\ Cardinality(FirstIp .. FirstIp + size) = size + 1
    <3>1. FirstIp \in Int /\ FirstIp + size \in Int /\ FirstIp <= FirstIp + size
          /\ (FirstIp + size) - FirstIp + 1 = size + 1
      BY <1>1, RestartAssumption
    <3>2. QED
      BY <3>1, FS_Interval
  <2>2. ASSUME FirstIp .. FirstIp + size \in SUBSET usedip PROVE FALSE
    <3>1. IsFiniteSet(usedip)
      BY DEF Numbered
    <3>2. Cardinality(FirstIp .. FirstIp + size) <= Cardinality(usedip)
      BY <2>2, <3>1, FS_Subset
    <3>3. QED
      BY <1>0, <1>1, <2>1, <3>2
  <2>3. QED
    BY <2>2
<1> DEFINE Free == {n \in Nat : n >= curip /\ n \notin usedip}
<1>3. m \in Free
  BY <1>1, <1>2, RestartAssumption DEF Numbered
<1>4. PICK x \in Free : \A y \in Free : x <= y
  <2>1. Free \in SUBSET Nat /\ Free # {}
    BY <1>3
  <2> HIDE DEF Free
  <2>2. QED
    BY <2>1, LeastNatural
<1>5. x \in Nat /\ x <= m /\ IsNext(x)
  BY <1>3, <1>4 DEF Numbered
<1>6. x \in FirstIp .. FirstIp + MaxLinks
  BY <1>1, <1>2, <1>5, RestartAssumption DEF Numbered
<1>7. PICK n : n = Restart!NextFree(usedip)
  OBVIOUS
<1>8. n \in FirstIp .. FirstIp + MaxLinks /\ IsNext(n)
  BY <1>5, <1>6, <1>7 DEF Restart!NextFree
<1>9. QED
  BY <1>7, <1>8 DEF Number

(* What giving a number does.                                                *)
LEMMA NumberGiven ==
    ASSUME SliceOrdered, LinksKnown, Numbered, NEW k \in DOMAIN links \ NumberedLinks,
           Restart!GetAvailableIP(k), NEW n, n = Restart!NextFree(usedip)
    PROVE  /\ n \in Number \ usedip
           /\ DOMAIN links' = DOMAIN links /\ links'[k] = n
           /\ \A i \in DOMAIN links \ {k} : links'[i] = links[i]
           /\ NumberedLinks' = NumberedLinks \cup {k} /\ usedip' = usedip \cup {n}
           /\ Numbered'
<1>1. /\ n \in Number /\ n >= curip /\ n \notin usedip
      /\ \A i \in curip .. n - 1 : i \in usedip
  BY NumberFree
<1>2. /\ links' = Restart!Put(links, k, n) /\ usedip' = usedip \cup {n} /\ curip' = n + 1
  BY DEF Restart!GetAvailableIP
<1>3. /\ DOMAIN links' = DOMAIN links /\ links'[k] = n
      /\ \A i \in DOMAIN links \ {k} : links'[i] = links[i]
  BY <1>2 DEF Restart!Put
<1>4. n \in Nat /\ n # 0
  BY <1>1, RestartAssumption DEF Number
<1>5. NumberedLinks' = NumberedLinks \cup {k}
  BY <1>3, <1>4 DEF NumberedLinks
<1>6. IsFiniteSet(usedip') /\ Cardinality(usedip') <= 1 + Cardinality(NumberedLinks')
  <2>1. NumberedLinks \subseteq 0 .. MaxLinks - 1
    BY DEF SliceOrdered, LinksKnown, NumberedLinks
  <2>2. IsFiniteSet(0 .. MaxLinks - 1)
    BY FS_Interval, RestartAssumption
  <2>3. IsFiniteSet(NumberedLinks)
    BY <2>1, <2>2, FS_Subset
  <2>4. Cardinality(NumberedLinks \cup {k}) = Cardinality(NumberedLinks) + 1 /\ Cardinality(NumberedLinks) \in Nat
    BY <2>3, FS_AddElement, FS_CardinalityType
  <2>5. /\ IsFiniteSet(usedip \cup {n}) /\ Cardinality(usedip \cup {n}) = Cardinality(usedip) + 1
        /\ Cardinality(usedip) \in Nat /\ Cardinality(usedip) <= 1 + Cardinality(NumberedLinks)
    BY <1>1, FS_AddElement, FS_CardinalityType DEF Numbered
  <2>6. QED
    BY <1>2, <1>5, <2>4, <2>5
<1>7. curip' \in Nat /\ curip' >= FirstIp /\ \A i \in FirstIp .. curip' - 1 : i \in usedip'
  <2>1. ASSUME NEW i \in FirstIp .. n PROVE i \in usedip \cup {n}
    BY <1>1, <1>4, <2>1, RestartAssumption DEF Numbered
  <2>2. n >= FirstIp
    BY <1>1, <1>4, RestartAssumption DEF Number
  <2>3. QED
    BY <1>2, <1>4, <2>1, <2>2, RestartAssumption
<1>8. /\ \A i \in NumberedLinks' : links'[i] \in Number /\ links'[i] \in usedip'
      /\ \A i, j \in NumberedLinks' : links'[i] = links'[j] => i = j
  BY <1>1, <1>2, <1>3, <1>5 DEF Numbered, NumberedLinks
<1>9. usedip' \subseteq Number \cup {MaskNumber}
  BY <1>1, <1>2 DEF Numbered
<1>10. QED
  BY <1>1, <1>2, <1>3, <1>5, <1>6, <1>7, <1>8, <1>9 DEF Numbered

(* The inductive invariant holds at first.                                   *)
LEMMA RestartInit == Restart!Init => RestartInv
<1> SUFFICES ASSUME Restart!Init PROVE RestartInv
  OBVIOUS
<1>1. /\ slice = <<>> /\ stitched = {} /\ stage = "down" /\ links = <<>> /\ curip = FirstIp
      /\ usedip = {} /\ undoable = {} /\ configs = Restart!NoTodo /\ job = Restart!Idle
      /\ addressed = [r \in SliceRouter |-> {}] /\ switches = {}
  BY DEF Restart!Init
<1>2. DOMAIN slice = {} /\ DOMAIN links = {} /\ NumberedLinks = {}
  BY <1>1 DEF NumberedLinks
<1>3. RestartTyped /\ SliceOrdered
  BY <1>1, <1>2 DEF RestartTyped, SliceOrdered
<1>4. LinksKnown /\ Numbered
  BY <1>1, <1>2, FS_EmptySet, RestartAssumption DEF LinksKnown, Running, Numbered
<1>5. StillDue /\ JobFits /\ TableFits
  BY <1>1, <1>2 DEF StillDue, JobFits, TableFits, Restart!Idle, Restart!NoTodo
<1>6. QED
  BY <1>3, <1>4, <1>5 DEF RestartInv

(* Starting, up to the configuration: nothing is in the routers then.        *)
LEMMA StopKeeps == RestartInv /\ Restart!Stop => RestartInv'
<1> SUFFICES ASSUME RestartInv, Restart!Stop PROVE RestartInv'
  OBVIOUS
<1>1. /\ stage' = "down" /\ links' = <<>> /\ curip' = FirstIp /\ usedip' = {} /\ undoable' = {}
      /\ configs' = Restart!NoTodo /\ job' = Restart!Idle
      /\ UNCHANGED <<slice, stitched, addressed, switches>>
  BY DEF Restart!Stop
<1>2. DOMAIN links' = {} /\ NumberedLinks' = {}
  BY <1>1 DEF NumberedLinks
<1>3. RestartTyped' /\ SliceOrdered'
  BY <1>1 DEF RestartInv, RestartTyped, SliceOrdered
<1>4. LinksKnown' /\ Numbered'
  BY <1>1, <1>2, FS_EmptySet, RestartAssumption DEF LinksKnown, Running, Numbered
<1>5. StillDue' /\ JobFits' /\ TableFits'
  BY <1>1, <1>2 DEF StillDue, JobFits, TableFits, Restart!Idle, Restart!NoTodo
<1>6. QED
  BY <1>3, <1>4, <1>5 DEF RestartInv

(* Clearing the slice.                                                        *)
LEMMA ClearKeeps == RestartInv /\ Restart!ClearSdx => RestartInv'
<1> SUFFICES ASSUME RestartInv, Restart!ClearSdx PROVE RestartInv'
  OBVIOUS
<1>1. /\ stage = "down" /\ stage' = "cleared" /\ stitched' = stitched \cap Chameleon
      /\ UNCHANGED <<slice, links, curip, usedip, undoable, configs, job, addressed, switches>>
  BY DEF Restart!ClearSdx, Restart!memory
<1>2. RestartTyped' /\ SliceOrdered' /\ Numbered'
  BY <1>1 DEF RestartInv, RestartTyped, SliceOrdered, Numbered, NumberedLinks
<1>3. links = <<>> /\ curip = FirstIp /\ job = Restart!Idle /\ configs = Restart!NoTodo
  BY <1>1 DEF RestartInv, LinksKnown, Running, JobFits, StillDue
<1>4. LinksKnown'
  BY <1>1, <1>3 DEF RestartInv, LinksKnown, Running
<1>5. JobFits' /\ TableFits'
  BY <1>1, <1>3 DEF JobFits, TableFits, Restart!Idle
<1>6. StillDue'
  BY <1>1, <1>3 DEF RestartInv, LinksKnown, StillDue, NumberedLinks, Restart!NoTodo
<1>7. QED
  BY <1>2, <1>4, <1>5, <1>6 DEF RestartInv

(* Reading the slice and its links.                                           *)
LEMMA LoadKeeps == RestartInv /\ Restart!LoadSdxNetwork => RestartInv'
<1> SUFFICES ASSUME RestartInv, Restart!LoadSdxNetwork PROVE RestartInv'
  OBVIOUS
<1>1. PICK found : found = {k \in DOMAIN slice : slice[k].up}
  OBVIOUS
<1>2. /\ stage \in {"down", "cleared"} /\ stage' = "loaded"
      /\ links' = [k \in found |-> 0]
      /\ usedip' = IF stitched \subseteq Chameleon THEN {} ELSE {MaskNumber}
      /\ configs' = [stitches |-> stitched \ Chameleon, links |-> found]
      /\ UNCHANGED <<slice, stitched, curip, undoable, job, addressed, switches>>
  BY <1>1 DEF Restart!LoadSdxNetwork
<1>3. DOMAIN links' = found /\ NumberedLinks' = {}
  BY <1>2 DEF NumberedLinks
<1>4. RestartTyped' /\ SliceOrdered'
  BY <1>2 DEF RestartInv, RestartTyped, SliceOrdered
<1>5. LinksKnown'
  BY <1>1, <1>2, <1>3 DEF RestartInv, SliceOrdered, LinksKnown, Running
<1>6. curip = FirstIp /\ job = Restart!Idle
  BY <1>2 DEF RestartInv, LinksKnown, Running, JobFits
<1>7. Numbered'
  <2>1. IsFiniteSet(usedip') /\ Cardinality(usedip') <= 1
    <3>1. usedip' = {} \/ usedip' = {MaskNumber}
      BY <1>2
    <3>2. IsFiniteSet({MaskNumber}) /\ Cardinality({MaskNumber}) = 1
      BY FS_Singleton
    <3>3. IsFiniteSet({}) /\ Cardinality({}) = 0
      BY FS_EmptySet
    <3>4. QED
      BY <3>1, <3>2, <3>3
  <2>2. Cardinality(NumberedLinks') = 0
    BY <1>3, FS_EmptySet
  <2>3. usedip' \subseteq Number \cup {MaskNumber} /\ curip' = FirstIp
    BY <1>2, <1>6
  <2>4. QED
    BY <1>3, <2>1, <2>2, <2>3, RestartAssumption DEF Numbered
<1>8. JobFits' /\ TableFits'
  BY <1>2, <1>6 DEF JobFits, TableFits, Restart!Idle
<1>9. StillDue'
  BY <1>1, <1>2, <1>3, <1>6 DEF StillDue
<1>10. QED
  BY <1>4, <1>5, <1>7, <1>8, <1>9 DEF RestartInv

(* The start of the controller.                                               *)
LEMMA PlexusKeeps == InSlice /\ RestartInv /\ Restart!RestartPlexus => RestartInv'
<1> SUFFICES ASSUME InSlice, RestartInv, Restart!RestartPlexus PROVE RestartInv'
  OBVIOUS
<1>1. /\ stage = "loaded" /\ stage' = "joining"
      /\ addressed' = [r \in SliceRouter |-> {}] /\ switches' = {}
      /\ UNCHANGED <<slice, stitched, links, curip, usedip, undoable, configs, job>>
  BY DEF Restart!RestartPlexus, Restart!memory
<1>2. RestartTyped' /\ SliceOrdered' /\ Numbered'
  BY <1>1 DEF RestartInv, RestartTyped, SliceOrdered, Numbered, NumberedLinks
<1>3. LinksKnown' /\ JobFits' /\ TableFits' /\ StillDue'
  BY <1>1 DEF RestartInv, LinksKnown, Running, JobFits, TableFits, StillDue, NumberedLinks, Restart!Idle
<1>4. QED
  BY <1>2, <1>3 DEF RestartInv

(* A router that joins.                                                       *)
LEMMA JoinKeeps ==
    ASSUME RestartInv, NEW r \in SliceRouter, Restart!Join(r)
    PROVE  RestartInv'
<1>1. /\ switches' = switches \cup {r}
      /\ UNCHANGED <<slice, stitched, stage, links, curip, usedip, undoable, configs, job, addressed>>
  BY DEF Restart!Join, Restart!memory
<1>2. RestartTyped' /\ SliceOrdered' /\ Numbered'
  BY <1>1 DEF RestartInv, RestartTyped, SliceOrdered, Numbered, NumberedLinks
<1>3. LinksKnown' /\ StillDue'
  BY <1>1 DEF RestartInv, LinksKnown, Running, StillDue, NumberedLinks
<1>4. JobFits' /\ TableFits'
  BY <1>1 DEF RestartInv, JobFits, Left, Own, TableFits, Explained, LinkServed, NumberedLinks, Pair
<1>5. QED
  BY <1>2, <1>3, <1>4 DEF RestartInv

(* The configuration starts with no address, and ends with nothing to do.    *)
LEMMA StagesKeep ==
    RestartInv /\ (Restart!WaitTillAllOvsConnected \/ Restart!Configured) => RestartInv'
<1> SUFFICES ASSUME RestartInv, Restart!WaitTillAllOvsConnected \/ Restart!Configured
             PROVE  RestartInv'
  OBVIOUS
<1>1. UNCHANGED <<slice, stitched, links, curip, usedip, undoable, configs, job, addressed, switches>>
  BY DEF Restart!WaitTillAllOvsConnected, Restart!Configured, Restart!memory
<1>2. \/ stage = "joining" /\ switches = SliceRouter /\ stage' = "config"
      \/ stage = "config" /\ configs = Restart!NoTodo /\ job = Restart!Idle /\ stage' = "up"
  BY DEF Restart!WaitTillAllOvsConnected, Restart!Configured
<1>3. RestartTyped' /\ SliceOrdered' /\ Numbered'
  BY <1>1, <1>2 DEF RestartInv, RestartTyped, SliceOrdered, Numbered, NumberedLinks
<1>4. LinksKnown'
  BY <1>1, <1>2 DEF RestartInv, LinksKnown, Running
<1>5. -1 \notin DOMAIN links
  BY DEF RestartInv, SliceOrdered, LinksKnown
<1>6. StillDue'
  BY <1>1, <1>2, <1>5 DEF RestartInv, StillDue, NumberedLinks, Restart!NoTodo, Restart!Idle
<1>7. JobFits'
  BY <1>1, <1>2 DEF RestartInv, JobFits, Left, Own, NumberedLinks, Pair
<1>8. TableFits'
  <2>1. CASE stage = "joining"
    <3>1. NumberedLinks = {}
      BY <2>1 DEF RestartInv, StillDue
    <3>2. QED
      BY <1>1, <1>2, <2>1, <3>1 DEF RestartInv, TableFits, NumberedLinks
  <2>2. CASE stage = "config"
    BY <1>1, <1>2, <2>2 DEF RestartInv, TableFits, Explained, LinkServed, Own, NumberedLinks
  <2>3. QED
    BY <1>2, <2>1, <2>2
<1>9. QED
  BY <1>3, <1>4, <1>6, <1>7, <1>8 DEF RestartInv

(* What a post does to the address table.                                    *)
LEMMA PostedAddress ==
    ASSUME RestartTyped, NEW q \in SliceRouter, NEW m, NEW h \in {1, 2}, h = 1 \/ m \in Number,
           Restart!Posted(q, Restart!Address(m, h))
    PROVE  /\ DOMAIN addressed' = SliceRouter
           /\ \A r \in SliceRouter : \A a \in addressed'[r] :
                 a \in addressed[r] \/ (r = q /\ a = Restart!Address(m, h))
           /\ \A r \in SliceRouter : \A a \in addressed'[r] :
                 \/ a = Restart!Address(a.net, 1)
                 \/ a = Restart!Address(a.net, 2) /\ a.net \in Number
           /\ \A n, f : n # m \/ f # h => Own(n, f)' = Own(n, f)
           /\ q \in switches /\ (\A a \in addressed[q] : a.net # m)
                 => Own(m, h)' = Own(m, h) \cup {q}
<1> DEFINE new == Restart!Address(m, h)
<1>1. new = [net |-> m, host |-> h] /\ new.net = m
  BY DEF Restart!Address
<1>2. \/ /\ q \in switches /\ \A a \in addressed[q] : a.net # m
         /\ addressed' = [addressed EXCEPT ![q] = @ \cup {new}]
      \/ /\ ~(q \in switches /\ \A a \in addressed[q] : a.net # m)
         /\ addressed' = addressed
  BY <1>1 DEF Restart!Posted
<1>3. DOMAIN addressed = SliceRouter
  BY DEF RestartTyped
<1>4. /\ DOMAIN addressed' = SliceRouter
      /\ \A r \in SliceRouter : addressed[r] \subseteq addressed'[r]
      /\ \A r \in SliceRouter : \A a \in addressed'[r] : a \in addressed[r] \/ (r = q /\ a = new)
  BY <1>2, <1>3
<1>5. ASSUME NEW r \in SliceRouter, NEW a \in addressed'[r]
      PROVE  \/ a = Restart!Address(a.net, 1)
             \/ a = Restart!Address(a.net, 2) /\ a.net \in Number
  <2>1. CASE a \in addressed[r]
    BY <2>1 DEF RestartTyped
  <2>2. CASE a = new
    BY <1>1, <2>2 DEF Restart!Address
  <2>3. QED
    BY <1>4, <2>1, <2>2
<1>6. ASSUME NEW n, NEW f, n # m \/ f # h PROVE Own(n, f)' = Own(n, f)
  <2>1. Restart!Address(n, f) # new
    BY <1>1, <1>6 DEF Restart!Address
  <2>2. \A r \in SliceRouter :
           Restart!Address(n, f) \in addressed'[r] <=> Restart!Address(n, f) \in addressed[r]
    BY <1>4, <2>1
  <2>3. QED
    BY <2>2 DEF Own
<1>7. ASSUME q \in switches, \A a \in addressed[q] : a.net # m
      PROVE  Own(m, h)' = Own(m, h) \cup {q}
  <2>1. addressed' = [addressed EXCEPT ![q] = @ \cup {new}]
    BY <1>2, <1>7
  <2>2. \A r \in SliceRouter : new \in addressed'[r] <=> new \in addressed[r] \/ r = q
    BY <1>3, <2>1
  <2>3. QED
    BY <2>2 DEF Own
<1>8. QED
  BY <1>4, <1>5, <1>6, <1>7

(* A number that is not in use is in no router.                              *)
LEMMA Unowned ==
    ASSUME NumbersApart, RestartInv, stage \in {"config", "up"}, NEW n \in Number \ usedip, NEW h
    PROVE  Own(n, h) = {}
<1> SUFFICES ASSUME NEW r \in SliceRouter, Restart!Address(n, h) \in addressed[r] PROVE FALSE
  BY DEF Own
<1>1. Restart!Address(n, h).net = n
  BY DEF Restart!Address
<1>2. Explained(r, n)
  BY <1>1 DEF RestartInv, TableFits
<1>3. QED
  BY <1>2 DEF NumbersApart, RestartInv, Numbered, Explained, RestartTyped, Number

(* Posting an address of a stitch disturbs no link.                          *)
LEMMA OthersServed ==
    ASSUME RestartInv, NEW m, \A n, h : n # m => Own(n, h)' = Own(n, h),
           \A k \in NumberedLinks : links[k] # m,
           UNCHANGED <<links, slice, job>>
    PROVE  /\ \A k \in NumberedLinks : LinkServed(links[k], slice[k].ends)
                                         => LinkServed(links[k], slice[k].ends)'
           /\ \A k \in NumberedLinks : Left(links[k], slice[k].ends, job.posts)
                                         => Left(links[k], slice[k].ends, job.posts)'
<1>1. ASSUME NEW k \in NumberedLinks, LinkServed(links[k], slice[k].ends)
      PROVE  LinkServed(links[k], slice[k].ends)'
  <2>1. Own(links[k], 1)' = Own(links[k], 1) /\ Own(links[k], 2)' = Own(links[k], 2)
    <3>1. PICK n : n = links[k]
      OBVIOUS
    <3>2. Own(n, 1)' = Own(n, 1) /\ Own(n, 2)' = Own(n, 2) /\ links'[k] = n
      BY <3>1
    <3>3. QED
      BY <3>1, <3>2 DEF Own
  <2>2. QED
    BY <1>1, <2>1 DEF LinkServed
<1>2. ASSUME NEW k \in NumberedLinks, Left(links[k], slice[k].ends, job.posts)
      PROVE  Left(links[k], slice[k].ends, job.posts)'
  <2>1. Own(links[k], 1)' = Own(links[k], 1) /\ Own(links[k], 2)' = Own(links[k], 2)
    <3>1. PICK n : n = links[k]
      OBVIOUS
    <3>2. Own(n, 1)' = Own(n, 1) /\ Own(n, 2)' = Own(n, 2) /\ links'[k] = n
      BY <3>1
    <3>3. QED
      BY <3>1, <3>2 DEF Own
  <2>2. QED
    BY <1>2, <2>1 DEF Left
<1>3. QED
  BY <1>1, <1>2

(* The address of a stitch is posted: one found after a start, or a new one. *)
LEMMA ConfigStitchKeeps ==
    ASSUME RestartInv, NEW u \in SliceCustomer, Restart!ConfigStitch(u)
    PROVE  RestartInv'
<1>1. /\ stage = "config" /\ u \in configs.stitches
      /\ configs' = [configs EXCEPT !.stitches = @ \ {u}]
      /\ Restart!Posted(RouterOf[u], Restart!Address(MaskNumber, 1))
      /\ UNCHANGED <<slice, stitched, stage, links, curip, usedip, undoable, job, switches>>
  BY DEF Restart!ConfigStitch
<1>2. NumberedLinks = {} /\ MaskNumber \in usedip /\ u \in stitched \ Chameleon
  BY <1>1 DEF RestartInv, StillDue
<1>3. RouterOf[u] \in SliceRouter /\ RestartTyped
  BY RestartAssumption DEF RestartInv
<1>4. /\ DOMAIN addressed' = SliceRouter
      /\ \A r \in SliceRouter : \A a \in addressed'[r] :
            a \in addressed[r] \/ (r = RouterOf[u] /\ a = Restart!Address(MaskNumber, 1))
      /\ \A r \in SliceRouter : \A a \in addressed'[r] :
            \/ a = Restart!Address(a.net, 1)
            \/ a = Restart!Address(a.net, 2) /\ a.net \in Number
  BY <1>1, <1>3, PostedAddress
<1>5. RestartTyped' /\ SliceOrdered' /\ Numbered' /\ LinksKnown'
  BY <1>1, <1>4
  DEF RestartInv, RestartTyped, SliceOrdered, Numbered, LinksKnown, Running, NumberedLinks, Number
<1>6. configs' = [stitches |-> configs.stitches \ {u}, links |-> configs.links]
  BY <1>1 DEF RestartInv, StillDue
<1>7. StillDue'
  BY <1>1, <1>2, <1>6 DEF RestartInv, StillDue, NumberedLinks
<1>8. JobFits'
  BY <1>1, <1>2 DEF RestartInv, JobFits, NumberedLinks
<1>9. TableFits'
  <2>1. ASSUME NEW r \in SliceRouter, NEW a \in addressed'[r] PROVE Explained(r, a.net)'
    <3>1. CASE a \in addressed[r]
      BY <1>1, <3>1 DEF RestartInv, TableFits, Explained, NumberedLinks
    <3>2. CASE r = RouterOf[u] /\ a = Restart!Address(MaskNumber, 1)
      BY <1>1, <1>2, <3>2 DEF RestartInv, RestartTyped, Explained, Restart!Address
    <3>3. QED
      BY <1>4, <3>1, <3>2
  <2>2. NumberedLinks' = {} /\ switches' = SliceRouter /\ stage' = "config"
    BY <1>1, <1>2 DEF RestartInv, TableFits, NumberedLinks
  <2>3. QED
    BY <2>1, <2>2 DEF TableFits
<1>10. QED
  BY <1>5, <1>7, <1>8, <1>9 DEF RestartInv

(* A customer who is stitched, on either testbed.                             *)
LEMMA StitchKeeps ==
    ASSUME NumbersApart, RestartInv, NEW u \in SliceCustomer,
           Restart!StitchRequest(u) \/ Restart!StitchChameleon(u)
    PROVE  RestartInv'
<1>1. /\ stage = "up" /\ job = Restart!Idle /\ stitched' = stitched \cup {u}
      /\ undoable' = undoable \/ (u \in Chameleon /\ undoable' = undoable \cup {u})
      /\ Restart!Posted(RouterOf[u], Restart!Address(NetOf[u], 1))
      /\ UNCHANGED <<slice, stage, links, curip, usedip, configs, job, switches>>
  BY DEF Restart!StitchRequest, Restart!StitchChameleon, Restart!memory
<1>2. NetOf[u] \notin Number
  BY DEF NumbersApart
<1>3. RouterOf[u] \in SliceRouter /\ RestartTyped
  BY RestartAssumption DEF RestartInv
<1>4. /\ DOMAIN addressed' = SliceRouter
      /\ \A r \in SliceRouter : \A a \in addressed'[r] :
            a \in addressed[r] \/ (r = RouterOf[u] /\ a = Restart!Address(NetOf[u], 1))
      /\ \A r \in SliceRouter : \A a \in addressed'[r] :
            \/ a = Restart!Address(a.net, 1)
            \/ a = Restart!Address(a.net, 2) /\ a.net \in Number
      /\ \A n, h : n # NetOf[u] => Own(n, h)' = Own(n, h)
  BY <1>1, <1>3, PostedAddress
<1>5. RestartTyped' /\ SliceOrdered' /\ Numbered' /\ LinksKnown'
  BY <1>1, <1>4
  DEF RestartInv, RestartTyped, SliceOrdered, Numbered, LinksKnown, Running, NumberedLinks, Number
<1>6. StillDue'
  BY <1>1 DEF RestartInv, StillDue, NumberedLinks
<1>7. JobFits'
  BY <1>1 DEF RestartInv, JobFits, NumberedLinks, Restart!Idle
<1>8. \A k \in NumberedLinks : LinkServed(links[k], slice[k].ends) => LinkServed(links[k], slice[k].ends)'
  <2>1. \A k \in NumberedLinks : links[k] # NetOf[u]
    BY <1>2 DEF RestartInv, Numbered
  <2>2. UNCHANGED <<links, slice, job>>
    BY <1>1
  <2>3. PICK m : m = NetOf[u]
    OBVIOUS
  <2>4. \A n, h : n # m => Own(n, h)' = Own(n, h)
    BY <1>4, <2>3
  <2>5. QED
    BY <2>1, <2>2, <2>3, <2>4, OthersServed
<1>9. TableFits'
  <2>1. ASSUME NEW r \in SliceRouter, NEW a \in addressed'[r] PROVE Explained(r, a.net)'
    <3>1. CASE a \in addressed[r]
      BY <1>1, <3>1 DEF RestartInv, TableFits, Explained, NumberedLinks
    <3>2. CASE r = RouterOf[u] /\ a = Restart!Address(NetOf[u], 1)
      BY <1>1, <3>2 DEF Explained, Restart!Address
    <3>3. QED
      BY <1>4, <3>1, <3>2
  <2>2. NumberedLinks' = NumberedLinks /\ switches' = SliceRouter /\ stage' = "up" /\ job' = job
    BY <1>1 DEF RestartInv, TableFits, NumberedLinks
  <2>3. \A k \in NumberedLinks \ {job.link} : LinkServed(links[k], slice[k].ends)
    BY <1>1 DEF RestartInv, TableFits
  <2>4. QED
    BY <1>8, <2>1, <2>2, <2>3 DEF TableFits
<1>10. QED
  BY <1>5, <1>6, <1>7, <1>9 DEF RestartInv

(* A stitch is undone: its address goes, and the number that is released is  *)
(* in use by nothing.                                                        *)
LEMMA UndoKeeps ==
    ASSUME NumbersApart, RestartInv, NEW u \in SliceCustomer, Restart!UndoStitch(u)
    PROVE  RestartInv'
<1>1. /\ stage = "up" /\ job = Restart!Idle /\ u \in Chameleon
      /\ stitched' = stitched \ {u} /\ undoable' = undoable \ {u}
      /\ addressed' = [addressed EXCEPT ![RouterOf[u]] = @ \ {Restart!Address(NetOf[u], 1)}]
      /\ UNCHANGED <<slice, stage, links, configs, job, switches>>
  BY DEF RestartInv, RestartTyped, Restart!UndoStitch, Restart!RemoveExternalLink
<1>2. usedip' = usedip /\ curip' = curip
  <2>1. FirstOctet \notin usedip
    BY <1>1 DEF NumbersApart, RestartInv, Numbered
  <2>2. QED
    BY <2>1 DEF Restart!UndoStitch, Restart!ReleaseIP
<1>3. NetOf[u] \notin Number /\ RouterOf[u] \in SliceRouter
  BY RestartAssumption DEF NumbersApart
<1>4. /\ DOMAIN addressed' = SliceRouter
      /\ \A r \in SliceRouter : addressed'[r] \subseteq addressed[r]
      /\ \A r \in SliceRouter : \A a \in addressed[r] :
            a \in addressed'[r] \/ a = Restart!Address(NetOf[u], 1)
      /\ Restart!Address(NetOf[u], 1) \notin addressed'[RouterOf[u]]
  BY <1>1, <1>3 DEF RestartInv, RestartTyped
<1>5. RestartTyped' /\ SliceOrdered' /\ Numbered' /\ LinksKnown'
  BY <1>1, <1>2, <1>4
  DEF RestartInv, RestartTyped, SliceOrdered, Numbered, LinksKnown, Running, NumberedLinks, Number
<1>6. StillDue'
  BY <1>1, <1>2 DEF RestartInv, StillDue, NumberedLinks, Restart!NoTodo
<1>7. JobFits'
  BY <1>1 DEF RestartInv, JobFits, NumberedLinks, Restart!Idle
<1>8. \A n, h : n # NetOf[u] => Own(n, h)' = Own(n, h)
  BY <1>4 DEF Own, Restart!Address
<1>9. \A k \in NumberedLinks : LinkServed(links[k], slice[k].ends) => LinkServed(links[k], slice[k].ends)'
  <2>1. \A k \in NumberedLinks : links[k] # NetOf[u]
    BY <1>3 DEF RestartInv, Numbered
  <2>2. UNCHANGED <<links, slice, job>>
    BY <1>1
  <2>3. PICK m : m = NetOf[u]
    OBVIOUS
  <2>4. \A n, h : n # m => Own(n, h)' = Own(n, h)
    BY <1>8, <2>3
  <2>5. QED
    BY <2>1, <2>2, <2>3, <2>4, OthersServed
<1>10. TableFits'
  <2>1. ASSUME NEW r \in SliceRouter, NEW a \in addressed'[r] PROVE Explained(r, a.net)'
    <3>1. a \in addressed[r] /\ Explained(r, a.net)
      BY <1>1, <1>4 DEF RestartInv, TableFits
    <3>2. r = RouterOf[u] => a.net # NetOf[u]
      BY <1>3, <1>4, <3>1 DEF RestartInv, RestartTyped
    <3>3. QED
      BY <1>1, <1>2, <3>1, <3>2 DEF Explained, NumberedLinks
  <2>2. NumberedLinks' = NumberedLinks /\ switches' = SliceRouter /\ stage' = "up" /\ job' = job
    BY <1>1 DEF RestartInv, TableFits, NumberedLinks
  <2>3. \A k \in NumberedLinks \ {job.link} : LinkServed(links[k], slice[k].ends)
    BY <1>1 DEF RestartInv, TableFits
  <2>4. QED
    BY <1>9, <2>1, <2>2, <2>3 DEF TableFits
<1>11. QED
  BY <1>5, <1>6, <1>7, <1>10 DEF RestartInv

(* A link that is there gets a number, and the posts for it are prepared.    *)
LEMMA NumberAndPosts ==
    ASSUME NumbersApart, RestartInv, stage \in {"config", "up"},
           NEW k \in DOMAIN links \ NumberedLinks, slice[k].up, job.link \notin NumberedLinks,
           NEW a \in SliceRouter, NEW b \in SliceRouter, a # b, {a, b} = slice[k].ends,
           Restart!GetAvailableIP(k),
           job' = [link |-> k, ends |-> {a, b},
                   posts |-> Restart!Posts(Restart!NextFree(usedip), a, b)],
           UNCHANGED <<slice, stitched, stage, undoable, addressed, switches>>
    PROVE  /\ RestartTyped' /\ SliceOrdered' /\ LinksKnown' /\ Numbered' /\ TableFits'
           /\ DOMAIN links' = DOMAIN links /\ NumberedLinks' = NumberedLinks \cup {k}
           /\ job'.posts # <<>> /\ Left(links[k], slice[k].ends, job.posts)'
<1>1. PICK n : n = Restart!NextFree(usedip)
  OBVIOUS
<1>2. /\ n \in Number \ usedip
      /\ DOMAIN links' = DOMAIN links /\ links'[k] = n
      /\ \A i \in DOMAIN links \ {k} : links'[i] = links[i]
      /\ NumberedLinks' = NumberedLinks \cup {k} /\ usedip' = usedip \cup {n}
      /\ Numbered'
  BY <1>1, NumberGiven DEF RestartInv
<1>3. RestartTyped' /\ SliceOrdered'
  BY DEF RestartInv, RestartTyped, SliceOrdered, Number
<1>4. LinksKnown'
  BY <1>2 DEF RestartInv, LinksKnown, Running
<1>5. job'.link = k /\ job'.posts = Restart!Posts(n, a, b) /\ job'.posts # <<>>
  BY <1>1 DEF Restart!Posts
<1>6. Own(n, 1) = {} /\ Own(n, 2) = {}
  BY <1>2, Unowned
<1>7. Left(links[k], slice[k].ends, job.posts)'
  <2>1. Own(n, 1)' = {} /\ Own(n, 2)' = {}
    BY <1>6 DEF Own
  <2>2. links'[k] = n /\ slice'[k].ends = {a, b}
    BY <1>2
  <2>3. Own(links[k], 1)' = {} /\ Own(links[k], 2)' = {}
    BY <2>1, <2>2 DEF Own
  <2>4. QED
    BY <1>5, <2>2, <2>3 DEF Left
<1>8. TableFits'
  <2>1. ASSUME NEW i \in NumberedLinks, i # k PROVE LinkServed(links[i], slice[i].ends)'
    <3>1. LinkServed(links[i], slice[i].ends) /\ links'[i] = links[i]
      BY <1>2, <2>1 DEF RestartInv, TableFits, NumberedLinks
    <3>2. QED
      BY <3>1 DEF LinkServed, Own
  <2>2. ASSUME NEW r \in SliceRouter, NEW x \in addressed[r] PROVE Explained(r, x.net)'
    <3>1. Explained(r, x.net)
      BY DEF RestartInv, TableFits
    <3>2. QED
      BY <1>2, <3>1 DEF Explained, NumberedLinks
  <2>3. QED
    BY <1>2, <1>5, <2>1, <2>2 DEF RestartInv, TableFits
<1>9. QED
  BY <1>2, <1>3, <1>4, <1>5, <1>7, <1>8

(* Configuring a link.                                                        *)
LEMMA ConfigLinkKeeps ==
    ASSUME NumbersApart, RestartInv, NEW k \in DOMAIN slice, NEW a \in SliceRouter, NEW b \in SliceRouter,
           Restart!ConfigLink(k, a, b)
    PROVE  RestartInv'
<1>1. /\ stage = "config" /\ configs.stitches = {} /\ job = Restart!Idle
      /\ k \in configs.links /\ a # b /\ {a, b} = slice[k].ends
      /\ configs' = [configs EXCEPT !.links = @ \ {k}]
      /\ Restart!GetAvailableIP(k)
      /\ job' = [link |-> k, ends |-> {a, b},
                 posts |-> Restart!Posts(Restart!NextFree(usedip), a, b)]
      /\ UNCHANGED <<slice, stitched, stage, undoable, addressed, switches>>
  BY DEF Restart!ConfigLink
<1>2. k \in DOMAIN links \ NumberedLinks /\ slice[k].up
  BY <1>1 DEF RestartInv, StillDue
<1>3. job.link \notin NumberedLinks
  BY <1>1 DEF RestartInv, SliceOrdered, LinksKnown, NumberedLinks, Restart!Idle
<1>4. /\ RestartTyped' /\ SliceOrdered' /\ LinksKnown' /\ Numbered' /\ TableFits'
      /\ DOMAIN links' = DOMAIN links /\ NumberedLinks' = NumberedLinks \cup {k}
      /\ job'.posts # <<>> /\ Left(links[k], slice[k].ends, job.posts)'
  BY <1>1, <1>2, <1>3, NumberAndPosts
<1>5. configs' = [stitches |-> {}, links |-> configs.links \ {k}]
  BY <1>1 DEF RestartInv, StillDue
<1>6. StillDue'
  <2>1. /\ NumberedLinks = DOMAIN links \ configs.links /\ configs.links \subseteq DOMAIN links
        /\ \A i \in configs.links : slice[i].up
    BY <1>1 DEF RestartInv, StillDue
  <2>2. configs'.stitches = {} /\ configs'.links = configs.links \ {k} /\ stage' = "config"
    BY <1>1, <1>5
  <2>3. NumberedLinks' = DOMAIN links' \ configs'.links
    BY <1>1, <1>4, <2>1, <2>2
  <2>4. configs'.links \subseteq DOMAIN links' /\ \A i \in configs'.links : slice'[i].up
    BY <1>1, <1>4, <2>1, <2>2
  <2>5. QED
    BY <1>5, <2>2, <2>3, <2>4 DEF StillDue
<1>7. JobFits'
  <2>1. job'.link = k /\ job'.ends = {a, b} /\ Pair(job'.ends)
    BY <1>1 DEF Pair
  <2>2. QED
    BY <1>1, <1>2, <1>4, <2>1 DEF JobFits, Pair
<1>8. QED
  BY <1>4, <1>6, <1>7 DEF RestartInv

(* Ports that appear at a router.                                             *)
LEMMA PortsComeKeeps ==
    ASSUME NumbersApart, RestartInv, NEW a \in SliceRouter, NEW b \in SliceRouter, Restart!PortsCome(a, b)
    PROVE  RestartInv'
<1>1. PICK k : k = job.link
  OBVIOUS
<1>2. /\ stage = "up" /\ job # Restart!Idle /\ job.posts = <<>> /\ a # b /\ {a, b} = job.ends
      /\ Restart!Fresh(a) # {} /\ Restart!Fresh(b) # {}
      /\ Restart!GetAvailableIP(k)
      /\ job' = [job EXCEPT !.posts = Restart!Posts(Restart!NextFree(usedip), a, b)]
      /\ UNCHANGED <<slice, stitched, stage, undoable, configs, addressed, switches>>
  BY <1>1 DEF Restart!PortsCome
<1>3. /\ k \in DOMAIN links /\ NumberedLinks = DOMAIN links \ {k} /\ DOMAIN slice = DOMAIN links
  BY <1>1, <1>2 DEF RestartInv, StillDue, JobFits
<1>4. slice[k].up /\ a \in slice[k].ends /\ b \in slice[k].ends
  BY <1>2, <1>3 DEF Restart!Fresh, NumberedLinks
<1>5. slice[k].ends = {a, b}
  BY <1>2, <1>3, <1>4 DEF RestartInv, SliceOrdered, Pair
<1>6. job' = [link |-> k, ends |-> {a, b}, posts |-> Restart!Posts(Restart!NextFree(usedip), a, b)]
  BY <1>1, <1>2 DEF RestartInv, JobFits
<1>7. job.link \notin NumberedLinks
  BY <1>1, <1>3
<1>8. /\ RestartTyped' /\ SliceOrdered' /\ LinksKnown' /\ Numbered' /\ TableFits'
      /\ DOMAIN links' = DOMAIN links /\ NumberedLinks' = NumberedLinks \cup {k}
      /\ job'.posts # <<>> /\ Left(links[k], slice[k].ends, job.posts)'
  BY <1>2, <1>3, <1>4, <1>5, <1>6, <1>7, NumberAndPosts
<1>9. StillDue'
  BY <1>2, <1>3, <1>8 DEF RestartInv, StillDue, Restart!NoTodo
<1>10. JobFits'
  <2>1. job'.link = k /\ job'.ends = {a, b} /\ Pair(job'.ends)
    BY <1>2, <1>6 DEF Pair
  <2>2. QED
    BY <1>2, <1>3, <1>6, <1>8, <2>1 DEF JobFits, Pair
<1>11. QED
  BY <1>8, <1>9, <1>10 DEF RestartInv

(* One of the two posts of a link: the router has no address of the number.  *)
LEMMA PostsKeep ==
    ASSUME RestartInv, Restart!NewInternalLink
    PROVE  RestartInv'
<1>1. PICK k, n : k = job.link /\ n = links[k]
  OBVIOUS
<1>2. /\ job.posts # <<>>
      /\ Restart!Posted(job.posts[1][1], job.posts[1][2])
      /\ job' = IF Len(job.posts) = 1 THEN Restart!Idle ELSE [job EXCEPT !.posts = Tail(@)]
      /\ UNCHANGED <<slice, stitched, stage, links, curip, usedip, undoable, configs, switches>>
  BY DEF Restart!NewInternalLink
<1>3. /\ k \in NumberedLinks /\ Left(n, slice[k].ends, job.posts) /\ n \in Number
      /\ stage \in {"config", "up"} /\ switches = SliceRouter
  <2>1. job # Restart!Idle
    BY <1>2 DEF Restart!Idle
  <2>2. QED
    BY <1>1, <1>2, <2>1 DEF RestartInv, JobFits, TableFits, Numbered
<1>4. PICK a \in SliceRouter, b \in SliceRouter :
        /\ a # b /\ slice[k].ends = {a, b}
        /\ \/ job.posts = Restart!Posts(n, a, b) /\ Own(n, 1) = {} /\ Own(n, 2) = {}
           \/ job.posts = <<<<b, Restart!Address(n, 2)>>>> /\ Own(n, 1) = {a} /\ Own(n, 2) = {}
  BY <1>3 DEF Left
<1>5. PICK q \in SliceRouter, h \in {1, 2} :
        /\ job.posts[1] = <<q, Restart!Address(n, h)>>
        /\ q \notin Own(n, 1) /\ q \notin Own(n, 2)
        /\ h = 1 => q = a /\ job.posts = Restart!Posts(n, a, b) /\ Own(n, 1) = {} /\ Own(n, 2) = {}
        /\ h = 2 => q = b /\ job.posts = <<<<b, Restart!Address(n, 2)>>>> /\ Own(n, 1) = {a} /\ Own(n, 2) = {}
  BY <1>4 DEF Restart!Posts
<1>6. \A x \in addressed[q] : x.net # n
  <2>1. ASSUME NEW x \in addressed[q], x.net = n PROVE FALSE
    <3>1. x = Restart!Address(n, 1) \/ x = Restart!Address(n, 2)
      BY <2>1 DEF RestartInv, RestartTyped
    <3>2. QED
      BY <1>5, <3>1 DEF Own
  <2>2. QED
    BY <2>1
<1>7. Restart!Posted(q, Restart!Address(n, h))
  <2>1. job.posts[1][1] = q /\ job.posts[1][2] = Restart!Address(n, h)
    BY <1>5
  <2>2. QED
    BY <1>2, <2>1
<1>8. /\ DOMAIN addressed' = SliceRouter
      /\ \A r \in SliceRouter : \A x \in addressed'[r] :
            x \in addressed[r] \/ (r = q /\ x = Restart!Address(n, h))
      /\ \A r \in SliceRouter : \A x \in addressed'[r] :
            \/ x = Restart!Address(x.net, 1)
            \/ x = Restart!Address(x.net, 2) /\ x.net \in Number
      /\ \A m, f : m # n \/ f # h => Own(m, f)' = Own(m, f)
      /\ Own(n, h)' = Own(n, h) \cup {q}
  BY <1>3, <1>6, <1>7, PostedAddress DEF RestartInv
<1>9. RestartTyped' /\ SliceOrdered' /\ Numbered' /\ LinksKnown'
  BY <1>2, <1>8
  DEF RestartInv, RestartTyped, SliceOrdered, Numbered, LinksKnown, Running, NumberedLinks, Number
<1>10. NumberedLinks' = NumberedLinks /\ links' = links /\ slice' = slice /\ links'[k] = n
  BY <1>1, <1>2 DEF NumberedLinks
<1>11. \A r \in SliceRouter : \A x \in addressed'[r] : Explained(r, x.net)'
  <2>1. ASSUME NEW r \in SliceRouter, NEW x \in addressed'[r] PROVE Explained(r, x.net)'
    <3>1. CASE x \in addressed[r]
      BY <1>2, <1>3, <1>10, <3>1 DEF RestartInv, TableFits, Explained
    <3>2. CASE x = Restart!Address(n, h)
      BY <1>1, <1>3, <1>10, <3>2 DEF Explained, Restart!Address
    <3>3. QED
      BY <1>8, <3>1, <3>2
  <2>2. QED
    BY <2>1
<1>12. \A i \in NumberedLinks \ {k} : LinkServed(links[i], slice[i].ends)'
  <2>1. ASSUME NEW i \in NumberedLinks, i # k PROVE LinkServed(links[i], slice[i].ends)'
    <3>1. PICK m : m = links[i]
      OBVIOUS
    <3>2. m # n /\ LinkServed(m, slice[i].ends)
      BY <1>1, <1>3, <2>1, <3>1 DEF RestartInv, Numbered, TableFits
    <3>3. Own(m, 1)' = Own(m, 1) /\ Own(m, 2)' = Own(m, 2) /\ links'[i] = m
      BY <1>8, <1>10, <3>1, <3>2
    <3>4. Own(links[i], 1)' = Own(m, 1) /\ Own(links[i], 2)' = Own(m, 2)
      BY <3>3 DEF Own
    <3>5. QED
      BY <1>10, <3>2, <3>4 DEF LinkServed
  <2>2. QED
    BY <2>1
<1>13. -1 \notin DOMAIN links
  BY DEF RestartInv, SliceOrdered, LinksKnown
<1>14. CASE h = 1
  <2>1. job' = [job EXCEPT !.posts = Tail(@)] /\ Tail(job.posts) = <<<<b, Restart!Address(n, 2)>>>>
    <3>1. PICK x, y : x = <<a, Restart!Address(n, 1)>> /\ y = <<b, Restart!Address(n, 2)>>
      OBVIOUS
    <3>2. job.posts = <<x, y>>
      BY <1>5, <1>14, <3>1 DEF Restart!Posts
    <3>3. Len(<<x, y>>) = 2 /\ Tail(<<x, y>>) = <<y>>
      OBVIOUS
    <3>4. QED
      BY <1>2, <3>1, <3>2, <3>3
  <2>2. job' = [link |-> k, ends |-> job.ends, posts |-> <<<<b, Restart!Address(n, 2)>>>>]
    BY <1>1, <2>1 DEF RestartInv, JobFits
  <2>3. Own(n, 1)' = {a} /\ Own(n, 2)' = {}
    BY <1>5, <1>8, <1>14
  <2>4. Left(links[k], slice[k].ends, job.posts)'
    <3>1. Own(links[k], 1)' = {a} /\ Own(links[k], 2)' = {}
      BY <1>10, <2>3 DEF Own
    <3>2. QED
      BY <1>4, <1>10, <2>2, <3>1 DEF Left
  <2>5. job # Restart!Idle /\ job' # Restart!Idle /\ job'.posts # <<>> /\ job'.link = k
    BY <1>2, <2>2 DEF Restart!Idle
  <2>6. JobFits'
    BY <1>1, <1>2, <1>3, <1>10, <2>2, <2>4, <2>5 DEF RestartInv, JobFits, Pair
  <2>7. StillDue'
    BY <1>2, <1>10, <2>5 DEF RestartInv, StillDue
  <2>8. TableFits'
    BY <1>2, <1>3, <1>10, <1>11, <1>12, <2>5 DEF TableFits
  <2>9. QED
    BY <1>9, <2>6, <2>7, <2>8 DEF RestartInv
<1>15. CASE h = 2
  <2>1. job' = Restart!Idle
    BY <1>2, <1>5, <1>15
  <2>2. Own(n, 1)' = {a} /\ Own(n, 2)' = {b}
    BY <1>5, <1>8, <1>15
  <2>3. LinkServed(links[k], slice[k].ends)'
    <3>1. Own(links[k], 1)' = {a} /\ Own(links[k], 2)' = {b}
      BY <1>10, <2>2 DEF Own
    <3>2. QED
      BY <1>4, <1>10, <3>1 DEF LinkServed
  <2>4. JobFits'
    <3>1. job'.posts = <<>> /\ job' = [link |-> job'.link, ends |-> job'.ends, posts |-> job'.posts]
      BY <2>1 DEF Restart!Idle
    <3>2. stage' \in {"config", "up"}
      BY <1>2, <1>3
    <3>3. QED
      BY <2>1, <3>1, <3>2 DEF JobFits
  <2>5. StillDue'
    BY <1>2, <1>10, <1>13, <2>1 DEF RestartInv, StillDue, Restart!Idle
  <2>6. TableFits'
    BY <1>2, <1>3, <1>10, <1>11, <1>12, <2>3 DEF TableFits
  <2>7. QED
    BY <1>9, <2>4, <2>5, <2>6 DEF RestartInv
<1>16. QED
  BY <1>14, <1>15

(* A link is asked for: the numbers of the known links are the first ones.   *)
LEMMA ProvisionKeeps ==
    ASSUME RestartInv, NEW a \in SliceRouter, NEW b \in SliceRouter, Restart!ProvisionLink(a, b)
    PROVE  RestartInv'
<1>1. PICK k : k = Restart!ClinkName
  OBVIOUS
<1>2. /\ stage = "up" /\ job = Restart!Idle /\ a # b /\ k < MaxLinks
      /\ links' = Restart!Put(links, k, 0)
      /\ slice' = IF k \in DOMAIN slice THEN slice
                  ELSE Restart!Put(slice, k, [ends |-> {a, b}, up |-> FALSE])
      /\ job' = [link |-> k, ends |-> {a, b}, posts |-> <<>>]
      /\ UNCHANGED <<stitched, stage, curip, usedip, undoable, configs, addressed, switches>>
  BY <1>1 DEF Restart!ProvisionLink
<1>3. -1 \notin DOMAIN links
  BY DEF RestartInv, SliceOrdered, LinksKnown
<1>4. NumberedLinks = DOMAIN links /\ configs = Restart!NoTodo
  BY <1>2, <1>3 DEF RestartInv, StillDue, Restart!Idle
<1>5. /\ DOMAIN links \subseteq DOMAIN slice /\ DOMAIN slice \subseteq 0 .. MaxLinks - 1
      /\ \A j \in DOMAIN slice : \A i \in 0 .. j - 1 : i \in DOMAIN links
      /\ \A i \in DOMAIN links : slice[i].up
  BY <1>2, <1>4 DEF RestartInv, SliceOrdered, LinksKnown, Running, NumberedLinks
<1>6. k \in 0 .. MaxLinks /\ \A i \in 0 .. MaxLinks : i \in DOMAIN links <=> i < k
  <2> DEFINE Unknown == {i \in Nat : i \notin DOMAIN links}
  <2>1. MaxLinks \in Unknown
    BY <1>5, RestartAssumption
  <2>2. PICK x \in Unknown : \A y \in Unknown : x <= y
    <3>1. Unknown \in SUBSET Nat /\ Unknown # {}
      BY <2>1
    <3> HIDE DEF Unknown
    <3>2. QED
      BY <3>1, LeastNatural
  <2>3. x \in 0 .. MaxLinks
    BY <2>1, <2>2, RestartAssumption
  <2>4. \A i \in 0 .. MaxLinks : i \in DOMAIN links <=> i < x
    <3>1. ASSUME NEW i \in 0 .. MaxLinks, i < x PROVE i \in DOMAIN links
      BY <2>2, <2>3, <3>1, RestartAssumption
    <3>2. ASSUME NEW i \in DOMAIN links, x < i PROVE FALSE
      <4>1. x \in 0 .. i - 1
        BY <1>5, <2>3, <3>2, RestartAssumption
      <4>2. QED
        BY <1>5, <2>2, <4>1
    <3>3. QED
      BY <2>2, <2>3, <3>1, <3>2, RestartAssumption
  <2>5. \E c \in 0 .. MaxLinks : \A i \in 0 .. MaxLinks : i \in DOMAIN links <=> i < c
    BY <2>3, <2>4
  <2>6. QED
    BY <1>1, <2>5 DEF Restart!ClinkName
<1>7. k \in 0 .. MaxLinks - 1 /\ k \notin DOMAIN links /\ \A i \in 0 .. k - 1 : i \in DOMAIN links
  BY <1>2, <1>6, RestartAssumption
<1>8. /\ DOMAIN links' = DOMAIN links \cup {k} /\ links'[k] = 0
      /\ \A i \in DOMAIN links : links'[i] = links[i]
  BY <1>2, <1>7 DEF Restart!Put
<1>9. NumberedLinks' = NumberedLinks
  BY <1>8 DEF NumberedLinks
<1>10. /\ DOMAIN slice' = DOMAIN slice \cup {k}
       /\ \A i \in DOMAIN slice : slice'[i] = slice[i]
       /\ k \notin DOMAIN slice => slice'[k] = [ends |-> {a, b}, up |-> FALSE]
  BY <1>2 DEF Restart!Put
<1>11. \A j \in DOMAIN slice' : j \in DOMAIN slice \cup {k} /\ \A i \in 0 .. j - 1 : i \in DOMAIN links
  BY <1>5, <1>7, <1>10
<1>12. RestartTyped'
  BY <1>2 DEF RestartInv, RestartTyped, Number
<1>13. SliceOrdered'
  <2>1. ASSUME NEW j \in DOMAIN slice'
        PROVE  /\ j \in 0 .. MaxLinks - 1
               /\ slice'[j] = [ends |-> slice'[j].ends, up |-> slice'[j].up]
               /\ Pair(slice'[j].ends)
    <3>1. CASE j \in DOMAIN slice
      BY <1>10, <3>1 DEF RestartInv, SliceOrdered
    <3>2. CASE j \notin DOMAIN slice
      <4>1. j = k /\ slice'[j] = [ends |-> {a, b}, up |-> FALSE]
        BY <1>10, <3>2
      <4>2. Pair({a, b}) /\ k \in 0 .. MaxLinks - 1
        BY <1>2, <1>7 DEF Pair
      <4>3. slice'[j].ends = {a, b} /\ slice'[j].up = FALSE
        BY <4>1
      <4>4. QED
        BY <4>1, <4>2, <4>3
    <3>3. QED
      BY <3>1, <3>2
  <2>2. ASSUME NEW j \in DOMAIN slice', NEW i \in 0 .. j - 1
        PROVE  i \in DOMAIN slice' /\ slice'[i].up
    BY <1>5, <1>10, <1>11
  <2>3. QED
    BY <2>1, <2>2 DEF SliceOrdered, Pair
<1>14. LinksKnown'
  BY <1>2, <1>5, <1>8, <1>10, <1>11 DEF RestartInv, LinksKnown, Running
<1>15. Numbered'
  <2>1. \A i \in NumberedLinks : links'[i] = links[i]
    BY <1>8 DEF NumberedLinks
  <2>2. QED
    BY <1>2, <1>9, <2>1 DEF RestartInv, Numbered, Number
<1>16. StillDue'
  <2>1. job'.posts = <<>> /\ job'.link = k /\ stage' = "up" /\ configs' = Restart!NoTodo
    BY <1>2, <1>4
  <2>2. NumberedLinks' = DOMAIN links' \ {k}
    BY <1>4, <1>7, <1>8, <1>9
  <2>3. QED
    BY <2>1, <2>2 DEF StillDue, Restart!NoTodo
<1>17. JobFits'
  <2>1. DOMAIN slice' = DOMAIN links'
    <3>1. ASSUME NEW j \in DOMAIN slice, j \notin DOMAIN links PROVE j = k
      BY <1>5, <1>6, <1>7, <3>1
    <3>2. QED
      BY <1>5, <1>8, <1>10, <3>1
  <2>2. /\ job'.posts = <<>> /\ job'.link \in DOMAIN links' /\ Pair(job'.ends) /\ stage' = "up"
        /\ job' = [link |-> job'.link, ends |-> job'.ends, posts |-> job'.posts]
    BY <1>2, <1>8 DEF Pair
  <2>3. QED
    BY <2>1, <2>2 DEF JobFits, Pair
<1>18. TableFits'
  <2>1. \A i \in NumberedLinks : LinkServed(links[i], slice[i].ends)'
    <3>1. ASSUME NEW i \in NumberedLinks PROVE LinkServed(links[i], slice[i].ends)'
      <4>1. LinkServed(links[i], slice[i].ends)
        BY <1>2, <1>3, <1>4 DEF RestartInv, TableFits, Restart!Idle
      <4>2. links'[i] = links[i] /\ slice'[i] = slice[i]
        BY <1>4, <1>5, <1>8, <1>10
      <4>3. QED
        BY <1>2, <4>1, <4>2 DEF LinkServed, Own
    <3>2. QED
      BY <3>1
  <2>2. ASSUME NEW r \in SliceRouter, NEW x \in addressed[r] PROVE Explained(r, x.net)'
    <3>1. Explained(r, x.net)
      BY <1>2 DEF RestartInv, TableFits
    <3>2. QED
      BY <1>2, <1>8, <1>9, <3>1 DEF Explained, NumberedLinks
  <2>3. stage' = "up" /\ switches' = SliceRouter /\ addressed' = addressed
    BY <1>2 DEF RestartInv, TableFits
  <2>4. QED
    BY <1>9, <2>1, <2>2, <2>3 DEF TableFits
<1>19. QED
  BY <1>12, <1>13, <1>14, <1>15, <1>16, <1>17, <1>18 DEF RestartInv

(* The testbed makes a link.                                                 *)
LEMMA LinkUpKeeps ==
    ASSUME RestartInv, NEW k \in DOMAIN slice, Restart!LinkUp(k)
    PROVE  RestartInv'
<1>1. /\ slice' = [slice EXCEPT ![k].up = TRUE]
      /\ UNCHANGED <<stitched, stage, links, curip, usedip, undoable, configs, job, addressed, switches>>
  BY DEF Restart!LinkUp, Restart!memory
<1>2. /\ DOMAIN slice' = DOMAIN slice /\ \A i \in DOMAIN slice : i # k => slice'[i] = slice[i]
      /\ slice'[k] = [slice[k] EXCEPT !.up = TRUE]
  BY <1>1
<1>3. slice'[k] = [ends |-> slice[k].ends, up |-> TRUE]
  BY <1>2 DEF RestartInv, SliceOrdered
<1>4. \A i \in DOMAIN slice : slice'[i].ends = slice[i].ends /\ (slice[i].up => slice'[i].up)
  BY <1>2, <1>3
<1>5. SliceOrdered'
  <2>1. ASSUME NEW i \in DOMAIN slice PROVE slice'[i] = [ends |-> slice'[i].ends, up |-> slice'[i].up]
    BY <1>2, <1>3 DEF RestartInv, SliceOrdered
  <2>2. QED
    BY <1>2, <1>4, <2>1 DEF RestartInv, SliceOrdered, Pair
<1>6. RestartTyped' /\ LinksKnown' /\ Numbered'
  BY <1>1, <1>2, <1>4
  DEF RestartInv, RestartTyped, LinksKnown, Running, Numbered, NumberedLinks, Number
<1>7. DOMAIN links \subseteq DOMAIN slice
  BY DEF RestartInv, LinksKnown
<1>8. StillDue'
  <2>1. configs.links \subseteq DOMAIN slice
    BY <1>7 DEF RestartInv, StillDue
  <2>2. \A i \in configs.links : slice'[i].up
    BY <1>4, <2>1 DEF RestartInv, StillDue
  <2>3. QED
    BY <1>1, <2>2 DEF RestartInv, StillDue, NumberedLinks
<1>9. JobFits'
  <2>1. job.posts # <<>> => Left(links[job.link], slice[job.link].ends, job.posts)'
    <3>1. SUFFICES ASSUME job.posts # <<>>
                   PROVE  Left(links[job.link], slice[job.link].ends, job.posts)'
      OBVIOUS
    <3>2. job.link \in DOMAIN slice /\ Left(links[job.link], slice[job.link].ends, job.posts)
      BY <1>7, <3>1 DEF RestartInv, JobFits, NumberedLinks
    <3>3. QED
      BY <1>1, <1>4, <3>2 DEF Left, Own
  <2>2. QED
    BY <1>1, <1>2, <2>1 DEF RestartInv, JobFits, NumberedLinks, Pair
<1>10. TableFits'
  <2>1. ASSUME NEW i \in NumberedLinks, LinkServed(links[i], slice[i].ends)
        PROVE  LinkServed(links[i], slice[i].ends)'
    BY <1>1, <1>4, <1>7, <2>1 DEF LinkServed, Own, NumberedLinks
  <2>2. NumberedLinks' = NumberedLinks
    BY <1>1 DEF NumberedLinks
  <2>3. \A r, n : Explained(r, n) => Explained(r, n)'
    BY <1>1, <2>2 DEF Explained
  <2>4. QED
    BY <1>1, <2>1, <2>2, <2>3 DEF RestartInv, TableFits
<1>11. QED
  BY <1>5, <1>6, <1>8, <1>9, <1>10 DEF RestartInv

(* Each step keeps the invariant, if a start restarts the controller and     *)
(* numbers are apart.                                                        *)
LEMMA RestartStep ==
    ASSUME InSlice, NumbersApart, RestartInv, [Restart!Next]_restartVars
    PROVE  RestartInv'
<1>1. CASE Restart!StartSdxServer
  <2>1. ASSUME NEW u \in SliceCustomer, Restart!ConfigStitch(u) PROVE RestartInv'
    BY <2>1, ConfigStitchKeeps
  <2>2. ASSUME NEW k \in DOMAIN slice, NEW a \in SliceRouter, NEW b \in SliceRouter,
               Restart!ConfigLink(k, a, b)
        PROVE  RestartInv'
    BY <2>2, ConfigLinkKeeps
  <2>3. QED
    BY <1>1, <2>1, <2>2, ClearKeeps, LoadKeeps, PlexusKeeps, StagesKeep DEF Restart!StartSdxServer
<1>2. ASSUME NEW a \in SliceRouter, NEW b \in SliceRouter,
             Restart!ProvisionLink(a, b) \/ Restart!PortsCome(a, b)
      PROVE  RestartInv'
  BY <1>2, ProvisionKeeps, PortsComeKeeps
<1>3. ASSUME NEW k \in DOMAIN slice, Restart!LinkUp(k) PROVE RestartInv'
  BY <1>3, LinkUpKeeps
<1>4. ASSUME NEW u \in SliceCustomer,
             Restart!StitchRequest(u) \/ Restart!StitchChameleon(u) \/ Restart!UndoStitch(u)
      PROVE  RestartInv'
  BY <1>4, StitchKeeps, UndoKeeps
<1>5. ASSUME NEW r \in SliceRouter, Restart!Join(r) PROVE RestartInv'
  BY <1>5, JoinKeeps
<1>6. CASE UNCHANGED restartVars
  <2>1. UNCHANGED <<slice, stitched, stage, links, curip, usedip, undoable, configs, job, addressed, switches>>
    BY <1>6 DEF restartVars
  <2>2. RestartTyped' /\ SliceOrdered' /\ LinksKnown' /\ Numbered' /\ StillDue'
    BY <2>1
    DEF RestartInv, RestartTyped, SliceOrdered, LinksKnown, Running, Numbered, StillDue, NumberedLinks
  <2>3. JobFits'
    BY <2>1 DEF RestartInv, JobFits, Left, Own, NumberedLinks, Pair
  <2>4. TableFits'
    BY <2>1 DEF RestartInv, TableFits, LinkServed, Own, Explained, NumberedLinks
  <2>5. QED
    BY <2>2, <2>3, <2>4 DEF RestartInv
<1>7. QED
  BY <1>1, <1>2, <1>3, <1>4, <1>5, <1>6, StopKeeps, PostsKeep DEF Restart!Next

(* However often a manager stops, and wherever in its work: once it configures, *)
(* the routers have the addresses of its links, each on the ends that the link  *)
(* has in the slice, and of the stitches, and no others.  Hypotheses: a start   *)
(* clears the tables of the controller, and the numbers of links are apart from *)
(* those in customers' addresses.                                               *)
THEOREM AddressesRestored ==
    ASSUME InSlice, NumbersApart
    PROVE  Spec => []AddressesFit
<1> DEFINE Inv == part = "restart" => RestartInv
<1>1. Init => Inv
  BY RestartInit DEF Init
<1>2. Inv /\ [Next]_vars => Inv'
  BY Separate, RestartStep
<1>3. Inv => AddressesFit
  <2> SUFFICES ASSUME RestartInv, stage \in {"config", "up"}
               PROVE  /\ \A k \in DOMAIN links : links[k] # 0 => Restart!LinkFits(k)
                      /\ \A r \in SliceRouter : \A a \in addressed[r] :
                            \/ \E k \in DOMAIN links : links[k] = a.net
                            \/ \E c \in stitched : RouterOf[c] = r /\ a.net = NetOf[c]
                            \/ \E c \in stitched \ Chameleon : RouterOf[c] = r /\ a.net = MaskNumber
    BY DEF AddressesFit, Restart!AddressesFit
  <2>1. ASSUME NEW k \in NumberedLinks PROVE Restart!LinkFits(k)
    <3>1. PICK n : n = links[k]
      OBVIOUS
    <3>2. \A h : Restart!Owners(Restart!Address(n, h)) = Own(n, h)
      BY DEF Restart!Owners, Own
    <3>3. CASE k = job.link
      <4>1. job # Restart!Idle
        BY <3>3 DEF RestartInv, SliceOrdered, LinksKnown, NumberedLinks, Restart!Idle
      <4>2. job.posts # <<>>
        BY <3>3, <4>1 DEF RestartInv, JobFits, StillDue
      <4>3. Left(n, slice[k].ends, job.posts)
        BY <3>1, <3>3, <4>2 DEF RestartInv, JobFits
      <4>4. Own(n, 1) \cup Own(n, 2) \subseteq slice[k].ends
        BY <4>3 DEF Left
      <4>5. QED
        BY <3>1, <3>2, <3>3, <4>4 DEF Restart!LinkFits
    <3>4. CASE k # job.link
      <4>1. LinkServed(n, slice[k].ends)
        BY <3>1, <3>4 DEF RestartInv, TableFits
      <4>2. QED
        BY <3>1, <3>2, <3>4, <4>1 DEF Restart!LinkFits, LinkServed
    <3>5. QED
      BY <3>3, <3>4
  <2>2. ASSUME NEW r \in SliceRouter, NEW a \in addressed[r]
        PROVE  \/ \E k \in DOMAIN links : links[k] = a.net
               \/ \E c \in stitched : RouterOf[c] = r /\ a.net = NetOf[c]
               \/ \E c \in stitched \ Chameleon : RouterOf[c] = r /\ a.net = MaskNumber
    <3>1. Explained(r, a.net)
      BY DEF RestartInv, TableFits
    <3>2. QED
      BY <3>1 DEF Explained, NumberedLinks
  <2>3. QED
    BY <2>1, <2>2 DEF NumberedLinks
<1>4. QED
  BY <1>1, <1>2, <1>3, PTL DEF Spec

-----------------------------------------------------------------------------
(* Flows of the router, for networks of any sizes: first, the arithmetic of   *)
(* masks.                                                                    *)

(* A remainder is known by what is left of it.                               *)
LEMMA Remainder ==
    ASSUME NEW n \in Nat, NEW p \in Nat \ {0}, NEW h \in Nat, NEW s \in 0 .. p - 1, n = p * h + s
    PROVE  n % p = s
BY SMT

(* A number is its remainder and a multiple of what it was divided by.        *)
LEMMA Quotient ==
    ASSUME NEW n \in Nat, NEW p \in Nat \ {0}
    PROVE  \E h \in Nat : n = p * h + (n % p) /\ (n % p) \in 0 .. p - 1
<1>1. n \in Int /\ p \in Int /\ p > 0
  OBVIOUS
<1>2. n = p * (n \div p) + (n % p)
  BY <1>1, Z3
<1>3. n \div p \in Int /\ (n % p) \in 0 .. p - 1
  BY <1>1
<1>4. PICK h \in Int : h = n \div p
  BY <1>3
<1>5. n = p * h + (n % p)
  BY <1>2, <1>4
<1>6. ~(h <= -1)
  <2>1. ASSUME h <= -1 PROVE p * h <= -p
    BY <1>1, <2>1, Z3
  <2>2. PICK x \in Int : x = p * h
    OBVIOUS
  <2>3. n = x + (n % p)
    BY <1>5, <2>2
  <2>4. QED
    BY <1>3, <2>1, <2>2, <2>3
<1>7. h \in Nat
  BY <1>6
<1>8. QED
  BY <1>3, <1>5, <1>7

(* IPs that are in one network are in one network of twice its size.         *)
LEMMA TwiceTheSize ==
    ASSUME NEW x \in Nat, NEW y \in Nat, NEW p \in Nat \ {0}, x - (x % p) = y - (y % p)
    PROVE  x - (x % (2 * p)) = y - (y % (2 * p))
<1>1. PICK g \in Nat : x = p * g + (x % p) /\ (x % p) \in 0 .. p - 1
  BY Quotient
<1>2. PICK h \in Nat : y = p * h + (y % p) /\ (y % p) \in 0 .. p - 1
  BY Quotient
<1>3. PICK s \in 0 .. p - 1, t \in 0 .. p - 1 : s = (x % p) /\ t = (y % p)
  BY <1>1, <1>2
<1>4. PICK u \in Nat, v \in Nat : u = p * g /\ v = p * h
  OBVIOUS
<1>5. x = u + s /\ y = v + t /\ u = v
  <2>1. x = u + s /\ y = v + t
    BY <1>1, <1>2, <1>3, <1>4
  <2>2. x - s = y - t
    BY <1>3
  <2>3. QED
    BY <2>1, <2>2
<1>6. PICK m \in Nat, z \in {0, 1} : g = 2 * m + z
  <2>1. PICK q \in Nat \ {0} : q = 2
    OBVIOUS
  <2>2. PICK m \in Nat : g = q * m + (g % q) /\ (g % q) \in 0 .. q - 1
    BY Quotient
  <2>3. PICK z \in 0 .. 1 : z = g % q
    BY <2>1, <2>2
  <2>4. g = 2 * m + z
    BY <2>1, <2>2, <2>3
  <2>5. QED
    BY <2>4
<1>7. u = (2 * p) * m + z * p
  <2>1. p * g = p * (2 * m + z)
    BY <1>6
  <2>2. p * (2 * m + z) = (2 * p) * m + z * p
    BY Z3
  <2>3. QED
    BY <1>4, <2>1, <2>2
<1>8. PICK w \in Nat : w = z * p /\ w \in {0, p}
  BY <1>6
<1>9. PICK a \in Nat : a = (2 * p) * m
  OBVIOUS
<1>10. u = a + w
  BY <1>7, <1>8, <1>9
<1>11. 2 * p \in Nat \ {0} /\ w + s \in 0 .. (2 * p) - 1 /\ w + t \in 0 .. (2 * p) - 1
  BY <1>8
<1>12. x = (2 * p) * m + (w + s) /\ y = (2 * p) * m + (w + t)
  BY <1>5, <1>8, <1>9, <1>10
<1>13. x % (2 * p) = w + s /\ y % (2 * p) = w + t
  BY <1>11, <1>12, Remainder
<1>14. QED
  BY <1>5, <1>9, <1>10, <1>12, <1>13

(* ... and in one of every larger size.                                      *)
LEMMA Nested ==
    ASSUME NEW x \in Nat, NEW y \in Nat, NEW j \in 0 .. Bits, NEW k \in 0 .. Bits, k <= j,
           Flows!ApplyMask(x, j) = Flows!ApplyMask(y, j)
    PROVE  Flows!ApplyMask(x, k) = Flows!ApplyMask(y, k)
<1> DEFINE Differ == {i \in Nat : i <= j /\ Flows!ApplyMask(x, j - i) # Flows!ApplyMask(y, j - i)}
<1>1. SUFFICES ASSUME Flows!ApplyMask(x, k) # Flows!ApplyMask(y, k) PROVE FALSE
  OBVIOUS
<1>2. j - k \in Differ /\ Differ \in SUBSET Nat
  <2>1. j - (j - k) = k /\ j - k \in Nat /\ j - k <= j
    OBVIOUS
  <2>2. QED
    BY <1>1, <2>1
<1>3. PICK i \in Differ : \A d \in Differ : i <= d
  <2> HIDE DEF Differ
  <2>1. QED
    BY <1>2, LeastNatural
<1>4. i # 0
  <2>1. j - 0 = j
    OBVIOUS
  <2>2. QED
    BY <1>3, <2>1
<1>5. i \in Nat /\ i <= j /\ i - 1 \in Nat /\ i - 1 \notin Differ
  BY <1>3, <1>4
<1>6. Flows!ApplyMask(x, j - (i - 1)) = Flows!ApplyMask(y, j - (i - 1))
  BY <1>5
<1>7. PICK b \in 0 .. Bits : b = Bits - (j - (i - 1))
  BY <1>5, PowersAssumption
<1>8. Bits - (j - i) = b + 1
  BY <1>5, <1>7, PowersAssumption
<1>9. PICK p \in Nat \ {0} : p = 2 ^ b
  BY PowersAssumption
<1>10. 2 ^ (b + 1) = 2 * p
  BY <1>9, PowersAssumption
<1>11. x - (x % p) = y - (y % p)
  BY <1>6, <1>7, <1>9 DEF Flows!ApplyMask
<1>12. x - (x % (2 * p)) = y - (y % (2 * p))
  BY <1>11, TwiceTheSize
<1>13. Flows!ApplyMask(x, j - i) = Flows!ApplyMask(y, j - i)
  <2>1. 2 ^ (Bits - (j - i)) = 2 * p
    BY <1>8, <1>10
  <2>2. QED
    BY <1>12, <2>1 DEF Flows!ApplyMask
<1>14. QED
  BY <1>3, <1>13

(* The whole, and a single IP, as networks.                                  *)
LEMMA Ends ==
    /\ \A i \in Ips : Flows!ApplyMask(i, 0) = 0 /\ Flows!ApplyMask(i, Bits) = i
    /\ \A i \in Ips : Flows!In(i, Flows!AnyNet)
    /\ \A i, j \in Ips : Flows!In(i, Flows!HostNet(j)) <=> i = j
<1>1. ASSUME NEW i \in Ips PROVE Flows!ApplyMask(i, 0) = 0
  <2>1. PICK p \in Nat \ {0} : p = 2 ^ Bits
    BY PowersAssumption
  <2>2. i \in Nat /\ i < p
    BY <2>1 DEF Ips
  <2>3. i % p = i
    BY <2>2
  <2>4. Bits - 0 = Bits
    BY PowersAssumption
  <2>5. QED
    BY <2>1, <2>2, <2>3, <2>4 DEF Flows!ApplyMask
<1>2. ASSUME NEW i \in Ips PROVE Flows!ApplyMask(i, Bits) = i
  <2>1. Bits - Bits = 0 /\ i \in Nat
    BY PowersAssumption DEF Ips
  <2>2. 2 ^ 0 = 1
    BY Z3
  <2>3. i % 1 = 0
    BY <2>1
  <2>4. 2 ^ (Bits - Bits) = 1
    BY <2>1, <2>2
  <2>5. i - (i % 2 ^ (Bits - Bits)) = i
    BY <2>1, <2>3, <2>4
  <2>6. QED
    BY <2>5 DEF Flows!ApplyMask
<1>3. QED
  BY <1>1, <1>2 DEF Flows!In, Flows!AnyNet, Flows!HostNet

-----------------------------------------------------------------------------
(* Flows of the router.                                                      *)
MacFlow(a) == Flows!ToController(a, Flows!Priority(Flows!MAC_LEARNING), Flows!Net(a))
IpFlow(a) == Flows!ToController(a, Flows!Priority(Flows!IP_HANDLING), Flows!HostNet(a.gw))
L2Flow(a) ==
    Flows!Flow(Flows!CookieOf(a), Flows!Priority(Flows!L2_SWITCHING), Flows!Net(a), Flows!Net(a),
               <<"normal">>)

RouteFlow(r, ms) == IF r \in ms THEN Flows!RoutingFlow(r) ELSE Flows!PacketInFlow(r)

Key(f) == <<f.prio, f.src, f.dst>>

\* The flows that the tables call for, and those of hosts that were learnt.
Fixed(ads, rs, ms) ==
    {Flows!NormalFlow} \cup {f \in {Flows!DropFlow} : \A r \in rs : r.len # 0}
    \cup {MacFlow(a) : a \in ads} \cup {IpFlow(a) : a \in ads} \cup {L2Flow(a) : a \in ads}
    \cup {RouteFlow(r, ms) : r \in rs}

IsHosted(f, ads) == \E a \in ads, i \in Ips : Flows!In(i, a) /\ f = Flows!HostFlow(a, i)

\* No address has the router's IP of another, no two routes have one
\* destination, and gateways are in internal networks.
TablesFit(ads, rs, ms) ==
    /\ ads \subseteq Addresses /\ rs \subseteq FlowRoutes /\ ms \subseteq rs
    /\ \A a, b \in ads : Flows!In(a.gw, b) => a = b
    /\ \A r, q \in rs : Flows!Net(r) = Flows!Net(q) => r = q
    /\ \A r \in rs : \E a \in ads : Flows!In(r.gateway, a)

DeletionFits ==
    \/ deletion = Flows!Idle
    \/ \E rows : /\ deletion = [what |-> "route", rows |-> rows]
                  /\ rows \subseteq route
    \/ \E rows : /\ deletion = [what |-> "address", rows |-> rows]
                  /\ rows \subseteq interface
                  /\ \A a \in rows : \A r \in route : ~Flows!In(r.gateway, a)

FlowsFit ==
    /\ Fixed(interface, route, macs) \subseteq flow
    /\ \A f \in flow : f \in Fixed(interface, route, macs) \/ IsHosted(f, interface)

FlowInv == TablesFit(interface, route, macs) /\ DeletionFits /\ FlowsFit

(* The priorities.                                                           *)
LEMMA Priorities ==
    /\ Flows!Priority(Flows!MAC_LEARNING) = 2
    /\ Flows!Priority(Flows!IMPLICIT_ROUTING) = 3 + Bits
    /\ Flows!Priority(Flows!L2_SWITCHING) = 4 + Bits
    /\ Flows!Priority(Flows!IP_HANDLING) = 1005 + Bits
BY PowersAssumption
DEF Flows!Priority, Flows!MAC_LEARNING, Flows!IMPLICIT_ROUTING, Flows!L2_SWITCHING,
    Flows!IP_HANDLING, Flows!STATIC_ROUTING, Flows!NetmaskShift

(* What flows say.                                                           *)
LEMMA AddressFields ==
    ASSUME NEW a \in Addresses
    PROVE  /\ Flows!AddressFlows(a) = {MacFlow(a), IpFlow(a), L2Flow(a)}
           /\ MacFlow(a) = [cookie |-> Flows!CookieOf(a), prio |-> 2,
                            src |-> Flows!AnyNet, dst |-> Flows!Net(a), action |-> <<"controller">>]
           /\ IpFlow(a) = [cookie |-> Flows!CookieOf(a), prio |-> 1005 + Bits,
                           src |-> Flows!AnyNet, dst |-> Flows!HostNet(a.gw),
                           action |-> <<"controller">>]
           /\ L2Flow(a) = [cookie |-> Flows!CookieOf(a), prio |-> 4 + Bits,
                           src |-> Flows!Net(a), dst |-> Flows!Net(a), action |-> <<"normal">>]
           /\ \A i : Flows!HostFlow(a, i) =
                        [cookie |-> Flows!CookieOf(a), prio |-> 3 + Bits,
                         src |-> Flows!AnyNet, dst |-> Flows!HostNet(i), action |-> <<"out", i>>]
BY Priorities
DEF Flows!AddressFlows, MacFlow, IpFlow, L2Flow, Flows!ToController, Flows!Flow, Flows!HostFlow

(* What the flows of a route say: the default route is for every packet.       *)
LEMMA RouteFields ==
    ASSUME NEW r \in FlowRoutes
    PROVE  /\ Flows!PacketInFlow(r) =
                  [cookie |-> Flows!CookieOf(r), prio |-> Flows!RoutePriority(r),
                   src |-> Flows!AnyNet, dst |-> Flows!Net(r), action |-> <<"controller">>]
           /\ Flows!RoutingFlow(r) =
                  [cookie |-> Flows!CookieOf(r), prio |-> Flows!RoutePriority(r),
                   src |-> Flows!AnyNet, dst |-> Flows!Net(r), action |-> <<"out", r.gateway>>]
           /\ r.len = 0 => Flows!RoutePriority(r) = 1 /\ Flows!Net(r) = Flows!AnyNet
           /\ r.len # 0 => Flows!RoutePriority(r) = 2 + r.len
           /\ r.len \in 0 .. Bits
<1>1. r \in [start : Ips, len : 0 .. Bits, gateway : Ips]
  BY FlowsAssumption
<1>2. ASSUME r.len = 0 PROVE Flows!Net(r) = Flows!AnyNet
  <2>1. Flows!ApplyMask(r.start, r.len) = r.start
    BY FlowsAssumption DEF Flows!In
  <2>2. r.start = 0
    BY <1>1, <1>2, <2>1, Ends
  <2>3. QED
    BY <1>2, <2>2 DEF Flows!Net, Flows!AnyNet
<1>3. r.len = 0 => Flows!RoutePriority(r) = 1
  BY DEF Flows!RoutePriority, Flows!DEFAULT_ROUTING
<1>4. r.len # 0 => Flows!RoutePriority(r) = 2 + r.len
  BY DEF Flows!RoutePriority, Flows!STATIC_ROUTING
<1>5. /\ Flows!PacketInFlow(r) =
            [cookie |-> Flows!CookieOf(r), prio |-> Flows!RoutePriority(r),
             src |-> Flows!AnyNet, dst |-> Flows!Net(r), action |-> <<"controller">>]
      /\ Flows!RoutingFlow(r) =
            [cookie |-> Flows!CookieOf(r), prio |-> Flows!RoutePriority(r),
             src |-> Flows!AnyNet, dst |-> Flows!Net(r), action |-> <<"out", r.gateway>>]
  BY DEF Flows!PacketInFlow, Flows!RoutingFlow, Flows!ToController, Flows!Flow
<1>6. QED
  BY <1>1, <1>2, <1>3, <1>4, <1>5

(* What the flows of the router itself say.                                  *)
LEMMA OtherFields ==
    /\ Flows!NormalFlow = [cookie |-> <<"router">>, prio |-> 0, src |-> Flows!AnyNet,
                           dst |-> Flows!AnyNet, action |-> <<"normal">>]
    /\ Flows!DropFlow = [cookie |-> <<"router">>, prio |-> 1, src |-> Flows!AnyNet,
                         dst |-> Flows!AnyNet, action |-> <<"drop">>]
BY DEF Flows!NormalFlow, Flows!DropFlow, Flows!Flow, Flows!NORMAL, Flows!DEFAULT_ROUTING

(* What the flows of Fixed are.                                              *)
Kind(f, ads, rs, ms) ==
    \/ f = Flows!NormalFlow /\ f.prio = 0
    \/ f = Flows!DropFlow /\ f.prio = 1 /\ \A r \in rs : r.len # 0
    \/ \E a \in ads : f = MacFlow(a) /\ f.prio = 2 /\ f.dst = Flows!Net(a)
    \/ \E a \in ads : f = IpFlow(a) /\ f.prio = 1005 + Bits /\ f.dst = Flows!HostNet(a.gw)
    \/ \E a \in ads : f = L2Flow(a) /\ f.prio = 4 + Bits /\ f.dst = Flows!Net(a)
    \/ \E r \in rs : f = RouteFlow(r, ms) /\ f.dst = Flows!Net(r) /\ f.prio = 1 /\ r.len = 0
    \/ \E r \in rs : /\ f = RouteFlow(r, ms) /\ f.dst = Flows!Net(r)
                     /\ f.prio = 2 + r.len /\ r.len \in 1 .. Bits

(* A flow that the tables call for is of one of these kinds.                  *)
LEMMA FlowKinds ==
    ASSUME NEW ads, NEW rs, NEW ms, TablesFit(ads, rs, ms), NEW f \in Fixed(ads, rs, ms)
    PROVE  Kind(f, ads, rs, ms)
<1>1. ASSUME NEW a \in ads
      PROVE  /\ MacFlow(a).prio = 2 /\ MacFlow(a).dst = Flows!Net(a)
             /\ IpFlow(a).prio = 1005 + Bits /\ IpFlow(a).dst = Flows!HostNet(a.gw)
             /\ L2Flow(a).prio = 4 + Bits /\ L2Flow(a).dst = Flows!Net(a)
  <2>1. a \in Addresses
    BY DEF TablesFit
  <2>2. QED
    BY <2>1, AddressFields
<1>2. ASSUME NEW r \in rs
      PROVE  /\ RouteFlow(r, ms).dst = Flows!Net(r)
             /\ \/ RouteFlow(r, ms).prio = 1 /\ r.len = 0
                \/ RouteFlow(r, ms).prio = 2 + r.len /\ r.len \in 1 .. Bits
  <2>1. r \in FlowRoutes
    BY DEF TablesFit
  <2>2. RouteFlow(r, ms).dst = Flows!Net(r) /\ RouteFlow(r, ms).prio = Flows!RoutePriority(r)
    BY <2>1, RouteFields DEF RouteFlow
  <2>3. r.len # 0 => r.len \in 1 .. Bits /\ Flows!RoutePriority(r) = 2 + r.len
    BY <2>1, RouteFields, PowersAssumption
  <2>4. r.len = 0 => Flows!RoutePriority(r) = 1
    BY <2>1, RouteFields
  <2>5. QED
    BY <2>2, <2>3, <2>4
<1>3. Flows!NormalFlow.prio = 0 /\ Flows!DropFlow.prio = 1
  BY OtherFields
<1>4. QED
  BY <1>1, <1>2, <1>3 DEF Fixed, Kind

(* Two of them are never for one match at one priority.                      *)
LEMMA KeysApart ==
    ASSUME NEW ads, NEW rs, NEW ms, TablesFit(ads, rs, ms),
           NEW f \in Fixed(ads, rs, ms), NEW g \in Fixed(ads, rs, ms), Key(f) = Key(g)
    PROVE  f = g
<1>1. f.prio = g.prio /\ f.dst = g.dst
  BY DEF Key
<1>2. Bits \in Nat
  BY PowersAssumption
<1>3. ASSUME NEW a \in ads, NEW b \in ads, Flows!Net(a) = Flows!Net(b) PROVE a = b
  <2>1. a.start = b.start /\ a.len = b.len
    BY <1>3 DEF Flows!Net
  <2>2. Flows!In(a.gw, a)
    BY FlowsAssumption DEF TablesFit
  <2>3. Flows!In(a.gw, b)
    BY <2>1, <2>2 DEF Flows!In
  <2>4. QED
    BY <2>3 DEF TablesFit
<1>4. ASSUME NEW a \in ads, NEW b \in ads, Flows!HostNet(a.gw) = Flows!HostNet(b.gw) PROVE a = b
  <2>1. a.gw = b.gw
    BY <1>4 DEF Flows!HostNet
  <2>2. Flows!In(a.gw, b)
    BY <2>1, FlowsAssumption DEF TablesFit
  <2>3. QED
    BY <2>2 DEF TablesFit
<1>5. \A r, q \in rs : Flows!Net(r) = Flows!Net(q) => r = q
  BY DEF TablesFit
<1>6. Kind(f, ads, rs, ms) /\ Kind(g, ads, rs, ms)
  BY FlowKinds
<1>7. CASE f.prio = 0
  BY <1>1, <1>2, <1>6, <1>7 DEF Kind
<1>8. CASE f.prio = 1
  <2>1. ASSUME NEW r \in rs, f = RouteFlow(r, ms), f.dst = Flows!Net(r), r.len = 0 PROVE f = g
    <3>1. PICK q \in rs : g = RouteFlow(q, ms) /\ g.dst = Flows!Net(q)
      BY <1>1, <1>2, <1>6, <1>8, <2>1 DEF Kind
    <3>2. QED
      BY <1>1, <1>5, <2>1, <3>1
  <2>2. CASE f = Flows!DropFlow /\ \A r \in rs : r.len # 0
    BY <1>1, <1>2, <1>6, <1>8, <2>2 DEF Kind
  <2>3. QED
    BY <1>2, <1>6, <1>8, <2>1, <2>2 DEF Kind
<1>9. CASE f.prio = 2
  <2>1. PICK a \in ads : f = MacFlow(a) /\ f.dst = Flows!Net(a)
    BY <1>2, <1>6, <1>9 DEF Kind
  <2>2. PICK b \in ads : g = MacFlow(b) /\ g.dst = Flows!Net(b)
    BY <1>1, <1>2, <1>6, <1>9 DEF Kind
  <2>3. QED
    BY <1>1, <1>3, <2>1, <2>2
<1>10. CASE f.prio = 1005 + Bits
  <2>1. PICK a \in ads : f = IpFlow(a) /\ f.dst = Flows!HostNet(a.gw)
    BY <1>2, <1>6, <1>10 DEF Kind
  <2>2. PICK b \in ads : g = IpFlow(b) /\ g.dst = Flows!HostNet(b.gw)
    BY <1>1, <1>2, <1>6, <1>10 DEF Kind
  <2>3. QED
    BY <1>1, <1>4, <2>1, <2>2
<1>11. CASE f.prio = 4 + Bits
  <2>1. PICK a \in ads : f = L2Flow(a) /\ f.dst = Flows!Net(a)
    BY <1>2, <1>6, <1>11 DEF Kind
  <2>2. PICK b \in ads : g = L2Flow(b) /\ g.dst = Flows!Net(b)
    BY <1>1, <1>2, <1>6, <1>11 DEF Kind
  <2>3. QED
    BY <1>1, <1>3, <2>1, <2>2
<1>12. CASE f.prio \in 3 .. Bits + 2
  <2>1. PICK r \in rs : f = RouteFlow(r, ms) /\ f.dst = Flows!Net(r)
    BY <1>2, <1>6, <1>12 DEF Kind
  <2>2. PICK q \in rs : g = RouteFlow(q, ms) /\ g.dst = Flows!Net(q)
    BY <1>1, <1>2, <1>6, <1>12 DEF Kind
  <2>3. QED
    BY <1>1, <1>5, <2>1, <2>2
<1>13. f.prio \in {0, 1, 2, 1005 + Bits, 4 + Bits} \cup 3 .. Bits + 2
  BY <1>2, <1>6 DEF Kind
<1>14. QED
  BY <1>7, <1>8, <1>9, <1>10, <1>11, <1>12, <1>13

(* Nor is one of them for the match of a flow of a host.                     *)
LEMMA HostsApart ==
    ASSUME NEW ads, NEW rs, NEW ms, TablesFit(ads, rs, ms),
           NEW f \in Fixed(ads, rs, ms), NEW a \in Addresses, NEW i
    PROVE  Key(f) # Key(Flows!HostFlow(a, i))
<1>1. Flows!HostFlow(a, i).prio = 3 + Bits
  BY AddressFields
<1>2. f.prio # 3 + Bits
  <2>1. Kind(f, ads, rs, ms)
    BY FlowKinds
  <2>2. QED
    BY <2>1, PowersAssumption DEF Kind
<1>3. QED
  BY <1>1, <1>2 DEF Key

(* A flow that is added takes the place of the one of its match and priority. *)
LEMMA Added ==
    ASSUME NEW fs, NEW new, NEW f
    PROVE  f \in Flows!With(fs, new) <=> f \in new \/ (f \in fs /\ \A g \in new : Key(f) # Key(g))
BY DEF Flows!With, Key

(* New flows take the place of old ones.                                     *)
LEMMA TakePlace ==
    ASSUME NEW ads, NEW rs, NEW ms, TablesFit(ads, rs, ms), NEW fs, NEW old, NEW new,
           old \subseteq fs, new \subseteq Fixed(ads, rs, ms),
           Fixed(ads, rs, ms) \subseteq old \cup new,
           \A f \in old : f \in Fixed(ads, rs, ms) \/ \E g \in new : Key(f) = Key(g)
    PROVE  /\ Fixed(ads, rs, ms) \subseteq Flows!With(fs, new)
           /\ \A f \in Flows!With(fs, new) : f \in Fixed(ads, rs, ms) \/ f \in fs \ old
<1>1. ASSUME NEW f \in Fixed(ads, rs, ms) PROVE f \in Flows!With(fs, new)
  <2>1. CASE f \in new
    BY <2>1, Added
  <2>2. CASE f \notin new
    <3>1. f \in fs /\ \A g \in new : Key(f) # Key(g)
      BY <2>2, KeysApart
    <3>2. QED
      BY <3>1, Added
  <2>3. QED
    BY <2>1, <2>2
<1>2. ASSUME NEW f \in Flows!With(fs, new) PROVE f \in Fixed(ads, rs, ms) \/ f \in fs \ old
  <2>1. CASE f \in new
    BY <2>1
  <2>2. CASE f \in fs /\ \A g \in new : Key(f) # Key(g)
    BY <2>2
  <2>3. QED
    BY <2>1, <2>2, Added
<1>3. QED
  BY <1>1, <1>2

(* Cookies tell addresses, routes and the flows of the router apart.         *)
LEMMA Cookies ==
    /\ \A a, b \in Addresses : Flows!CookieOf(a) = Flows!CookieOf(b) => Flows!Net(a) = Flows!Net(b)
    /\ \A r, q \in FlowRoutes : Flows!CookieOf(r) = Flows!CookieOf(q) => Flows!Net(r) = Flows!Net(q)
    /\ \A a \in Addresses, r \in FlowRoutes : Flows!CookieOf(a) # Flows!CookieOf(r)
    /\ \A x \in Addresses \cup FlowRoutes : Flows!CookieOf(x) # <<"router">>
<1>1. \A x, y : Flows!CookieOf(x) = Flows!CookieOf(y) => Flows!Net(x) = Flows!Net(y)
  BY DEF Flows!CookieOf, Flows!Net
<1>2. \A x : Flows!CookieOf(x) # <<"router">>
  BY DEF Flows!CookieOf
<1>3. ASSUME NEW a \in Addresses, NEW r \in FlowRoutes PROVE Flows!CookieOf(a) # Flows!CookieOf(r)
  <2>1. a \in [start : Ips, len : 0 .. Bits, gw : Ips]
    BY FlowsAssumption
  <2>2. r \in [start : Ips, len : 0 .. Bits, gateway : Ips]
    BY FlowsAssumption
  <2>3. ("gw" \in DOMAIN a) # ("gw" \in DOMAIN r)
    BY <2>1, <2>2
  <2>4. QED
    BY <2>3 DEF Flows!CookieOf
<1>4. QED
  BY <1>1, <1>2, <1>3

(* Networks of the tables tell them apart.                                   *)
LEMMA NetsApart ==
    ASSUME NEW ads, NEW rs, NEW ms, TablesFit(ads, rs, ms),
           NEW a \in ads, NEW b \in ads, Flows!Net(a) = Flows!Net(b)
    PROVE  a = b
<1>1. a.start = b.start /\ a.len = b.len
  BY DEF Flows!Net
<1>2. Flows!In(a.gw, a)
  BY FlowsAssumption DEF TablesFit
<1>3. Flows!In(a.gw, b)
  BY <1>1, <1>2 DEF Flows!In
<1>4. QED
  BY <1>3 DEF TablesFit

-----------------------------------------------------------------------------
(* The inductive invariant holds at first.                                   *)
LEMMA FlowsStart == Flows!Init => FlowInv
BY DEF Flows!Init, FlowInv, TablesFit, DeletionFits, FlowsFit, Fixed

(* An address that is set, not overlapping others, keeps the invariant.        *)
LEMMA FlowAddressKeeps ==
    ASSUME FlowInv, NEW a \in Addresses, Flows!SetAddress(a)
    PROVE  FlowInv'
<1> DEFINE ads == interface \cup {a}
<1>1. /\ interface' = ads /\ flow' = Flows!With(flow, Flows!AddressFlows(a))
      /\ \A b \in interface : ~Flows!In(a.gw, b) /\ ~Flows!In(b.gw, a)
      /\ deletion = Flows!Idle
      /\ UNCHANGED <<route, macs, deletion>>
  BY DEF Flows!SetAddress, Flows!AddAddress
<1>2. TablesFit(ads, route, macs)
  BY <1>1 DEF FlowInv, TablesFit
<1> DEFINE old == Fixed(interface, route, macs)
           new == Flows!AddressFlows(a)
<1>3. new = {MacFlow(a), IpFlow(a), L2Flow(a)}
  BY AddressFields
<1>4. Fixed(ads, route, macs) = old \cup new
  BY <1>3 DEF Fixed
<1>5. old \subseteq flow
  BY DEF FlowInv, FlowsFit
<1>6. /\ Fixed(ads, route, macs) \subseteq Flows!With(flow, new)
      /\ \A f \in Flows!With(flow, new) : f \in Fixed(ads, route, macs) \/ f \in flow \ old
  <2> HIDE DEF ads, old, new
  <2>1. QED
    BY <1>2, <1>4, <1>5, TakePlace
<1>7. \A f \in flow \ old : IsHosted(f, ads)
  BY DEF FlowInv, FlowsFit, IsHosted
<1>8. FlowsFit'
  BY <1>1, <1>6, <1>7 DEF FlowsFit
<1>9. QED
  BY <1>1, <1>2, <1>8 DEF FlowInv, DeletionFits

(* So does a route: the default route takes the place of the flow that drops.  *)
LEMMA FlowRouteKeeps ==
    ASSUME FlowInv, NEW r \in FlowRoutes, Flows!SetRoute(r)
    PROVE  FlowInv'
<1> DEFINE rs == route \cup {r}
<1>1. /\ route' = rs /\ flow' = Flows!With(flow, {Flows!PacketInFlow(r)})
      /\ r \notin route /\ Flows!AddressOf(r.gateway) # {}
      /\ \A q \in route : Flows!Net(q) # Flows!Net(r)
      /\ deletion = Flows!Idle
      /\ UNCHANGED <<interface, macs, deletion>>
  BY DEF Flows!SetRoute, Flows!AddRoute
<1>2. TablesFit(interface, rs, macs)
  BY <1>1 DEF FlowInv, TablesFit, Flows!AddressOf
<1> DEFINE old == Fixed(interface, route, macs)
           new == {Flows!PacketInFlow(r)}
<1>3. r \notin macs
  BY <1>1 DEF FlowInv, TablesFit
<1>4. new \subseteq Fixed(interface, rs, macs) /\ Fixed(interface, rs, macs) \subseteq old \cup new
  BY <1>3 DEF Fixed, RouteFlow
<1>5. \A f \in old : f \in Fixed(interface, rs, macs) \/ \E g \in new : Key(f) = Key(g)
  <2>1. \A f \in old : f \in Fixed(interface, rs, macs) \/ (f = Flows!DropFlow /\ r.len = 0)
    BY DEF Fixed
  <2>2. r.len = 0 => Key(Flows!DropFlow) = Key(Flows!PacketInFlow(r))
    BY RouteFields, OtherFields DEF Key
  <2>3. QED
    BY <2>1, <2>2
<1>6. old \subseteq flow
  BY DEF FlowInv, FlowsFit
<1>7. /\ Fixed(interface, rs, macs) \subseteq Flows!With(flow, new)
      /\ \A f \in Flows!With(flow, new) : f \in Fixed(interface, rs, macs) \/ f \in flow \ old
  <2> HIDE DEF rs, old, new
  <2>1. QED
    BY <1>2, <1>4, <1>5, <1>6, TakePlace
<1>8. FlowsFit'
  BY <1>1, <1>7 DEF FlowInv, FlowsFit
<1>9. QED
  BY <1>1, <1>2, <1>8 DEF FlowInv, DeletionFits

(* So does the request for the flows of what will be deleted.                 *)
LEMMA FlowAskKeeps ==
    ASSUME FlowInv, NEW rows,
           \/ Flows!AskDelete("address", rows) /\ rows \subseteq interface
           \/ Flows!AskDelete("route", rows) /\ rows \subseteq route
    PROVE  FlowInv'
<1>1. UNCHANGED <<interface, route, macs, flow>>
  BY DEF Flows!AskDelete
<1>2. DeletionFits'
  <2>1. CASE Flows!AskDelete("route", rows) /\ rows \subseteq route
    BY <1>1, <2>1 DEF Flows!AskDelete, DeletionFits
  <2>2. CASE Flows!AskDelete("address", rows) /\ rows \subseteq interface
    <3>1. PICK free : free = {a \in rows : ~Flows!Related(a)}
      OBVIOUS
    <3>2. deletion' = [what |-> "address", rows |-> free] /\ free \subseteq interface
      BY <2>2, <3>1 DEF Flows!AskDelete
    <3>3. \A a \in free : \A r \in route : ~Flows!In(r.gateway, a)
      BY <3>1 DEF Flows!Related, Flows!GatewaysOf
    <3>4. QED
      BY <1>1, <3>2, <3>3 DEF DeletionFits
  <2>3. QED
    BY <2>1, <2>2
<1>3. QED
  BY <1>1, <1>2 DEF FlowInv, FlowsFit

(* Addresses go, none of which is a gateway's.                               *)
LEMMA FlowAddressesGo ==
    ASSUME FlowInv, Flows!DeleteAddresses
    PROVE  FlowInv'
<1>1. PICK rows : /\ deletion = [what |-> "address", rows |-> rows]
                  /\ rows \subseteq interface
                  /\ \A a \in rows : \A r \in route : ~Flows!In(r.gateway, a)
  BY DEF FlowInv, DeletionFits, Flows!DeleteAddresses, Flows!Idle
<1> DEFINE ads == interface \ rows
<1>2. /\ interface' = ads /\ flow' = Flows!FlowsWithout(rows) /\ deletion' = Flows!Idle
      /\ UNCHANGED <<route, macs>>
  BY <1>1 DEF Flows!DeleteAddresses
<1>3. TablesFit(ads, route, macs)
  BY <1>1 DEF FlowInv, TablesFit
<1>4. ASSUME NEW a \in ads, NEW b \in rows PROVE Flows!CookieOf(a) # Flows!CookieOf(b)
  <2>1. a \in interface /\ b \in interface /\ a # b /\ a \in Addresses /\ b \in Addresses
    BY <1>1 DEF FlowInv, TablesFit
  <2>2. Flows!Net(a) # Flows!Net(b)
    BY <2>1, NetsApart DEF FlowInv
  <2>3. QED
    BY <2>1, <2>2, Cookies
<1>5. ASSUME NEW f \in Fixed(ads, route, macs), NEW b \in rows PROVE f.cookie # Flows!CookieOf(b)
  <2>1. b \in Addresses
    BY <1>1 DEF FlowInv, TablesFit
  <2>2. CASE \E a \in ads : f \in {MacFlow(a), IpFlow(a), L2Flow(a)}
    <3>1. PICK a \in ads : f \in {MacFlow(a), IpFlow(a), L2Flow(a)}
      BY <2>2
    <3>2. a \in Addresses
      BY DEF FlowInv, TablesFit
    <3>3. f.cookie = Flows!CookieOf(a)
      BY <3>1, <3>2, AddressFields
    <3>4. QED
      BY <1>4, <3>3
  <2>3. CASE \E r \in route : f = RouteFlow(r, macs)
    <3>1. PICK r \in route : f = RouteFlow(r, macs)
      BY <2>3
    <3>2. r \in FlowRoutes
      BY DEF FlowInv, TablesFit
    <3>3. f.cookie = Flows!CookieOf(r)
      BY <3>1, <3>2, RouteFields DEF RouteFlow
    <3>4. QED
      BY <2>1, <3>2, <3>3, Cookies
  <2>4. CASE f \in {Flows!NormalFlow, Flows!DropFlow}
    BY <2>1, <2>4, Cookies, OtherFields
  <2>5. QED
    BY <2>2, <2>3, <2>4 DEF Fixed
<1>6. Fixed(ads, route, macs) \subseteq flow
  BY DEF FlowInv, FlowsFit, Fixed
<1>7. Fixed(ads, route, macs) \subseteq flow'
  BY <1>2, <1>5, <1>6 DEF Flows!FlowsWithout
<1>8. ASSUME NEW f \in flow' PROVE f \in Fixed(ads, route, macs) \/ IsHosted(f, ads)
  <2>1. f \in flow /\ \A b \in rows : f.cookie # Flows!CookieOf(b)
    BY <1>2 DEF Flows!FlowsWithout
  <2>2. ASSUME NEW b \in rows, NEW i
        PROVE  /\ f \notin {MacFlow(b), IpFlow(b), L2Flow(b)}
               /\ f # Flows!HostFlow(b, i)
    <3>1. b \in Addresses
      BY <1>1 DEF FlowInv, TablesFit
    <3>2. QED
      BY <2>1, <3>1, AddressFields
  <2>3. CASE IsHosted(f, interface)
    BY <2>2, <2>3 DEF IsHosted
  <2>4. CASE f \in Fixed(interface, route, macs)
    BY <2>2, <2>4 DEF Fixed
  <2>5. QED
    BY <2>1, <2>3, <2>4 DEF FlowInv, FlowsFit
<1>9. QED
  BY <1>2, <1>3, <1>7, <1>8 DEF FlowInv, DeletionFits, FlowsFit

(* Routes go; the default route leaves the flow that drops.                  *)
LEMMA FlowRoutesGo ==
    ASSUME FlowInv, Flows!DeleteRoutes
    PROVE  FlowInv'
<1>1. PICK rows : deletion = [what |-> "route", rows |-> rows] /\ rows \subseteq route
  BY DEF FlowInv, DeletionFits, Flows!DeleteRoutes, Flows!Idle
<1> DEFINE rs == route \ rows
           ms == macs \ rows
           fs == Flows!FlowsWithout(rows)
           new == IF \E r \in rows : r.len = 0 THEN {Flows!DropFlow} ELSE {}
           old == Fixed(interface, route, macs) \cap fs
<1>2. /\ route' = rs /\ macs' = ms /\ flow' = Flows!With(fs, new) /\ deletion' = Flows!Idle
      /\ UNCHANGED interface
  BY <1>1 DEF Flows!DeleteRoutes
<1>3. TablesFit(interface, rs, ms)
  BY <1>1 DEF FlowInv, TablesFit
<1>4. ASSUME NEW r \in rs, NEW q \in rows PROVE Flows!CookieOf(r) # Flows!CookieOf(q)
  <2>1. r \in FlowRoutes /\ q \in FlowRoutes /\ r # q /\ r \in route /\ q \in route
    BY <1>1 DEF FlowInv, TablesFit
  <2>2. Flows!Net(r) # Flows!Net(q)
    BY <2>1 DEF FlowInv, TablesFit
  <2>3. QED
    BY <2>1, <2>2, Cookies
<1>5. ASSUME NEW r \in rs PROVE RouteFlow(r, ms) = RouteFlow(r, macs) /\ RouteFlow(r, macs) \in fs
  <2>1. RouteFlow(r, ms) = RouteFlow(r, macs)
    BY DEF RouteFlow
  <2>2. r \in FlowRoutes /\ RouteFlow(r, macs) \in flow
    BY DEF FlowInv, TablesFit, FlowsFit, Fixed
  <2>3. RouteFlow(r, macs).cookie = Flows!CookieOf(r)
    BY <2>2, RouteFields DEF RouteFlow
  <2>4. QED
    BY <1>4, <2>1, <2>2, <2>3 DEF Flows!FlowsWithout
<1>6. ASSUME NEW q \in rows PROVE q \in FlowRoutes
  BY <1>1 DEF FlowInv, TablesFit
<1>7. ASSUME NEW a \in interface PROVE {MacFlow(a), IpFlow(a), L2Flow(a)} \subseteq fs
  <2>1. a \in Addresses /\ {MacFlow(a), IpFlow(a), L2Flow(a)} \subseteq flow
    BY DEF FlowInv, TablesFit, FlowsFit, Fixed
  <2>2. \A f \in {MacFlow(a), IpFlow(a), L2Flow(a)} : f.cookie = Flows!CookieOf(a)
    BY <2>1, AddressFields
  <2>3. \A q \in rows : Flows!CookieOf(a) # Flows!CookieOf(q)
    BY <1>6, <2>1, Cookies
  <2>4. QED
    BY <2>1, <2>2, <2>3 DEF Flows!FlowsWithout
<1>8. /\ Flows!NormalFlow \in fs
      /\ Flows!DropFlow \in flow => Flows!DropFlow \in fs
  <2>1. Flows!NormalFlow \in flow
    BY DEF FlowInv, FlowsFit, Fixed
  <2>2. \A q \in rows : Flows!CookieOf(q) # <<"router">>
    BY <1>6, Cookies
  <2>3. Flows!NormalFlow.cookie = <<"router">> /\ Flows!DropFlow.cookie = <<"router">>
    BY OtherFields
  <2>4. QED
    BY <2>1, <2>2, <2>3 DEF Flows!FlowsWithout
<1>9. (\A r \in rs : r.len # 0) => Flows!DropFlow \in old \cup new
  <2>1. SUFFICES ASSUME \A r \in rs : r.len # 0, \A q \in rows : q.len # 0
                 PROVE  Flows!DropFlow \in old
    OBVIOUS
  <2>2. \A r \in route : r.len # 0
    BY <2>1
  <2>3. Flows!DropFlow \in Fixed(interface, route, macs) /\ Flows!DropFlow \in flow
    BY <2>2 DEF FlowInv, FlowsFit, Fixed
  <2>4. QED
    BY <1>8, <2>3
<1>10. ASSUME NEW r \in rs, NEW q \in rows PROVE ~(r.len = 0 /\ q.len = 0)
  <2>1. SUFFICES ASSUME r.len = 0, q.len = 0 PROVE FALSE
    OBVIOUS
  <2>2. r \in FlowRoutes /\ q \in FlowRoutes /\ r # q /\ r \in route /\ q \in route
    BY <1>1 DEF FlowInv, TablesFit
  <2>3. Flows!Net(r) = Flows!Net(q)
    BY <2>1, <2>2, RouteFields
  <2>4. QED
    BY <2>2, <2>3 DEF FlowInv, TablesFit
<1>11. new \subseteq Fixed(interface, rs, ms)
  BY <1>10 DEF Fixed
<1>12. Fixed(interface, rs, ms) \subseteq old \cup new
  <2>1. ASSUME NEW f \in Fixed(interface, rs, ms), f # Flows!DropFlow PROVE f \in old
    BY <1>5, <1>7, <1>8, <2>1 DEF Fixed
  <2>2. ASSUME Flows!DropFlow \in Fixed(interface, rs, ms), Flows!DropFlow \notin old \cup new
        PROVE  FALSE
    <3>1. CASE \A r \in rs : r.len # 0
      BY <1>9, <2>2, <3>1
    <3>2. CASE ~\A r \in rs : r.len # 0
      BY <1>5, <1>7, <1>8, <2>2, <3>2 DEF Fixed
    <3>3. QED
      BY <3>1, <3>2
  <2>3. QED
    BY <2>1, <2>2
<1>13. \A f \in old : f \in Fixed(interface, rs, ms) \/ \E g \in new : Key(f) = Key(g)
  <2>1. ASSUME NEW f \in old, NEW r \in rows PROVE f # RouteFlow(r, macs)
    <3>1. RouteFlow(r, macs).cookie = Flows!CookieOf(r)
      BY <1>6, RouteFields DEF RouteFlow
    <3>2. QED
      BY <3>1 DEF Flows!FlowsWithout
  <2>2. ASSUME NEW f \in old PROVE f \in Fixed(interface, rs, ms)
    BY <1>5, <2>1 DEF Fixed
  <2>3. QED
    BY <2>2
<1>14. old \subseteq fs
  OBVIOUS
<1>15. /\ Fixed(interface, rs, ms) \subseteq Flows!With(fs, new)
       /\ \A f \in Flows!With(fs, new) : f \in Fixed(interface, rs, ms) \/ f \in fs \ old
  <2> HIDE DEF rs, ms, fs, old, new
  <2>1. QED
    BY <1>3, <1>11, <1>12, <1>13, <1>14, TakePlace
<1>16. \A f \in fs \ old : IsHosted(f, interface)
  BY DEF FlowInv, FlowsFit, Flows!FlowsWithout
<1>17. FlowsFit'
  BY <1>2, <1>15, <1>16 DEF FlowsFit
<1>18. QED
  BY <1>2, <1>3, <1>17 DEF FlowInv, DeletionFits

(* The MAC of a gateway or of a host becomes known.                          *)
LEMMA FlowArpKeeps ==
    ASSUME FlowInv, NEW i \in FlowHosts, NEW reply, Flows!ArpIn(i, reply)
    PROVE  FlowInv'
<1>1. UNCHANGED <<interface, route, deletion>>
  BY DEF Flows!ArpIn
<1>2. CASE Flows!UpdateRoutingTbl(i)
  <2> DEFINE found == {r \in route : r.gateway = i} \ macs
             ms == macs \cup found
             new == {Flows!RoutingFlow(r) : r \in found}
             old == Fixed(interface, route, macs)
  <2>1. macs' = ms /\ flow' = Flows!With(flow, new)
    BY <1>2 DEF Flows!UpdateRoutingTbl
  <2>2. TablesFit(interface, route, ms)
    BY DEF FlowInv, TablesFit
  <2>3. \A r \in found : RouteFlow(r, ms) = Flows!RoutingFlow(r) /\ RouteFlow(r, macs) = Flows!PacketInFlow(r)
    BY DEF RouteFlow
  <2>4. \A r \in route \ found : RouteFlow(r, ms) = RouteFlow(r, macs)
    BY DEF RouteFlow
  <2>5. new \subseteq Fixed(interface, route, ms)
    BY <2>3 DEF Fixed
  <2>6. Fixed(interface, route, ms) \subseteq old \cup new
    <3>1. ASSUME NEW r \in route PROVE RouteFlow(r, ms) \in old \cup new
      BY <2>3, <2>4 DEF Fixed
    <3>2. QED
      BY <3>1 DEF Fixed
  <2>7. \A f \in old : f \in Fixed(interface, route, ms) \/ \E g \in new : Key(f) = Key(g)
    <3>1. ASSUME NEW r \in found PROVE Key(Flows!PacketInFlow(r)) = Key(Flows!RoutingFlow(r))
      <4>1. r \in FlowRoutes
        BY DEF FlowInv, TablesFit
      <4>2. QED
        BY <4>1, RouteFields DEF Key
    <3>2. ASSUME NEW r \in route
          PROVE  \/ RouteFlow(r, macs) \in Fixed(interface, route, ms)
                 \/ \E g \in new : Key(RouteFlow(r, macs)) = Key(g)
      <4>1. CASE r \in found
        BY <2>3, <3>1, <4>1
      <4>2. CASE r \notin found
        BY <2>4, <4>2 DEF Fixed
      <4>3. QED
        BY <4>1, <4>2
    <3>3. QED
      BY <3>2 DEF Fixed
  <2>8. old \subseteq flow
    BY DEF FlowInv, FlowsFit
  <2>9. /\ Fixed(interface, route, ms) \subseteq Flows!With(flow, new)
        /\ \A f \in Flows!With(flow, new) : f \in Fixed(interface, route, ms) \/ f \in flow \ old
    <3> HIDE DEF ms, old, new
    <3>1. QED
      BY <2>2, <2>5, <2>6, <2>7, <2>8, TakePlace
  <2>10. FlowsFit'
    BY <1>1, <2>1, <2>9 DEF FlowInv, FlowsFit
  <2>11. QED
    BY <1>1, <2>1, <2>2, <2>10 DEF FlowInv, DeletionFits
<1>3. CASE Flows!LearningHostMac(i)
  <2> DEFINE new == {Flows!HostFlow(a, i) : a \in Flows!AddressOf(i)}
  <2>1. macs' = macs /\ flow' = Flows!With(flow, new)
    BY <1>3 DEF Flows!LearningHostMac
  <2>2. i \in Ips
    BY FlowsAssumption
  <2>3. \A g \in new : IsHosted(g, interface)
    BY <2>2 DEF IsHosted, Flows!AddressOf
  <2>4. ASSUME NEW f \in Fixed(interface, route, macs), NEW g \in new PROVE Key(f) # Key(g)
    <3>1. PICK a \in Flows!AddressOf(i) : g = Flows!HostFlow(a, i)
      OBVIOUS
    <3>2. a \in Addresses
      BY DEF FlowInv, TablesFit, Flows!AddressOf
    <3>3. QED
      BY <3>1, <3>2, HostsApart DEF FlowInv
  <2>5. Fixed(interface, route, macs) \subseteq flow'
    <3> HIDE DEF new
    <3>1. QED
      BY <2>1, <2>4, Added DEF FlowInv, FlowsFit
  <2>6. \A f \in flow' : f \in Fixed(interface, route, macs) \/ IsHosted(f, interface)
    <3> HIDE DEF new
    <3>1. QED
      BY <2>1, <2>3, Added DEF FlowInv, FlowsFit
  <2>7. FlowsFit'
    BY <1>1, <2>1, <2>5, <2>6 DEF FlowsFit
  <2>8. QED
    BY <1>1, <2>1, <2>7 DEF FlowInv, DeletionFits
<1>4. QED
  BY <1>2, <1>3 DEF Flows!ArpIn

(* So does a flow of a host that was not used for a while.                    *)
LEMMA FlowTimesOut ==
    ASSUME FlowInv, NEW i, Flows!IdleTimeout(i)
    PROVE  FlowInv'
<1>1. /\ flow' = {f \in flow : f.prio # 3 + Bits \/ f.dst # Flows!HostNet(i)}
      /\ UNCHANGED <<interface, route, macs, deletion>>
  BY Priorities DEF Flows!IdleTimeout
<1>2. ASSUME NEW f \in Fixed(interface, route, macs) PROVE f.prio # 3 + Bits
  <2>1. Kind(f, interface, route, macs)
    BY FlowKinds DEF FlowInv
  <2>2. QED
    BY <2>1, PowersAssumption DEF Kind
<1>3. FlowsFit'
  BY <1>1, <1>2 DEF FlowInv, FlowsFit
<1>4. QED
  BY <1>1, <1>3 DEF FlowInv, DeletionFits

(* Each step keeps the invariant.                                            *)
LEMMA FlowStep == FlowInv /\ [Flows!Next]_flowVars => FlowInv'
<1> SUFFICES ASSUME FlowInv, [Flows!Next]_flowVars PROVE FlowInv'
  OBVIOUS
<1>1. ASSUME UNCHANGED <<interface, route, macs, flow, deletion>> PROVE FlowInv'
  BY <1>1 DEF FlowInv, FlowsFit, DeletionFits
<1>2. ASSUME NEW a \in Addresses, Flows!SetAddress(a) PROVE FlowInv'
  BY <1>2, FlowAddressKeeps
<1>3. ASSUME NEW r \in FlowRoutes, Flows!SetRoute(r) PROVE FlowInv'
  BY <1>3, FlowRouteKeeps
<1>4. CASE \/ Flows!AskDelete("address", interface) \/ Flows!AskDelete("route", route)
           \/ \E a \in interface : Flows!AskDelete("address", {a})
           \/ \E r \in route : Flows!AskDelete("route", {r})
  <2>1. \E rows : \/ Flows!AskDelete("address", rows) /\ rows \subseteq interface
                  \/ Flows!AskDelete("route", rows) /\ rows \subseteq route
    BY <1>4
  <2>2. QED
    BY <2>1, FlowAskKeeps
<1>5. CASE Flows!DeleteAddresses \/ Flows!DeleteRoutes
  BY <1>5, FlowAddressesGo, FlowRoutesGo
<1>6. ASSUME NEW i, Flows!Timeout(i) PROVE FlowInv'
  BY <1>1, <1>6 DEF Flows!Timeout
<1>7. ASSUME NEW i \in FlowHosts, Flows!IdleTimeout(i) PROVE FlowInv'
  BY <1>7, FlowTimesOut
<1>8. ASSUME NEW i \in FlowHosts, Flows!ArpIn(i, TRUE) \/ Flows!ArpIn(i, FALSE) PROVE FlowInv'
  BY <1>8, FlowArpKeeps
<1>9. ASSUME NEW pkt \in FlowPackets, Flows!PacketIn(pkt[1], pkt[2]) PROVE FlowInv'
  BY <1>1, <1>9 DEF Flows!PacketIn
<1>10. CASE UNCHANGED flowVars
  BY <1>1, <1>10 DEF flowVars
<1>11. QED
  BY <1>2, <1>3, <1>4, <1>5, <1>6, <1>7, <1>8, <1>9, <1>10 DEF Flows!Next

-----------------------------------------------------------------------------
(* A route is in macs with its gateway in an internal network.               *)
LEMMA FlowAnswers == FlowInv => Flows!Answered
<1> SUFFICES ASSUME FlowInv, NEW pkt \in FlowPackets, NEW mac \in Flows!Neighbours(pkt[1])
             PROVE  LET replies == Flows!Replies(pkt, mac) IN
                    /\ {x.type : x \in replies} = {"time exceeded"} \cup
                          IF pkt[2] \in Flows!RouterPorts THEN {"echo reply", "port unreachable"}
                                                         ELSE {"host unreachable"}
                    /\ \A x \in replies :
                          IF x.type \in {"echo reply", "port unreachable"} THEN x.from = pkt[2]
                          ELSE \E a \in Flows!AddressOf(mac) : x.from = a.gw
  BY DEF Flows!Answered
<1>1. PICK from : from = Flows!SendPortIp(pkt[1], mac)
  OBVIOUS
<1>2. from = {a.gw : a \in Flows!AddressOf(mac)} /\ Flows!AddressOf(mac) # {}
  <2>1. CASE Flows!AddressOf(pkt[1]) # {}
    BY <1>1, <2>1 DEF Flows!SendPortIp, Flows!Neighbours
  <2>2. CASE Flows!AddressOf(pkt[1]) = {}
    <3>1. PICK r \in macs : r.gateway = mac
      BY <2>2 DEF Flows!Neighbours, Flows!GatewaysOf
    <3>2. Flows!AddressOf(mac) # {}
      BY <3>1 DEF FlowInv, TablesFit, Flows!AddressOf
    <3>3. {q.gateway : q \in {p \in macs : p.gateway = mac}} = {mac}
      BY <3>1
    <3>4. UNION {Flows!AddressOf(g) : g \in {mac}} = Flows!AddressOf(mac)
      OBVIOUS
    <3>5. QED
      BY <1>1, <2>2, <3>2, <3>3, <3>4 DEF Flows!SendPortIp
  <2>3. QED
    BY <2>1, <2>2
<1>3. from # {} /\ \A i \in from : \E a \in Flows!AddressOf(mac) : i = a.gw
  BY <1>2
<1>4. PICK replies : replies = Flows!Replies(pkt, mac)
  OBVIOUS
<1> DEFINE toRouter == pkt[2] \in Flows!RouterPorts
<1>5. ASSUME NEW x \in replies
      PROVE  \/ x.type = "time exceeded" /\ x.from \in from
             \/ toRouter /\ x.type \in {"echo reply", "port unreachable"} /\ x.from = pkt[2]
             \/ ~toRouter /\ x.type = "host unreachable" /\ x.from \in from
  <2>1. CASE \E i \in from : x = Flows!SendIcmp("time exceeded", i, pkt, mac)
    <3>1. PICK i \in from : x = Flows!SendIcmp("time exceeded", i, pkt, mac)
      BY <2>1
    <3>2. x.type = "time exceeded" /\ x.from = i
      BY <3>1 DEF Flows!SendIcmp
    <3>3. QED
      BY <3>2
  <2>2. CASE toRouter /\ x = Flows!SendIcmp("echo reply", pkt[2], pkt, mac)
    <3>1. x.type = "echo reply" /\ x.from = pkt[2]
      BY <2>2 DEF Flows!SendIcmp
    <3>2. QED
      BY <2>2, <3>1
  <2>3. CASE toRouter /\ x = Flows!SendIcmp("port unreachable", pkt[2], pkt, mac)
    <3>1. x.type = "port unreachable" /\ x.from = pkt[2]
      BY <2>3 DEF Flows!SendIcmp
    <3>2. QED
      BY <2>3, <3>1
  <2>4. CASE ~toRouter /\ \E i \in from : x = Flows!SendIcmp("host unreachable", i, pkt, mac)
    <3>1. PICK i \in from : x = Flows!SendIcmp("host unreachable", i, pkt, mac)
      BY <2>4
    <3>2. x.type = "host unreachable" /\ x.from = i
      BY <3>1 DEF Flows!SendIcmp
    <3>3. QED
      BY <2>4, <3>2
  <2>5. QED
    BY <1>1, <1>4, <2>1, <2>2, <2>3, <2>4
    DEF Flows!Replies, Flows!InvalidTtlReply, Flows!IcmpReply, Flows!TcpUdpReply,
        Flows!IcmpUnreachError
<1>6. /\ \E x \in replies : x.type = "time exceeded"
      /\ toRouter => /\ \E x \in replies : x.type = "echo reply"
                     /\ \E x \in replies : x.type = "port unreachable"
      /\ ~toRouter => \E x \in replies : x.type = "host unreachable"
  <2>1. PICK i : i \in from
    BY <1>3
  <2>2. Flows!SendIcmp("time exceeded", i, pkt, mac) \in replies
    BY <1>1, <1>4, <2>1 DEF Flows!Replies, Flows!InvalidTtlReply
  <2>3. ASSUME toRouter
        PROVE  /\ Flows!SendIcmp("echo reply", pkt[2], pkt, mac) \in replies
               /\ Flows!SendIcmp("port unreachable", pkt[2], pkt, mac) \in replies
    BY <1>4, <2>3 DEF Flows!Replies, Flows!IcmpReply, Flows!TcpUdpReply
  <2>4. ASSUME ~toRouter PROVE Flows!SendIcmp("host unreachable", i, pkt, mac) \in replies
    BY <1>1, <1>4, <2>1, <2>4 DEF Flows!Replies, Flows!IcmpUnreachError
  <2>5. QED
    BY <2>2, <2>3, <2>4 DEF Flows!SendIcmp
<1>7. \A x \in replies :
         IF x.type \in {"echo reply", "port unreachable"} THEN x.from = pkt[2]
         ELSE \E a \in Flows!AddressOf(mac) : x.from = a.gw
  BY <1>3, <1>5
<1>8. {x.type : x \in replies} =
         {"time exceeded"} \cup IF toRouter THEN {"echo reply", "port unreachable"}
                                           ELSE {"host unreachable"}
  <2> HIDE DEF toRouter
  <2>1. CASE toRouter
    BY <1>5, <1>6, <2>1
  <2>2. CASE ~toRouter
    BY <1>5, <1>6, <2>2
  <2>3. QED
    BY <2>1, <2>2
<1>9. QED
  BY <1>4, <1>7, <1>8

-----------------------------------------------------------------------------
\* Routes other than the default route lead out of the internal networks.
RoutesLeadOut ==
    \A r \in FlowRoutes, a \in Addresses, pkt \in FlowPackets :
        Flows!In(pkt[2], r) /\ Flows!In(pkt[2], a) => r.len = 0

(* The flow of the highest priority is the one that is meant.                *)
IsBest(src, dst, best, action) ==
    /\ best \in flow /\ best.action = action
    /\ Flows!In(src, best.src) /\ Flows!In(dst, best.dst)
    /\ \A f \in flow :
          Flows!In(src, f.src) /\ Flows!In(dst, f.dst) =>
             f.prio <= best.prio /\ (best.prio <= f.prio => f.action = action)

(* The packet then meets what that flow does, and nothing else.               *)
LEMMA TheBest ==
    ASSUME NEW src, NEW dst, NEW action, NEW best, IsBest(src, dst, best, action)
    PROVE  {f.action : f \in Flows!Best(src, dst)} = {action}
<1>1. best \in Flows!Best(src, dst) /\ best.action = action
  BY DEF Flows!Best, IsBest
<1>2. ASSUME NEW f \in Flows!Best(src, dst) PROVE f.action = action
  <2>1. /\ f \in flow /\ Flows!In(src, f.src) /\ Flows!In(dst, f.dst) /\ best.prio <= f.prio
        /\ best \in flow
    BY DEF Flows!Best, IsBest
  <2>2. QED
    BY <2>1 DEF IsBest
<1>3. QED
  BY <1>1, <1>2

(* A network of the tables is one whatever else the row has.                 *)
LEMMA InNet == \A i, x : Flows!In(i, Flows!Net(x)) <=> Flows!In(i, x)
BY DEF Flows!In, Flows!Net

(* If a route leads to an IP, there is a longest one.                        *)
LEMMA LongestExists ==
    ASSUME FlowInv, NEW i, NEW s \in route, Flows!In(i, s)
    PROVE  Flows!LongestRoute(i) # {}
<1>1. PICK matching : matching = {q \in route : Flows!In(i, q)}
  OBVIOUS
<1>2. \A q \in route : q \in FlowRoutes /\ q.len \in 0 .. Bits
  BY FlowsAssumption DEF FlowInv, TablesFit
<1>3. PICK T : T = {Bits - q.len : q \in matching}
  OBVIOUS
<1>4. T \in SUBSET Nat /\ T # {}
  BY <1>1, <1>2, <1>3, PowersAssumption
<1>5. PICK x \in T : \A y \in T : x <= y
  BY <1>4, LeastNatural
<1>6. PICK r \in matching : x = Bits - r.len
  BY <1>3, <1>5
<1>7. ASSUME NEW q \in route \ {r}, Flows!In(i, q) PROVE r.len > q.len
  <2>1. q \in matching /\ r \in route /\ Flows!In(i, r)
    BY <1>1, <1>7
  <2>2. x <= Bits - q.len
    BY <1>3, <1>5, <2>1
  <2>3. q.len <= r.len
    BY <1>2, <1>6, <2>1, <2>2, PowersAssumption
  <2>4. ASSUME q.len = r.len PROVE FALSE
    <3>1. q.start = r.start
      BY <1>7, <2>1, <2>4 DEF Flows!In
    <3>2. Flows!Net(q) = Flows!Net(r)
      BY <2>4, <3>1 DEF Flows!Net
    <3>3. QED
      BY <2>1, <3>2 DEF FlowInv, TablesFit
  <2>5. QED
    BY <1>2, <2>1, <2>3, <2>4
<1>8. r \in Flows!LongestRoute(i)
  BY <1>1, <1>7 DEF Flows!LongestRoute, Flows!Longer
<1>9. QED
  BY <1>8

(* The flows that a packet can meet.                                         *)
LEMMA FlowsMet ==
    ASSUME FlowInv, NEW i \in Ips, NEW f \in flow, Flows!In(i, f.dst)
    PROVE  \/ f.prio = 0
           \/ f.prio = 1 /\ f.action = <<"drop">> /\ \A r \in route : r.len # 0
           \/ \E a \in interface : /\ Flows!In(i, a) /\ f.prio = 2
                                    /\ f.action = <<"controller">>
           \/ \E a \in interface : /\ i = a.gw /\ f.prio = 1005 + Bits
                                    /\ f.action = <<"controller">>
           \/ \E a \in interface : /\ Flows!In(i, a) /\ f.prio = 4 + Bits
                                    /\ f.action = <<"normal">> /\ f.src = Flows!Net(a)
           \/ \E r \in route : /\ f = RouteFlow(r, macs) /\ Flows!In(i, r)
                                /\ f.prio = 1 /\ r.len = 0
           \/ \E r \in route : /\ f = RouteFlow(r, macs) /\ Flows!In(i, r)
                                /\ f.prio = 2 + r.len /\ r.len \in 1 .. Bits
           \/ \E a \in interface : /\ Flows!In(i, a) /\ f = Flows!HostFlow(a, i)
                                    /\ f.prio = 3 + Bits /\ f.action = <<"out", i>>
<1>1. ASSUME NEW j \in Ips, Flows!In(i, Flows!HostNet(j)) PROVE i = j
  BY <1>1, Ends
<1>2. ASSUME NEW a \in interface
      PROVE  a \in Addresses /\ a.gw \in Ips
  BY FlowsAssumption DEF FlowInv, TablesFit
<1>3. CASE f \in Fixed(interface, route, macs)
  <2>1. Kind(f, interface, route, macs)
    BY <1>3, FlowKinds DEF FlowInv
  <2>2. CASE f = Flows!DropFlow /\ f.prio = 1 /\ \A r \in route : r.len # 0
    BY <2>2, OtherFields
  <2>3. CASE \E a \in interface : f = MacFlow(a) /\ f.prio = 2 /\ f.dst = Flows!Net(a)
    BY <1>2, <2>3, AddressFields, InNet
  <2>4. CASE \E a \in interface :
                f = IpFlow(a) /\ f.prio = 1005 + Bits /\ f.dst = Flows!HostNet(a.gw)
    BY <1>1, <1>2, <2>4, AddressFields
  <2>5. CASE \E a \in interface : f = L2Flow(a) /\ f.prio = 4 + Bits /\ f.dst = Flows!Net(a)
    BY <1>2, <2>5, AddressFields, InNet
  <2>6. CASE \E r \in route : /\ f = RouteFlow(r, macs) /\ f.dst = Flows!Net(r)
                              /\ f.prio = 1 /\ r.len = 0
    BY <2>6, InNet
  <2>7. CASE \E r \in route : /\ f = RouteFlow(r, macs) /\ f.dst = Flows!Net(r)
                              /\ f.prio = 2 + r.len /\ r.len \in 1 .. Bits
    BY <2>7, InNet
  <2>8. QED
    BY <2>1, <2>2, <2>3, <2>4, <2>5, <2>6, <2>7 DEF Kind
<1>4. CASE IsHosted(f, interface)
  <2>1. PICK a \in interface, j \in Ips : Flows!In(j, a) /\ f = Flows!HostFlow(a, j)
    BY <1>4 DEF IsHosted
  <2>2. /\ f.prio = 3 + Bits /\ f.action = <<"out", j>> /\ f.dst = Flows!HostNet(j)
    BY <1>2, <2>1, AddressFields
  <2>3. i = j
    BY <1>1, <2>2
  <2>4. QED
    BY <2>1, <2>2, <2>3
<1>5. QED
  BY <1>3, <1>4 DEF FlowInv, FlowsFit

(* The switch does with a packet what the tables say.                        *)
LEMMA FlowsLead == FlowInv /\ RoutesLeadOut => Flows!RightHop
<1> SUFFICES ASSUME FlowInv, RoutesLeadOut, NEW pkt \in FlowPackets,
                    NEW src, NEW dst, src = pkt[1], dst = pkt[2]
             PROVE  {f.action : f \in Flows!Best(src, dst)} = {Flows!Destiny(src, dst)}
  BY DEF Flows!RightHop
<1>1. src \in Ips /\ dst \in Ips
  BY FlowsAssumption
<1>2. Flows!In(src, Flows!AnyNet) /\ Flows!In(dst, Flows!AnyNet) /\ Flows!In(dst, Flows!HostNet(dst))
  BY <1>1, Ends
<1>3. /\ interface \subseteq Addresses /\ route \subseteq FlowRoutes
      /\ Fixed(interface, route, macs) \subseteq flow
  BY DEF FlowInv, TablesFit, FlowsFit
<1>4. \A a \in interface : MacFlow(a) \in flow /\ IpFlow(a) \in flow /\ L2Flow(a) \in flow
  BY <1>3 DEF Fixed
<1>5. \A r \in route : RouteFlow(r, macs) \in flow
  BY <1>3 DEF Fixed
<1>6. Bits \in Nat
  BY PowersAssumption
<1>7. CASE dst \in Flows!RouterPorts
  <2>1. PICK a \in interface : a.gw = dst
    BY <1>7 DEF Flows!RouterPorts
  <2>2. /\ IpFlow(a).prio = 1005 + Bits /\ IpFlow(a).src = Flows!AnyNet
        /\ IpFlow(a).dst = Flows!HostNet(dst) /\ IpFlow(a).action = <<"controller">>
    BY <1>3, <2>1, AddressFields
  <2>3. ASSUME NEW f \in flow, Flows!In(dst, f.dst)
        PROVE  f.prio <= 1005 + Bits /\ (1005 + Bits <= f.prio => f.action = <<"controller">>)
    BY <1>1, <1>6, <2>3, FlowsMet
  <2>4. {f.action : f \in Flows!Best(src, dst)} = {<<"controller">>}
    <3>1. IsBest(src, dst, IpFlow(a), <<"controller">>)
      BY <1>2, <1>4, <2>2, <2>3 DEF IsBest
    <3>2. QED
      BY <3>1, TheBest
  <2>5. QED
    BY <1>7, <2>4 DEF Flows!Destiny
<1>8. CASE dst \notin Flows!RouterPorts /\ \E a \in interface : Flows!In(src, a) /\ Flows!In(dst, a)
  <2>1. PICK a \in interface : Flows!In(src, a) /\ Flows!In(dst, a)
    BY <1>8
  <2>2. /\ L2Flow(a).prio = 4 + Bits /\ L2Flow(a).src = Flows!Net(a)
        /\ L2Flow(a).dst = Flows!Net(a) /\ L2Flow(a).action = <<"normal">>
    BY <1>3, <2>1, AddressFields
  <2>3. \A b \in interface : b.gw # dst
    BY <1>8 DEF Flows!RouterPorts
  <2>4. ASSUME NEW f \in flow, Flows!In(dst, f.dst)
        PROVE  f.prio <= 4 + Bits /\ (4 + Bits <= f.prio => f.action = <<"normal">>)
    BY <1>1, <1>6, <2>3, <2>4, FlowsMet
  <2>5. Flows!In(src, Flows!Net(a)) /\ Flows!In(dst, Flows!Net(a))
    BY <2>1, InNet
  <2>6. {f.action : f \in Flows!Best(src, dst)} = {<<"normal">>}
    <3>1. IsBest(src, dst, L2Flow(a), <<"normal">>)
      BY <1>4, <2>2, <2>4, <2>5 DEF IsBest
    <3>2. QED
      BY <3>1, TheBest
  <2>7. QED
    BY <1>8, <2>6 DEF Flows!Destiny
<1>9. CASE /\ dst \notin Flows!RouterPorts /\ Flows!AddressOf(dst) # {}
           /\ ~ \E a \in interface : Flows!In(src, a) /\ Flows!In(dst, a)
  <2>1. \A b \in interface : b.gw # dst
    BY <1>9 DEF Flows!RouterPorts
  <2>2. PICK a \in interface : Flows!In(dst, a)
    BY <1>9 DEF Flows!AddressOf
  <2>3. \A b \in interface : Flows!In(src, Flows!Net(b)) => ~Flows!In(dst, b)
    BY <1>9, InNet
  <2>4. CASE Flows!Learnt(dst)
    <3>1. PICK b \in interface : Flows!HostFlow(b, dst) \in flow
      BY <2>4 DEF Flows!Learnt
    <3>2. PICK best : best = Flows!HostFlow(b, dst)
      OBVIOUS
    <3>3. /\ best.prio = 3 + Bits /\ best.src = Flows!AnyNet
          /\ best.dst = Flows!HostNet(dst) /\ best.action = <<"out", dst>>
      BY <1>3, <3>2, AddressFields
    <3>4. ASSUME NEW f \in flow, Flows!In(dst, f.dst), Flows!In(src, f.src)
          PROVE  f.prio <= 3 + Bits /\ (3 + Bits <= f.prio => f.action = <<"out", dst>>)
      BY <1>1, <1>6, <2>1, <2>3, <3>4, FlowsMet
    <3>5. {f.action : f \in Flows!Best(src, dst)} = {<<"out", dst>>}
      <4>1. IsBest(src, dst, best, <<"out", dst>>)
        BY <1>2, <3>1, <3>2, <3>3, <3>4 DEF IsBest
      <4>2. QED
        BY <4>1, TheBest
    <3>6. QED
      BY <1>9, <2>4, <3>5 DEF Flows!Destiny
  <2>5. CASE ~Flows!Learnt(dst)
    <3>1. \A b \in interface : Flows!HostFlow(b, dst) \notin flow
      BY <2>5 DEF Flows!Learnt
    <3>2. \A r \in route : Flows!In(dst, r) => r.len = 0
      BY <1>3, <2>2 DEF RoutesLeadOut
    <3>3. /\ MacFlow(a).prio = 2 /\ MacFlow(a).src = Flows!AnyNet
          /\ MacFlow(a).dst = Flows!Net(a) /\ MacFlow(a).action = <<"controller">>
      BY <1>3, <2>2, AddressFields
    <3>4. ASSUME NEW f \in flow, Flows!In(dst, f.dst), Flows!In(src, f.src)
          PROVE  f.prio <= 2 /\ (2 <= f.prio => f.action = <<"controller">>)
      BY <1>1, <1>6, <2>1, <2>3, <3>1, <3>2, <3>4, FlowsMet
    <3>5. Flows!In(dst, Flows!Net(a))
      BY <2>2, InNet
    <3>6. {f.action : f \in Flows!Best(src, dst)} = {<<"controller">>}
      <4>1. IsBest(src, dst, MacFlow(a), <<"controller">>)
        BY <1>2, <1>4, <3>3, <3>4, <3>5 DEF IsBest
      <4>2. QED
        BY <4>1, TheBest
    <3>7. QED
      BY <1>9, <2>5, <3>6 DEF Flows!Destiny
  <2>6. QED
    BY <2>4, <2>5
<1>10. ASSUME dst \notin Flows!RouterPorts, Flows!AddressOf(dst) = {}
       PROVE  /\ \A a \in interface : ~Flows!In(dst, a) /\ a.gw # dst
              /\ ~ \E a \in interface : Flows!In(src, a) /\ Flows!In(dst, a)
  BY <1>10 DEF Flows!AddressOf, Flows!RouterPorts
<1>11. CASE /\ dst \notin Flows!RouterPorts /\ Flows!AddressOf(dst) = {}
            /\ Flows!LongestRoute(dst) = {}
  <2>1. \A r \in route : ~Flows!In(dst, r)
    BY <1>11, LongestExists
  <2>2. ASSUME NEW r \in route PROVE r.len # 0
    <3>1. r.len = 0 => Flows!Net(r) = Flows!AnyNet
      BY <1>3, RouteFields
    <3>2. QED
      BY <1>2, <2>1, <3>1, InNet
  <2>3. Flows!DropFlow \in flow
    BY <1>3, <2>2 DEF Fixed
  <2>4. /\ Flows!DropFlow.prio = 1 /\ Flows!DropFlow.src = Flows!AnyNet
        /\ Flows!DropFlow.dst = Flows!AnyNet /\ Flows!DropFlow.action = <<"drop">>
    BY OtherFields
  <2>5. ASSUME NEW f \in flow, Flows!In(dst, f.dst)
        PROVE  f.prio <= 1 /\ (1 <= f.prio => f.action = <<"drop">>)
    BY <1>1, <1>6, <1>10, <1>11, <2>1, <2>5, FlowsMet
  <2>6. {f.action : f \in Flows!Best(src, dst)} = {<<"drop">>}
    <3>1. IsBest(src, dst, Flows!DropFlow, <<"drop">>)
      BY <1>2, <2>3, <2>4, <2>5 DEF IsBest
    <3>2. QED
      BY <3>1, TheBest
  <2>7. QED
    BY <1>10, <1>11, <2>6 DEF Flows!Destiny
<1>12. CASE /\ dst \notin Flows!RouterPorts /\ Flows!AddressOf(dst) = {}
            /\ Flows!LongestRoute(dst) # {}
  <2>1. PICK r : r = CHOOSE q \in Flows!LongestRoute(dst) : TRUE
    OBVIOUS
  <2>2. r \in Flows!LongestRoute(dst)
    BY <1>12, <2>1
  <2>3. /\ r \in route /\ Flows!In(dst, r) /\ r.len \in 0 .. Bits
        /\ \A q \in route : Flows!In(dst, q) => q = r \/ q.len < r.len
    <3>1. r \in route /\ Flows!In(dst, r) /\ \A q \in route \ {r} : Flows!In(dst, q) => r.len > q.len
      BY <2>2 DEF Flows!LongestRoute, Flows!Longer
    <3>2. \A q \in route : q.len \in 0 .. Bits
      BY <1>3, FlowsAssumption
    <3>3. QED
      BY <3>1, <3>2
  <2>4. PICK best : best = RouteFlow(r, macs)
    OBVIOUS
  <2>5. PICK action : action = IF r \in macs THEN <<"out", r.gateway>> ELSE <<"controller">>
    OBVIOUS
  <2>6. /\ best.prio = Flows!RoutePriority(r) /\ best.src = Flows!AnyNet
        /\ best.dst = Flows!Net(r) /\ best.action = action
    BY <1>3, <2>3, <2>4, <2>5, RouteFields DEF RouteFlow
  <2>7. best.prio = IF r.len = 0 THEN 1 ELSE 2 + r.len
    BY <1>3, <2>3, <2>6, RouteFields
  <2>8. ASSUME NEW f \in flow, Flows!In(dst, f.dst)
        PROVE  f.prio <= best.prio /\ (best.prio <= f.prio => f.action = action)
    <3>1. \/ f.prio = 0
          \/ f.prio = 1 /\ \A q \in route : q.len # 0
          \/ \E q \in route : /\ f = RouteFlow(q, macs) /\ Flows!In(dst, q)
                               /\ f.prio = 1 /\ q.len = 0
          \/ \E q \in route : /\ f = RouteFlow(q, macs) /\ Flows!In(dst, q)
                               /\ f.prio = 2 + q.len /\ q.len \in 1 .. Bits
      BY <1>1, <1>10, <1>12, <2>8, FlowsMet
    <3>2. CASE f.prio = 0
      BY <2>3, <2>7, <3>2
    <3>3. CASE f.prio = 1 /\ \A q \in route : q.len # 0
      BY <2>3, <2>7, <3>3
    <3>4. CASE \E q \in route : /\ f = RouteFlow(q, macs) /\ Flows!In(dst, q)
                                /\ f.prio = 1 /\ q.len = 0
      BY <2>3, <2>4, <2>6, <2>7, <3>4
    <3>5. CASE \E q \in route : /\ f = RouteFlow(q, macs) /\ Flows!In(dst, q)
                                /\ f.prio = 2 + q.len /\ q.len \in 1 .. Bits
      BY <2>3, <2>4, <2>6, <2>7, <3>5
    <3>6. QED
      BY <3>1, <3>2, <3>3, <3>4, <3>5
  <2>9. Flows!In(dst, Flows!Net(r)) /\ best \in flow
    BY <1>5, <2>3, <2>4, InNet
  <2>10. {f.action : f \in Flows!Best(src, dst)} = {action}
    <3>1. IsBest(src, dst, best, action)
      BY <1>2, <2>6, <2>8, <2>9 DEF IsBest
    <3>2. QED
      BY <3>1, TheBest
  <2>11. QED
    BY <1>10, <1>12, <2>1, <2>5, <2>10 DEF Flows!Destiny
<1>13. QED
  BY <1>7, <1>8, <1>9, <1>11, <1>12

(* Every neighbour that sends to the router, or through it in vain, is        *)
(* answered from the right IP (icmp_reply, send_port_ip of rest_router.py).   *)
THEOREM NeighboursAnswered == Spec => []Answered
<1> DEFINE Inv == part = "flows" => FlowInv
<1>1. Init => Inv
  BY FlowsStart DEF Init
<1>2. Inv /\ [Next]_vars => Inv'
  BY Separate, FlowStep
<1>3. Inv => Answered
  BY FlowAnswers DEF Answered
<1>4. QED
  BY <1>1, <1>2, <1>3, PTL DEF Spec

(* The switch does with every packet what the tables of the router say, and   *)
(* a flow of a learning switch leads to its host: routes other than the       *)
(* default route lead out of the internal networks.                          *)
THEOREM RightHops ==
    ASSUME RoutesLeadOut
    PROVE  Spec => []RightHop
<1> DEFINE Inv == part = "flows" => FlowInv
           Good == part = "flows" => Flows!RightHop
<1>1. Init => Inv
  BY FlowsStart DEF Init
<1>2. Inv /\ [Next]_vars => Inv'
  BY Separate, FlowStep
<1>3. Inv => Good
  BY RoutesLeadOut, FlowsLead
<1>4. LeadsToHost /\ Answered /\ Good => RightHop
  BY DEF RightHop
<1>5. Spec => []Good
  BY <1>1, <1>2, <1>3, PTL DEF Spec
<1>6. QED
  BY <1>4, <1>5, HostsReached, NeighboursAnswered, PTL
=============================================================================
