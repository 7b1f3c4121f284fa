---------------------------- MODULE LearningSwitch -----------------------------
(***************************************************************************)
(* The learning switches: simple_switch.py and the copy for Bro, ryu.py    *)
(* (OpenFlow 1.0), and three versions of simple_switch_13.py (1.3), one    *)
(* for Chameleon that also cleans up when a port is deleted.  Each learns  *)
(* the port of a host from the packets that no flow has sent on, and       *)
(* remembers it when the switch restarts.                                  *)
(*                                                                         *)
(* Hosts are unplugged and plugged in elsewhere, and what the switch tells *)
(* is handled later, in its order.  Each flow and each port learnt carries *)
(* the number of moves that its host had made when it was heard.           *)
(***************************************************************************)
EXTENDS Naturals, Sequences

CONSTANTS
    Host, Port, Nowhere,
    Any,         \* the source of a flow for packets of all hosts
    MaxMoves,    \* bound: moves of each host
    MaxTold      \* bound: messages of the switch on their way

VARIABLES
    app,         \* the application that controls the switch
    plug,        \* per host: its port
    moves,       \* per host: how often it was plugged in anew
    mac_to_port, \* per host: [port, moves] as heard last
    flow,        \* [in, src, dst, out, moves, timed]
    ready,       \* whether the application has met the switch since it started
    told         \* messages of the switch: packets, and ports deleted

vars == <<app, plug, moves, mac_to_port, flow, ready, told>>

Version10 == {"simple_switch", "ryu"}
Version13 == {"sdnctrl_13", "simple_switch_13", "chameleon"}

Unheard == [port |-> Nowhere, moves |-> 0]
Flow(in, src, dst, out, heard, timed) ==
    [in |-> in, src |-> src, dst |-> dst, out |-> out, moves |-> heard, timed |-> timed]

Matching(in, src, dst) == {f \in flow : f.in = in /\ f.src \in {src, Any} /\ f.dst = dst}

-----------------------------------------------------------------------------
(* The switch and its hosts.  A packet that no flow sends on is told, with   *)
(* version 1.3 once the application has set the flow for such packets; a     *)
(* switch may keep it in a buffer.                                           *)
Tell(message) == Len(told) < MaxTold /\ told' = Append(told, message)

Miss(src, dst, buffered) ==
    /\ src # dst /\ plug[src] # Nowhere /\ Matching(plug[src], src, dst) = {}
    /\ app \in Version13 => ready
    /\ Tell([is |-> "packet", in |-> plug[src], src |-> src, dst |-> dst,
             moves |-> moves[src], buffered |-> buffered])
    /\ UNCHANGED <<app, plug, moves, mac_to_port, flow, ready>>

Move(h, p) ==
    /\ moves[h] < MaxMoves /\ plug[h] # p
    /\ plug' = [plug EXCEPT ![h] = p]
    /\ moves' = [moves EXCEPT ![h] = @ + 1]
    /\ UNCHANGED <<app, mac_to_port, flow, ready, told>>

(* A port is taken out of the switch.                                        *)
DeletePort(p) ==
    /\ \E h \in Host : plug[h] = p
    /\ \A h \in Host : plug[h] = p => moves[h] < MaxMoves
    /\ plug' = [h \in Host |-> IF plug[h] = p THEN Nowhere ELSE plug[h]]
    /\ moves' = [h \in Host |-> IF plug[h] = p THEN moves[h] + 1 ELSE moves[h]]
    /\ Tell([is |-> "deleted", in |-> p])
    /\ UNCHANGED <<app, mac_to_port, flow, ready>>

(* The switch starts again, without flows.                                   *)
Restart ==
    /\ flow' = {} /\ ready' = FALSE /\ told' = <<>>
    /\ UNCHANGED <<app, plug, moves, mac_to_port>>

IdleTimeout(f) ==
    /\ f.timed
    /\ flow' = flow \ {f}
    /\ UNCHANGED <<app, plug, moves, mac_to_port, ready, told>>

-----------------------------------------------------------------------------
(* switch_features_handler sets the flow for all other packets;              *)
(* datapath_handler of ryu.py looks for the port of Bro.                     *)
SwitchFeatures ==
    /\ app \in Version13 /\ ~ready
    /\ ready' = TRUE
    /\ UNCHANGED <<app, plug, moves, mac_to_port, flow, told>>

DatapathHandler ==
    /\ app = "ryu" /\ ~ready
    /\ ready' = TRUE
    /\ UNCHANGED <<app, plug, moves, mac_to_port, flow, told>>

\* A mutation: the first port of a host is remembered.
LearnFirst(m) ==
    IF mac_to_port[m.src] = Unheard
    THEN [mac_to_port EXCEPT ![m.src] = [port |-> m.in, moves |-> m.moves]]
    ELSE [mac_to_port EXCEPT ![m.src].moves = m.moves]

Learn(m) == [mac_to_port EXCEPT ![m.src] = [port |-> m.in, moves |-> m.moves]]

Add(f) == flow' = {g \in flow : <<g.in, g.src, g.dst>> # <<f.in, f.src, f.dst>>} \cup {f}

(* The flow that a packet leads to: of all sources in version 1.0; for the   *)
(* three others of one source, and with a time limit when Chameleon's switch *)
(* has the packet in a buffer.  The packet is sent on, or flooded when its   *)
(* destination was never heard.                                              *)
Target(m) == Learn(m)[m.dst]
Leading(m, src, timed) == Flow(m.in, src, m.dst, Target(m).port, Target(m).moves, timed)

AddFlow10(m) == Add(Leading(m, Any, FALSE))
AddFlow13(m) == Add(Leading(m, m.src, FALSE))
AddFlowChameleon(m) == Add(Leading(m, m.src, m.buffered))

PacketIn(names, added) ==
    LET m == Head(told) IN
    /\ app \in names /\ told # <<>> /\ m.is = "packet"
    /\ mac_to_port' = Learn(m)
    /\ IF Target(m) = Unheard THEN UNCHANGED flow ELSE added
    /\ told' = Tail(told)
    /\ UNCHANGED <<app, plug, moves, ready>>

PacketInSimple == PacketIn({"simple_switch"}, AddFlow10(Head(told)))
PacketInSdnctrl == PacketIn({"sdnctrl_13"}, AddFlow13(Head(told)))
PacketInVfc == PacketIn({"simple_switch_13"}, AddFlow13(Head(told)))
PacketInChameleon == PacketIn({"chameleon"}, AddFlowChameleon(Head(told)))

(* The flow and the packet also go to Bro; before its port is known the      *)
(* handler fails, after it has learnt.                                       *)
PacketInBro == ready /\ PacketIn({"ryu"}, AddFlow10(Head(told)))

PacketInBroFails ==
    LET m == Head(told) IN
    /\ app = "ryu" /\ ~ready /\ told # <<>> /\ m.is = "packet"
    /\ mac_to_port' = Learn(m)
    /\ told' = Tail(told)
    /\ UNCHANGED <<app, plug, moves, flow, ready>>

(* _port_status_handler: Chameleon's deletes the flows from and to the port, *)
(* but what it learnt of the port stays; the others only log.                *)
DeleteFlow(p) == {f \in flow : f.in # p /\ f.out # p}

PortStatus ==
    /\ told # <<>> /\ Head(told).is = "deleted"
    /\ flow' = IF app = "chameleon" THEN DeleteFlow(Head(told).in) ELSE flow
    /\ told' = Tail(told)
    /\ UNCHANGED <<app, plug, moves, mac_to_port, ready>>

-----------------------------------------------------------------------------
Init ==
    /\ app \in Version10 \cup Version13
    /\ plug \in [Host -> Port]
    /\ moves = [h \in Host |-> 0]
    /\ mac_to_port = [h \in Host |-> Unheard]
    /\ flow = {} /\ ready = FALSE /\ told = <<>>

Next ==
    \/ \E src, dst \in Host, buffered \in BOOLEAN : Miss(src, dst, buffered)
    \/ \E h \in Host, p \in Port : Move(h, p)
    \/ \E p \in Port : DeletePort(p)
    \/ Restart
    \/ \E f \in flow : IdleTimeout(f)
    \/ SwitchFeatures \/ DatapathHandler
    \/ PacketInSimple \/ PacketInSdnctrl \/ PacketInVfc \/ PacketInChameleon
    \/ PacketInBro \/ PacketInBroFails
    \/ PortStatus

Spec == Init /\ [][Next]_vars

-----------------------------------------------------------------------------
(* A flow that was set after the controller had heard its destination where  *)
(* it is now leads there, whatever came late and whoever else has moved: the *)
(* flows that mislead are those from before a move.                          *)
LeadsToHost ==
    \A f \in flow : f.moves = moves[f.dst] => f.out = plug[f.dst]
=============================================================================
