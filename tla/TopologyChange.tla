---------------------------- MODULE TopologyChange ----------------------------
(***************************************************************************)
(* How the bridges of stplib.py tell each other that a port began or       *)
(* stopped to forward, so that every bridge forgets the addresses it has   *)
(* learnt: a bridge notifies its parent (TCN) until it is acknowledged, the *)
(* root sets the topology change flag (TC) in its BPDUs for a time, and the *)
(* other bridges pass the flag on.  The tree is the one SpanningTree has    *)
(* built, and stays as it is: what goes up and down are ports towards hosts.*)
(***************************************************************************)
EXTENDS Naturals, Sequences

CONSTANTS
    Bridge,      \* the bridges
    Parent,      \* the parent of each bridge other than the root
    Apart,       \* TRUE: a change comes only when the one before is done with
    MaxChanges   \* bound: how often links to hosts go down or up

VARIABLES
    state,    \* state of each port
    tc,       \* send_tc_flg of each port
    tcTimer,  \* whether send_tc_timer of each port is set
    heard,    \* history: bridges that got the flag since the root's timers were set
    tcn,      \* send_tcn_flg of each port
    down,     \* per bridge: config BPDUs from its parent, not yet handled
    up,       \* per bridge: whether a TCN BPDU to its parent is not yet handled
    stale,    \* history: bridges that have not flushed since the last change
    changes   \* history: links to hosts that went down or up

vars == <<state, tc, tcTimer, heard, tcn, down, up, stale, changes>>
flags == <<tc, tcTimer, heard, tcn, stale>>

(* The ports: of a bridge towards its parent, of its parent towards it, and  *)
(* of a bridge towards its hosts.                                            *)
Child == DOMAIN Parent
Port == ({"root", "toward"} \X Child) \cup ({"edge"} \X Bridge)
BridgeOf(p) == IF p[1] = "toward" THEN Parent[p[2]] ELSE p[2]
Role(p) == IF p[1] = "root" THEN "ROOT" ELSE "DESIGNATED"
IsRootBridge(b) == b \notin Child
PortsOf(b) == {p \in Port : BridgeOf(p) = b}

-----------------------------------------------------------------------------
(* What topology_change_notify and _change_status do to the flags.  An event *)
(* EventTopologyChange of a bridge flushes it.                               *)

(* transmit_tc_bpdu on the ports of the root: a timer that runs goes on.     *)
TcSet(b) == [p \in Port |-> tc[p] \/ (IsRootBridge(b) /\ BridgeOf(p) = b)]
Opens(b, p) == IsRootBridge(b) /\ BridgeOf(p) = b /\ ~tc[p]
TimerSet(b) == [p \in Port |-> tcTimer[p] \/ Opens(b, p)]
HeardSince(b) == IF \E p \in Port : Opens(b, p) THEN {} ELSE heard

(* transmit_tcn_bpdu on the root port.                                       *)
TcnSet(b) == [p \in Port |-> tcn[p] \/ (BridgeOf(p) = b /\ Role(p) = "ROOT")]

Notify(b, before) ==
    /\ stale' = before \ {b}
    /\ tc' = TcSet(b)
    /\ tcTimer' = TimerSet(b)
    /\ heard' = HeardSince(b)
    /\ tcn' = TcnSet(b)

(* The notice that port p began to forward is for bridges with others below. *)
Notice(p, new) ==
    new # "FORWARD" \/ \E q \in PortsOf(BridgeOf(p)) : Role(q) = "DESIGNATED"

(* A port that stops to forward notifies first and then clears its own flags.*)
ChangeStatus(p, new) ==
    /\ state' = [state EXCEPT ![p] = new]
    /\ LET b == BridgeOf(p) IN
       IF new = "FORWARD" /\ Notice(p, new) THEN Notify(b, Bridge)
       ELSE IF new = "DISABLE" /\ state[p] = "FORWARD"
       THEN /\ stale' = Bridge \ {b}
            /\ tc' = [TcSet(b) EXCEPT ![p] = FALSE]
            /\ tcTimer' = [TimerSet(b) EXCEPT ![p] = FALSE]
            /\ heard' = HeardSince(b)
            /\ tcn' = [TcnSet(b) EXCEPT ![p] = FALSE]
       ELSE IF new = "DISABLE"
       THEN /\ tc' = [tc EXCEPT ![p] = FALSE]
            /\ tcTimer' = [tcTimer EXCEPT ![p] = FALSE]
            /\ tcn' = [tcn EXCEPT ![p] = FALSE]
            /\ UNCHANGED <<heard, stale>>
       ELSE UNCHANGED flags

-----------------------------------------------------------------------------
(* The state machine of a port, and the link events that restart it.         *)
NextState(p) ==
    CASE state[p] = "LISTEN" -> "LEARN"
      [] state[p] = "LEARN" -> IF Role(p) \in {"ROOT", "DESIGNATED"} THEN "FORWARD" ELSE "BLOCK"

StateMachine(p) ==
    /\ state[p] \in {"LISTEN", "LEARN"}
    /\ ChangeStatus(p, NextState(p))
    /\ UNCHANGED <<down, up, changes>>

AllDone ==
    /\ stale = {} /\ \A p \in Port : ~tc[p] /\ ~tcn[p]
    /\ \A b \in Child : down[b] = <<>> /\ ~up[b]
    /\ \A p \in Port : state[p] \in {"FORWARD", "DISABLE"}

LinkDown(b) ==
    LET p == <<"edge", b>> IN
    /\ state[p] # "DISABLE" /\ changes < MaxChanges /\ (Apart => AllDone)
    /\ ChangeStatus(p, "DISABLE")
    /\ changes' = changes + 1
    /\ UNCHANGED <<down, up>>

LinkUp(b) ==
    LET p == <<"edge", b>> IN
    /\ state[p] = "DISABLE" /\ changes < MaxChanges /\ (Apart => AllDone)
    /\ ChangeStatus(p, "LISTEN")
    /\ changes' = changes + 1
    /\ UNCHANGED <<down, up>>

-----------------------------------------------------------------------------
(* One round of _transmit_bpdu: a hello.  The root sends the flag for max_age  *)
(* + forward_delay seconds, many hellos, in which every bridge hears of it.  *)
Sends(p) == state[p] \in {"LISTEN", "LEARN", "FORWARD"}

TransmitConfig(p) ==
    /\ Sends(p) /\ Role(p) = "DESIGNATED"
    /\ p[1] = "toward" => down[p[2]] = <<>>
    /\ \E expired \in BOOLEAN :
        /\ expired => tcTimer[p] /\ heard = Child
        /\ tc' = [tc EXCEPT ![p] = @ /\ ~expired]
        /\ tcTimer' = [tcTimer EXCEPT ![p] = @ /\ ~expired]
        /\ down' = IF p[1] # "toward" THEN down
                   ELSE [down EXCEPT ![p[2]] =
                            Append(@, [tc |-> tc[p] /\ ~expired, ack |-> FALSE])]
    /\ UNCHANGED <<state, heard, tcn, up, stale, changes>>

TransmitTcn(b) ==
    /\ tcn[<<"root", b>>] /\ ~up[b] /\ Len(down[b]) < 2
    /\ up' = [up EXCEPT ![b] = TRUE]
    /\ UNCHANGED <<state, tc, tcTimer, heard, tcn, down, stale, changes>>

(* The packet-in handler: a BPDU of the parent on the root port.             *)
RcvConfigBpdu(b) ==
    /\ down[b] # <<>>
    /\ LET msg == Head(down[b]) IN
       /\ down' = [down EXCEPT ![b] = Tail(@)]
       /\ stale' = IF msg.tc THEN stale \ {b} ELSE stale
       /\ heard' = IF msg.tc THEN heard \cup {b} ELSE heard
       /\ tcn' = [tcn EXCEPT ![<<"root", b>>] = @ /\ ~msg.ack]
       /\ tc' = [p \in Port |-> IF BridgeOf(p) = b THEN msg.tc ELSE tc[p]]
    /\ UNCHANGED <<state, tcTimer, up, changes>>

\* A mutation: the notice is acknowledged and not passed on.
RcvTcnBpduKept(b) ==
    /\ up[b]
    /\ up' = [up EXCEPT ![b] = FALSE]
    /\ down' = [down EXCEPT ![b] = Append(@, [tc |-> TRUE, ack |-> TRUE])]
    /\ UNCHANGED <<state, flags, changes>>

(* The packet-in handler: a TCN BPDU from bridge b, below.                   *)
RcvTcnBpdu(b) ==
    /\ up[b]
    /\ up' = [up EXCEPT ![b] = FALSE]
    /\ down' = [down EXCEPT ![b] = Append(@, [tc |-> TRUE, ack |-> TRUE])]
    /\ Notify(Parent[b], stale)
    /\ UNCHANGED <<state, changes>>

-----------------------------------------------------------------------------
Init ==
    /\ state = [p \in Port |-> "FORWARD"]
    /\ tc = [p \in Port |-> FALSE]
    /\ tcTimer = [p \in Port |-> FALSE]
    /\ heard = {}
    /\ tcn = [p \in Port |-> FALSE]
    /\ down = [b \in Child |-> <<>>]
    /\ up = [b \in Child |-> FALSE]
    /\ stale = {}
    /\ changes = 0

Protocol ==
    \/ \E p \in Port : StateMachine(p) \/ TransmitConfig(p)
    \/ \E b \in Child : TransmitTcn(b) \/ RcvConfigBpdu(b) \/ RcvTcnBpdu(b)

Next == Protocol \/ \E b \in Bridge : LinkDown(b) \/ LinkUp(b)

(* Hellos go on for ever, and the event loop handles what arrives.           *)
Fairness ==
    /\ \A p \in Port : WF_vars(TransmitConfig(p))
    /\ \A b \in Child :
        WF_vars(TransmitTcn(b)) /\ WF_vars(RcvConfigBpdu(b)) /\ WF_vars(RcvTcnBpdu(b))

Spec == Init /\ [][Next]_vars /\ Fairness

(* Every bridge throws EventTopologyChange after every change.                *)
AllFlush == []<>(stale = {})
=============================================================================
