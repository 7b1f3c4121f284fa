------------------------------- MODULE QosRules --------------------------------
(***************************************************************************)
(* The application that gives a switch queues and rules about them         *)
(* (rest_qos.py, in table 0, before the tables of the router), and the     *)
(* configuration that tells it where the switch's OVSDB server is          *)
(* (rest_conf_switch.py), which reaches it by events.                      *)
(*                                                                         *)
(* One switch.  The ids of rules are counted per VLAN; a deletion learns   *)
(* from the switch which VLANs still have rules, and forgets the counters  *)
(* of the others.  It waits for what the switch tells, for a second at     *)
(* most: rules are posted, deletions run and the switch leaves meanwhile,  *)
(* and of the statistics only some may have come when it goes on.  A rule  *)
(* can be told by its statistics unless it has the priority of the default *)
(* flow or a field without a value: deletions pass over the former, and of *)
(* the latter they delete a rule without that field.                       *)
(***************************************************************************)
EXTENDS Naturals, Sequences, FiniteSets, QosMatch

CONSTANTS
    Vlan,        \* VLANs, with NoVlan
    NoVlan,      \* VLANID_NONE
    Match,       \* what requests ask for: [prio, match], without the VLAN
    Addr,        \* addresses of OVSDB servers; NoAddr is none of them
    NoAddr,
    Deleter,     \* greenlets of requests that delete rules
    MaxId,       \* bound: rules posted per VLAN
    MaxRules,    \* bound: rules in the switch
    MaxEvents    \* bound: configuration events under way

VARIABLES
    joined,      \* whether the switch is in _OFS_LIST
    vlanList,    \* vlan_list: the counters of the VLANs that have one
    rules,       \* the rules in table 0: [vlan, prio, match, id, counted]
    conf,        \* the address that the configuration has
    events,      \* events of the configuration, on their way to the application
    ovs,         \* ovsdb_addr and ovs_bridge
    queues,      \* whether queue_list has entries
    request      \* per greenlet: the statistics that its deletion has got

vars == <<joined, vlanList, rules, conf, events, ovs, queues, request>>

Idle == [stage |-> "idle", rules |-> {}]
NoRequest == [d \in Deleter |-> Idle]
NoBridge == [addr |-> NoAddr, bridge |-> NoAddr]
NewList == [v \in {NoVlan} |-> 0]

(* Of the flow that sends what no rule meets on to the next table.           *)
DefaultPriority == 0

(* get_ofs: requests reach a switch that is in the list.                     *)
GetOfs == joined

-----------------------------------------------------------------------------
(* regist_ofs and unregist_ofs.  The switch may have kept its rules.  What   *)
(* happens to a rule later is remembered here (the program has no such       *)
(* field): it is counted until the switch leaves, or a deletion goes on with *)
(* statistics that do not have it.                                           *)
Join(kept) ==
    /\ ~joined
    /\ joined' = TRUE
    /\ vlanList' = NewList
    /\ rules' = IF kept THEN {[r EXCEPT !.counted = FALSE] : r \in rules} ELSE {}
    /\ ovs' = NoBridge /\ queues' = FALSE
    /\ UNCHANGED <<conf, events, request>>

(* A deletion that waits goes on with an object and a connection that nobody *)
(* uses any more.                                                            *)
Leave ==
    /\ joined
    /\ joined' = FALSE
    /\ request' = NoRequest
    /\ UNCHANGED <<vlanList, rules, conf, events, ovs, queues>>

-----------------------------------------------------------------------------
(* Rules that are one to the switch.                                         *)
Same(r, q) == r.vlan = q.vlan /\ r.prio = q.prio /\ r.match = q.match

(* _get_cookie, for one VLAN or for those that have a counter.               *)
Counted(vlans) ==
    [v \in DOMAIN vlanList \cup vlans |->
        (IF v \in DOMAIN vlanList THEN vlanList[v] ELSE 0) + (IF v \in vlans THEN 1 ELSE 0)]

(* A rule replaces one of the same VLAN, priority and match.  A request      *)
(* whose match or actions are refused has used up its ids all the same.      *)
SetQos(vlans, asked, sound) ==
    LET counters == Counted(vlans)
        New(v) == [vlan |-> v, prio |-> asked.prio, match |-> ToOpenflow(asked.match),
                   id |-> counters[v], counted |-> TRUE] IN
    /\ GetOfs
    /\ Cardinality(rules) + Cardinality(vlans) <= MaxRules
    /\ \A v \in vlans : counters[v] <= MaxId
    /\ vlanList' = counters
    /\ rules' = IF sound /\ ~Refused(asked.match)
                THEN {r \in rules : \A v \in vlans : ~Same(r, New(v))} \cup {New(v) : v \in vlans}
                ELSE rules
    /\ UNCHANGED <<joined, conf, events, ovs, queues, request>>

(* delete_qos: what the switch tells about its rules decides which counters  *)
(* stay and which rules go; those of the default flow's priority count for   *)
(* nothing.                                                                  *)
Listed(seen) == {r \in seen : r.prio # DefaultPriority}
Meant(r, vlan, id) == (id = 0 \/ r.id = id) /\ (vlan = "all" \/ r.vlan = vlan)

Without(meant) ==
    {r \in rules : \A q \in meant : ~Same(r, [q EXCEPT !.match = ToModOpenflow(q.match)])}

(* The request for statistics, which the switch answers.                     *)
AskDelete(d) ==
    /\ GetOfs /\ request[d] = Idle
    /\ request' = [request EXCEPT ![d] = [stage |-> "answered", rules |-> rules]]
    /\ UNCHANGED <<joined, vlanList, rules, conf, events, ovs, queues>>

(* The deletion goes on with the parts of the answer that have come:         *)
(* _update_vlan_list, and then the rules.                                    *)
Deletes(d, seen, meant, vlanOf) ==
    /\ request[d].stage = "answered"
    /\ vlanList' = [v \in {w \in DOMAIN vlanList : w = NoVlan \/ w \in vlanOf} |-> vlanList[v]]
    /\ rules' = {[r EXCEPT !.counted = @ /\ r \in seen] : r \in Without(meant)}
    /\ request' = [request EXCEPT ![d] = Idle]
    /\ UNCHANGED <<joined, conf, events, ovs, queues>>

\* A mutation: the counters of the VLANs that lose a rule are forgotten.
DeleteQosForgets(d, seen, vlan, id) ==
    LET meant == {r \in Listed(seen) : Meant(r, vlan, id)} IN
    Deletes(d, seen, meant, DOMAIN vlanList \ {r.vlan : r \in meant})

DeleteQos(d, seen, vlan, id) ==
    LET meant == {r \in Listed(seen) : Meant(r, vlan, id)} IN
    Deletes(d, seen, meant, {r.vlan : r \in Listed(seen) \ meant})

-----------------------------------------------------------------------------
(* The configuration: PUT and DELETE of the key ovsdb_addr.                  *)
SetKey(a) ==
    /\ Len(events) < MaxEvents
    /\ conf' = a
    /\ events' = Append(events, a)
    /\ UNCHANGED <<joined, vlanList, rules, ovs, queues, request>>

DeleteKey ==
    /\ conf # NoAddr /\ Len(events) < MaxEvents
    /\ conf' = NoAddr
    /\ events' = Append(events, NoAddr)
    /\ UNCHANGED <<joined, vlanList, rules, ovs, queues, request>>

(* set_ovsdb_addr: an address that was deleted stays in ovsdb_addr.  The     *)
(* bridge may not be available.                                              *)
SetOvsdbAddr(a) ==
    IF a = ovs.addr THEN ovs
    ELSE IF a = NoAddr THEN [ovs EXCEPT !.bridge = NoAddr]
    ELSE [addr |-> a, bridge |-> a]

ConfEvent(available) ==
    /\ events # <<>>
    /\ events' = Tail(events)
    /\ ovs' = IF joined /\ (available \/ Head(events) = NoAddr) THEN SetOvsdbAddr(Head(events))
                                                                ELSE ovs
    /\ UNCHANGED <<joined, vlanList, rules, conf, queues, request>>

SetQueue ==
    /\ GetOfs /\ ovs.bridge # NoAddr
    /\ queues' = TRUE
    /\ UNCHANGED <<joined, vlanList, rules, conf, events, ovs, request>>

DeleteQueue ==
    /\ GetOfs /\ ovs.bridge # NoAddr
    /\ queues' = FALSE
    /\ UNCHANGED <<joined, vlanList, rules, conf, events, ovs, request>>

-----------------------------------------------------------------------------
Init ==
    /\ joined = FALSE
    /\ vlanList = NewList
    /\ rules = {}
    /\ conf = NoAddr /\ events = <<>> /\ ovs = NoBridge
    /\ queues = FALSE
    /\ request = NoRequest

Switches == Leave \/ \E kept \in BOOLEAN : Join(kept)

Rules ==
    \/ \E v \in Vlan, m \in Match, sound \in BOOLEAN : SetQos({v}, m, sound)
    \/ \E m \in Match : SetQos(DOMAIN vlanList, m, TRUE)
    \/ \E d \in Deleter : AskDelete(d)
    \/ \E d \in Deleter : \E seen \in SUBSET request[d].rules :
        \E v \in Vlan \cup {"all"}, id \in 0 .. MaxId : DeleteQos(d, seen, v, id)

Configuration ==
    \/ \E a \in Addr : SetKey(a)
    \/ DeleteKey
    \/ \E available \in BOOLEAN : ConfEvent(available)
    \/ SetQueue \/ DeleteQueue

Next == Switches \/ Rules \/ Configuration

Spec == Init /\ [][Next]_vars

-----------------------------------------------------------------------------
(* A qos_id stands for one rule of its VLAN, among those that the deletions   *)
(* since they were posted have all counted, and that can be told: a counter   *)
(* is forgotten only when they are gone.  A deletion whose statistics lack a  *)
(* rule, because it was posted during the wait or the switch was late, may    *)
(* forget the counter of a rule that stays, and its id is given again; so is  *)
(* the id of a rule that cannot be told.                                      *)
CanBeTold(r) ==
    r.counted /\ r.prio # DefaultPriority /\ \A f \in DOMAIN r.match : r.match[f] # NoValue

UniqueIds ==
    \A r, q \in rules :
        CanBeTold(r) /\ CanBeTold(q) /\ r.vlan = q.vlan /\ r.id = q.id => r = q

(* The application has a bridge to the server that the configuration names.   *)
BridgeConfigured ==
    joined /\ events = <<>> /\ conf # NoAddr /\ conf = ovs.addr => ovs.bridge = conf
=============================================================================
