----------------------------- MODULE SpanningTree -----------------------------
(***************************************************************************)
(* The spanning tree library of the switch applications (stplib.py): one   *)
(* process, Stp, runs the protocol for all switches ("bridges") that are   *)
(* connected to it.  Events of all bridges are handled one after the other *)
(* by the application's event loop; the timers of ports, and the           *)
(* recalculations they start, are greenlets of their own and take turns    *)
(* with it at each point where a port goes up or down.                     *)
(*                                                                         *)
(* Topology change flags are the subject of TopologyChange; LISTEN stands  *)
(* here for LISTEN, LEARN and FORWARD, which send and receive BPDUs alike. *)
(***************************************************************************)
EXTENDS Integers, FiniteSets, SequencesExt

CONSTANTS
    Bridge,      \* bridge identifiers: naturals above 0, ordered as the code orders them
    Links,       \* the links, each a set of two ports <<bridge, port number>>
    PathCost,    \* the cost of each port
    MaxAge,      \* how many hops a configuration BPDU may travel
    MaxFaults,   \* bound: links cut or mended, bridges that leave or join
    InTurn,      \* TRUE: greenlets run in the order in which they became ready
    None

VARIABLES
    root,     \* per bridge: root_priority and root_times
    port,     \* per port: role, state, information sent and held, the wait timer
    wire,     \* per port: the BPDU it sent that the other end has not handled
    jobs,     \* recalculations under way, in the order of the hub's ready list
    cable,    \* links that work
    member,   \* bridges connected to the application
    faults    \* how many faults there have been

vars == <<root, port, wire, jobs, cable, member, faults>>

Port == UNION Links
linkOf == [p \in Port |-> CHOOSE l \in Links : p \in l]
peer == [p \in Port |-> CHOOSE q \in linkOf[p] : q # p]
portsOf == [b \in Bridge |->
    SetToSortSeq({p \in Port : p[1] = b}, LAMBDA p, q : p[2] < q[2])]

-----------------------------------------------------------------------------
(* A priority is <<root, cost, designated bridge, designated port>>; a      *)
(* bridge's own has no designated bridge and port (0).                      *)

Better(v, w) ==
    \E i \in 1..4 : v[i] < w[i] /\ \A j \in 1..(i - 1) : v[j] = w[j]

Own(b) == [prio |-> <<b, 0, 0, 0>>, age |-> 0]

CompareBpdu(mine, msg) ==
    IF mine = None \/ (mine # None /\ Better(msg.prio, mine.prio)) THEN "SUPERIOR"
    ELSE IF Better(mine.prio, msg.prio) THEN "INFERIOR"
    ELSE IF msg.age # mine.age THEN "SUPERIOR" ELSE "REPEATED"

(* What port p sends: the bridge's view of the root, one hop older.         *)
ConfigBpdu(p) ==
    [prio |-> <<port[p].info.prio[1], port[p].info.prio[2] + PathCost[p], p[1], p[2]>>,
     age  |-> port[p].info.age + 1]

-----------------------------------------------------------------------------
(* One port.                                                                *)

\* A mutation: the timer is not started anew by a new role.
WithRoleUntimed(r, new) ==
    IF r.role = new THEN r
    ELSE [r EXCEPT !.role = new, !.waiting = @ /\ new # "DESIGNATED"]

WithRole(r, new) ==
    IF r.role = new THEN r
    ELSE [r EXCEPT !.role = new, !.waiting = new # "DESIGNATED"]

PortUp(r, role, info) == [WithRole([r EXCEPT !.info = info], role) EXCEPT !.state = "LISTEN"]

PortDown(r, state, init) ==
    [WithRole([r EXCEPT !.held = IF init THEN None ELSE @], "DESIGNATED")
        EXCEPT !.state = state]

NewPort(b) ==
    [role |-> "DESIGNATED", state |-> "LISTEN", info |-> Own(b), held |-> None,
     waiting |-> FALSE]

-----------------------------------------------------------------------------
(* The roles of a bridge's ports.                                           *)

Enabled(b) == {p \in Port : p[1] = b /\ port[p].state # "DISABLE"}

Offers(b) ==
    {p \in Enabled(b) : port[p].held # None /\ Better(port[p].held.prio, Own(b).prio)}

(* The port nearest to the root; no port if the bridge is the root itself.  *)
RootPort(b) ==
    CHOOSE p \in Offers(b) :
        \A q \in Offers(b) \ {p} : ~Better(port[q].held.prio, port[p].held.prio)

\* A mutation: the cost is compared without that of the link.
IsDesignatedFarther(p, rootMsg) ==
    LET held == port[p].held IN
    \/ held = None
    \/ /\ held # None
       /\ \/ held.prio[1] # rootMsg.prio[1]
          \/ Better(<<0, rootMsg.prio[2], p[1], p[2]>>, <<0, held.prio[2], held.prio[3], held.prio[4]>>)

IsDesignated(p, rootMsg) ==
    LET held == port[p].held IN
    \/ held = None
    \/ /\ held # None
       /\ \/ held.prio[1] # rootMsg.prio[1]
          \/ Better(<<0, rootMsg.prio[2], p[1], p[2]>>,
                    <<0, held.prio[2] - PathCost[p], held.prio[3], held.prio[4]>>)

(* [info |-> the bridge's view of the root, roles |-> the role of each port] *)
Algorithm(b) ==
    IF Offers(b) = {} THEN [info |-> Own(b), roles |-> [p \in Enabled(b) |-> "DESIGNATED"]]
    ELSE LET best == RootPort(b) IN
         [info  |-> port[best].held,
          roles |-> [p \in Enabled(b) |->
                        IF p = best THEN "ROOT"
                        ELSE IF IsDesignated(p, port[best].held) THEN "DESIGNATED"
                        ELSE "NON_DESIGNATED"]]

-----------------------------------------------------------------------------
(* A recalculation: all ports down one by one, then the roles, then all     *)
(* ports up one by one.  The greenlet yields after each port.               *)

Recalculation(b, init, loop) ==
    [bridge |-> b, init |-> init, loop |-> loop, phase |-> "down", todo |-> portsOf[b],
     roles |-> [p \in {} |-> None]]

LoopIdle == \A i \in DOMAIN jobs : ~jobs[i].loop
Calm(b) == \A i \in DOMAIN jobs : jobs[i].bridge # b

(* The ready list after job i has run to its next yield, as j.              *)
Requeue(i, j) ==
    IF j.phase = "up" /\ j.todo = <<>> THEN RemoveAt(jobs, i)
    ELSE Append(RemoveAt(jobs, i), j)

TakeDown(i) ==
    LET j == jobs[i]  p == Head(j.todo) IN
    /\ j.phase = "down" /\ j.todo # <<>>
    /\ port' = [port EXCEPT ![p] = IF @.state = "DISABLE" THEN @
                                   ELSE PortDown(@, "BLOCK", j.init)]
    /\ jobs' = Requeue(i, [j EXCEPT !.todo = Tail(@)])
    /\ UNCHANGED root

(* port p of a recalculation's list goes up, seeing the root as info.       *)
Raised(p, roles, info) ==
    [port EXCEPT ![p] = IF p \in DOMAIN roles /\ @.state # "DISABLE"
                        THEN PortUp(@, roles[p], info) ELSE @]

Elect(i) ==
    LET j == jobs[i]  b == j.bridge  all == portsOf[b]
        new == IF j.init THEN [info |-> Own(b), roles |-> [p \in Enabled(b) |-> "DESIGNATED"]]
               ELSE Algorithm(b) IN
    /\ j.phase = "down" /\ j.todo = <<>>
    /\ root' = [root EXCEPT ![b] = new.info]
    /\ port' = Raised(Head(all), new.roles, new.info)
    /\ jobs' = Requeue(i, [j EXCEPT !.phase = "up", !.todo = Tail(all), !.roles = new.roles])

TakeUp(i) ==
    LET j == jobs[i] IN
    /\ j.phase = "up" /\ j.todo # <<>>
    /\ port' = Raised(Head(j.todo), j.roles, root[j.bridge])
    /\ jobs' = Requeue(i, [j EXCEPT !.todo = Tail(@)])
    /\ UNCHANGED root

Recalculate ==
    /\ \E i \in DOMAIN jobs : (InTurn => i = 1) /\ (TakeDown(i) \/ Elect(i) \/ TakeUp(i))
    /\ UNCHANGED <<wire, cable, member, faults>>

-----------------------------------------------------------------------------
(* BPDUs and timers.                                                        *)

Sending(p) ==
    /\ p[1] \in member /\ linkOf[p] \in cable
    /\ port[p].role = "DESIGNATED" /\ port[p].state = "LISTEN"

Accepts(p, msg) ==
    p[1] \in member /\ port[p].state # "DISABLE" /\ msg.age <= MaxAge

(* Ports send every few seconds for ever.  Only a BPDU that tells the other *)
(* end something new takes steps; that the others restart the timer of the  *)
(* other end is in Silent.                                                   *)
News(p) ==
    LET q == peer[p]  msg == ConfigBpdu(p) IN
    Sending(p) /\ Accepts(q, msg) /\ CompareBpdu(port[q].held, msg) = "SUPERIOR"

TransmitBpdu(p) ==
    /\ News(p) /\ wire[p] = None
    /\ wire' = [wire EXCEPT ![p] = ConfigBpdu(p)]
    /\ UNCHANGED <<root, port, jobs, cable, member, faults>>

(* The packet-in handler, for the BPDU that the other end of p has sent.    *)
RcvConfigBpdu(p) ==
    LET msg == wire[peer[p]] IN
    /\ LoopIdle /\ msg # None
    /\ wire' = [wire EXCEPT ![peer[p]] = None]
    /\ IF Accepts(p, msg) /\ CompareBpdu(port[p].held, msg) = "SUPERIOR"
       THEN /\ port' = [port EXCEPT ![p].held = msg]
            /\ jobs' = Append(jobs, Recalculation(p[1], FALSE, TRUE))
       ELSE UNCHANGED <<port, jobs>>
    /\ UNCHANGED <<root, cable, member, faults>>

(* Does msg restart the wait timer of p?                                    *)
Refreshes(p, msg) == Accepts(p, msg) /\ CompareBpdu(port[p].held, msg) # "INFERIOR"

(* The timer runs for MaxAge minus the age of the information held: it      *)
(* expires at once when nothing is left, and otherwise when the other end   *)
(* has stopped to send anything that restarts it.                           *)
Silent(p) ==
    LET q == peer[p] IN
    /\ Sending(q) => ~Refreshes(p, ConfigBpdu(q))
    /\ wire[q] # None => ~Refreshes(p, wire[q])
    /\ Calm(q[1])

TimerDue(p) ==
    /\ p[1] \in member /\ port[p].waiting
    /\ Silent(p) \/ (port[p].held # None /\ port[p].held.age >= MaxAge)

WaitBpduTimer(p) ==
    /\ TimerDue(p)
    /\ port' = [port EXCEPT ![p].waiting = FALSE]
    /\ jobs' = Append(jobs, Recalculation(p[1], TRUE, FALSE))
    /\ UNCHANGED <<root, wire, cable, member, faults>>

-----------------------------------------------------------------------------
(* Port status events: the link of p went down or came up.                  *)

LinkDown(p) ==
    /\ p[1] \in member /\ LoopIdle
    /\ linkOf[p] \notin cable /\ port[p].state # "DISABLE"
    /\ port' = [port EXCEPT ![p] = PortDown(@, "DISABLE", TRUE)]
    /\ jobs' = IF port[p].role = "ROOT" THEN Append(jobs, Recalculation(p[1], TRUE, TRUE))
               ELSE jobs
    /\ UNCHANGED <<root, wire, cable, member, faults>>

LinkUp(p) ==
    /\ p[1] \in member /\ LoopIdle
    /\ linkOf[p] \in cable /\ port[p].state = "DISABLE"
    /\ port' = [port EXCEPT ![p] = PortUp(@, "DESIGNATED", root[p[1]])]
    /\ UNCHANGED <<root, wire, jobs, cable, member, faults>>

(* Nothing is left to do: what is still sent repeats what is known.  Faults  *)
(* are further apart than it takes to get here (a bound of the exploration). *)
Quiet ==
    /\ jobs = <<>>
    /\ \A p \in Port :
        /\ wire[p] = None /\ ~TimerDue(p)
        /\ p[1] \in member => ((port[p].state = "DISABLE") <=> (linkOf[p] \notin cable))
        /\ ~News(p)

(* Datapaths that leave and join.                                           *)
UnregisterBridge(b) ==
    /\ b \in member /\ Quiet /\ faults < MaxFaults
    /\ member' = member \ {b}
    /\ faults' = faults + 1
    /\ UNCHANGED <<root, port, wire, jobs, cable>>

RegisterBridge(b) ==
    /\ b \notin member /\ Quiet
    /\ member' = member \cup {b}
    /\ root' = [root EXCEPT ![b] = Own(b)]
    /\ port' = [p \in Port |-> IF p[1] # b THEN port[p] ELSE NewPort(b)]
    /\ UNCHANGED <<wire, jobs, cable, faults>>

(* The environment cuts or mends a link.                                    *)
Cut(l) ==
    /\ l \in cable /\ Quiet /\ faults < MaxFaults
    /\ cable' = cable \ {l}
    /\ wire' = [p \in Port |-> IF p \in l THEN None ELSE wire[p]]
    /\ faults' = faults + 1
    /\ UNCHANGED <<root, port, jobs, member>>

Mend(l) ==
    /\ l \in Links \ cable /\ Quiet /\ faults < MaxFaults
    /\ cable' = cable \cup {l}
    /\ faults' = faults + 1
    /\ UNCHANGED <<root, port, wire, jobs, member>>

-----------------------------------------------------------------------------
Init ==
    /\ root = [b \in Bridge |-> Own(b)]
    /\ port = [p \in Port |-> NewPort(p[1])]
    /\ wire = [p \in Port |-> None]
    /\ jobs = <<>>
    /\ cable = Links
    /\ member = Bridge
    /\ faults = 0

Protocol ==
    \/ Recalculate
    \/ \E p \in Port : TransmitBpdu(p) \/ RcvConfigBpdu(p) \/ WaitBpduTimer(p)
                       \/ LinkDown(p) \/ LinkUp(p)

Faults ==
    \/ \E b \in Bridge : UnregisterBridge(b) \/ RegisterBridge(b)
    \/ \E l \in Links : Cut(l) \/ Mend(l)

Next == Protocol \/ Faults

(* The hub runs every greenlet that is ready.                               *)
Spec == Init /\ [][Next]_vars /\ WF_vars(Protocol)

-----------------------------------------------------------------------------
(* The links between bridges that take part, and the bridges b can reach.   *)
Live == {l \in cable : \A p \in l : p[1] \in member}

Reach(b) ==
    LET step(S) == S \cup {c \in Bridge : \E l \in Live : \E p, q \in l : p[1] \in S /\ q[1] = c}
        f[n \in 0..Cardinality(Bridge)] == IF n = 0 THEN {b} ELSE step(f[n - 1])
    IN  f[Cardinality(Bridge)]

Least(S) == CHOOSE b \in S : \A c \in S : b <= c

(* The picture in the header of stplib.py: the bridge with the smallest     *)
(* identifier is the root, every other bridge has one root port, and every  *)
(* link has one designated end.                                             *)
Tree ==
    /\ \A b \in member :
        /\ root[b].prio[1] = Least(Reach(b))
        /\ Cardinality({p \in Enabled(b) : port[p].role = "ROOT"})
             = IF b = Least(Reach(b)) THEN 0 ELSE 1
    /\ \A l \in Live : Cardinality({p \in l : port[p].role = "DESIGNATED"}) = 1

QuietTree == Quiet => Tree
EventuallyTree == <>[]Tree
=============================================================================
