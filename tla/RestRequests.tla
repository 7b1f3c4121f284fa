----------------------------- MODULE RestRequests ------------------------------
(***************************************************************************)
(* The requests of the REST interfaces of the deployed controller: of its  *)
(* router application (sdnctrl/rest_router_mirror.py), of the REST service *)
(* of OpenFlow (ofctl_rest.py) and of the QoS application (rest_qos.py).   *)
(* They ask the same switches for statistics, each with waiters of its     *)
(* own.  The controller numbers the messages to a switch, whoever sends    *)
(* them.  An answer comes in parts, which the event loops of the           *)
(* applications give to the waiter with the datapath and the xid of the    *)
(* answer; whoever waits does so for a second at most.                     *)
(*                                                                         *)
(* Each request has a greenlet of its own; switches join and leave under   *)
(* the requests that visit them.  What visits change is in the modules of  *)
(* the applications.  The loops of the applications handle a part in one   *)
(* step here: only one of them can have its waiter.                        *)
(***************************************************************************)
EXTENDS Naturals, Sequences

CONSTANTS
    Switch,     \* datapath ids
    Client,     \* greenlets of requests
    Version,    \* per switch: OFP_VERSION
    Offers,     \* per version: what the controller can ask a switch for
    AskedBy,    \* per client: its requests, each a service and a path
    MaxParts,   \* bound: the parts of an answer
    MaxXid      \* bound: messages to each switch

VARIABLES
    routers,    \* the switches: _ROUTER_LIST, dpset and _OFS_LIST
    xid,        \* per switch: the last xid used
    waiters,    \* those who wait: a service, and a datapath and an xid
    msgs,       \* the list of each waiter, past ones included: parts of answers
    stream,     \* per switch: its answers under way: what for, and the parts delivered
    client      \* per client: its request

vars == <<routers, xid, waiters, msgs, stream, client>>

Service == {"router", "stats", "qos"}
Idle == [stage |-> "idle", service |-> "router", kind |-> "none", todo |-> {}, visits |-> {},
         now |-> <<>>]
Keys == UNION {{s} \X (1 .. MaxXid[s]) : s \in Switch}
Part(key, k, more) == [key |-> key, number |-> k, more |-> more]

(* The URLs of ofctl_rest, by their second part; a request for descriptions  *)
(* of flows is given their statistics.                                       *)
Kind(path) == IF path = "flowdesc" THEN "flow" ELSE path

(* What each application has handlers for.                                   *)
VERSION_12 == 3
Hears(a, kind, version) ==
    \/ a = "stats" /\ kind # "meterdesc"
    \/ kind = "flow" \/ (a = "qos" /\ kind \in {"queue", "meter"}) \/ version = VERSION_12

(* Answers of one message: features_reply_handler of ofctl_rest.             *)
Single(kind, version) ==
    kind \in {"queueconfig", "role"} \/ (kind = "portdesc" /\ version <= VERSION_12)

-----------------------------------------------------------------------------
(* register_router, and unregister_router: what a switch still had to answer *)
(* does not come any more.  A request under way keeps its list of routers.   *)
RegisterRouter(s) ==
    /\ s \notin routers
    /\ routers' = routers \cup {s}
    /\ UNCHANGED <<xid, waiters, msgs, stream, client>>

UnregisterRouter(s) ==
    /\ s \in routers
    /\ routers' = routers \ {s}
    /\ stream' = [stream EXCEPT ![s] = <<>>]
    /\ UNCHANGED <<xid, waiters, msgs, client>>

-----------------------------------------------------------------------------
Access(c, r, found) ==
    /\ client[c].stage = "idle" /\ r \in AskedBy[c]
    /\ found # {} /\ found \subseteq routers
    /\ client' = [client EXCEPT ![c] = [Idle EXCEPT
          !.stage = "loop", !.service = r.service, !.kind = Kind(r.path), !.todo = found]]
    /\ UNCHANGED <<routers, xid, waiters, msgs, stream>>

(* _access_router, with the routers that _get_router finds; _access_switch   *)
(* of the QoS application; a request of ofctl_rest is for one switch.        *)
AccessRouter(c, r, found) == r.service = "router" /\ Access(c, r, found)
AccessSwitch(c, r, found) == r.service = "qos" /\ Access(c, r, found)
StatsMethod(c, r, s) == r.service = "stats" /\ Access(c, r, {s})

(* A message to a switch: what a command of ofctl_rest comes to, which is    *)
(* not answered.                                                             *)
Command(s) == xid[s] < MaxXid[s] /\ xid' = [xid EXCEPT ![s] = @ + 1]

CommandMethod(c, s) ==
    /\ client[c].stage = "idle" /\ s \in routers
    /\ Command(s)
    /\ UNCHANGED <<routers, waiters, msgs, stream, client>>

(* A router that needs nothing of its switch: get_data, or set_data, which   *)
(* may raise a ValueError: the routers that are left are not visited.  So    *)
(* does a QoS request for what a version does not offer, and ofctl_rest      *)
(* answers with 501.                                                         *)
Visit(c, s) ==
    /\ client[c].stage = "loop" /\ client[c].service = "router" /\ s \in client[c].todo
    /\ client' = [client EXCEPT ![c].todo = @ \ {s}]
    /\ UNCHANGED <<routers, xid, waiters, msgs, stream>>

Refuse(c) ==
    /\ client[c].stage = "loop" /\ client[c].todo # {}
    /\ client' = [client EXCEPT ![c] = Idle]
    /\ UNCHANGED <<routers, xid, waiters, msgs, stream>>

(* send_stats_request, to a switch that may have left.                       *)
SendStatsRequest(c, s) ==
    LET key == <<s, xid[s] + 1>>  waiter == <<client[c].service, key>> IN
    /\ client[c].stage = "loop" /\ s \in client[c].todo
    /\ client[c].kind \in Offers[Version[s]]
    /\ Command(s)
    /\ waiters' = waiters \cup {waiter}
    /\ msgs' = [msgs EXCEPT ![waiter] = <<>>]
    /\ stream' = [stream EXCEPT ![s] =
          IF s \in routers THEN Append(@, [key |-> key, kind |-> client[c].kind, parts |-> 0])
                           ELSE @]
    /\ client' = [client EXCEPT
          ![c] = [client[c] EXCEPT !.stage = "wait", !.todo = @ \ {s}, !.now = key]]
    /\ UNCHANGED routers

\* A mutation: the first waiter of the datapath takes the part.
WaiterOfDatapath(key) ==
    {w \in waiters : w[2][1] = key[1] /\ \A v \in waiters : v[2][1] = key[1] => w[2][2] <= v[2][2]}

Waiter(key) == {w \in waiters : w[2] = key}

(* The next part of what the switch answers.  A part that nobody waits for   *)
(* is dropped; the last one wakes the waiter.                                *)
Answer(s, more) ==
    LET answer == Head(stream[s])  part == Part(answer.key, answer.parts + 1, more)
        found == {w \in Waiter(answer.key) : Hears(w[1], answer.kind, Version[s])} IN
    /\ more => answer.parts + 1 < MaxParts
    /\ msgs' = [w \in Service \X Keys |-> IF w \in found THEN Append(msgs[w], part) ELSE msgs[w]]
    /\ waiters' = IF more THEN waiters ELSE waiters \ found
    /\ stream' = [stream EXCEPT ![s] =
          IF more THEN <<[answer EXCEPT !.parts = @ + 1]>> \o Tail(@) ELSE Tail(@)]
    /\ UNCHANGED <<routers, xid, client>>

(* The handlers of statistics, and of answers that are one message.          *)
StatsReply(s) ==
    /\ stream[s] # <<>> /\ ~Single(Head(stream[s]).kind, Version[s])
    /\ \E more \in BOOLEAN : Answer(s, more)

FeaturesReply(s) ==
    /\ stream[s] # <<>> /\ Single(Head(stream[s]).kind, Version[s])
    /\ Answer(s, FALSE)

(* The wait ends, with the whole answer, or when the time is up with what is *)
(* there.  Event.wait swallows hub.Timeout, and the waiter stays, unless the *)
(* library that the two other applications wait with forgets it.             *)
EndVisit(c, whole, forgets) ==
    LET key == client[c].now  waiter == <<client[c].service, key>> IN
    /\ client[c].stage = "wait"
    /\ whole => waiter \notin waiters
    /\ forgets => client[c].service # "router"
    /\ waiters' = IF forgets THEN waiters \ {waiter} ELSE waiters
    /\ client' = [client EXCEPT ![c] = [client[c] EXCEPT !.stage = "loop",
          !.visits = @ \cup {[key |-> key, whole |-> whole, parts |-> msgs[waiter]]}]]
    /\ UNCHANGED <<routers, xid, msgs, stream>>

Finish(c) ==
    /\ client[c].stage = "loop" /\ client[c].todo = {}
    /\ client' = [client EXCEPT ![c] = Idle]
    /\ UNCHANGED <<routers, xid, waiters, msgs, stream>>

-----------------------------------------------------------------------------
Init ==
    /\ routers = {}
    /\ xid = [s \in Switch |-> 0]
    /\ waiters = {}
    /\ msgs = [w \in Service \X Keys |-> <<>>]
    /\ stream = [s \in Switch |-> <<>>]
    /\ client = [c \in Client |-> Idle]

Switches ==
    \E s \in Switch :
        RegisterRouter(s) \/ UnregisterRouter(s) \/ StatsReply(s) \/ FeaturesReply(s)

Requests(c) ==
    \/ \E r \in AskedBy[c], found \in {routers} \cup {{s} : s \in Switch} :
          AccessRouter(c, r, found) \/ AccessSwitch(c, r, found)
    \/ \E r \in AskedBy[c], s \in Switch : StatsMethod(c, r, s)
    \/ \E s \in Switch : CommandMethod(c, s) \/ Visit(c, s) \/ SendStatsRequest(c, s)
    \/ \E whole, forgets \in BOOLEAN : EndVisit(c, whole, forgets)
    \/ Refuse(c) \/ Finish(c)

Next == Switches \/ \E c \in Client : Requests(c)

Spec == Init /\ [][Next]_vars

-----------------------------------------------------------------------------
(* Whatever came late, or for others, of whatever application, a visit that  *)
(* has ended has the parts of its own answer, in their order; and all of     *)
(* them unless it gave up.                                                   *)
OwnAnswer ==
    \A c \in Client : \A v \in client[c].visits :
        /\ \A i \in DOMAIN v.parts : v.parts[i].key = v.key /\ v.parts[i].number = i
        /\ v.whole => v.parts # <<>> /\ ~v.parts[Len(v.parts)].more
=============================================================================
