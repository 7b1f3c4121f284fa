---------------------------- MODULE CustomerStitches ----------------------------
(***************************************************************************)
(* What an SDX manager keeps about its customers: the stitches of their    *)
(* networks, the gateways there, the prefixes announced behind a gateway,  *)
(* and the routes of the connections between prefixes.  The handlers are   *)
(* synchronized: each is a step.                                           *)
(*                                                                         *)
(* A reservation id comes with its gateway (customerGateway, which keeps   *)
(* it for ever).  Whether the switch has the address of the link, and the  *)
(* slice the link, is left out: nothing here depends on it.                *)
(***************************************************************************)
EXTENDS Naturals

CONSTANTS
    Customer,
    Reserve,     \* reservation ids
    GatewayFor,  \* the gateway that a reservation's request names
    Gateway,
    Prefix,
    None,
    MaxNotices   \* bound: notifications

VARIABLES
    nodes,       \* customerNodes: per customer, its reservations
    net,         \* stitchNet: the reservations with an entry
    accepted,    \* Router.customergateways: gateways that lead to an edge router
    at,          \* prefixGateway
    owner,       \* prefixKeyHash
    ofGateway,   \* gatewayPrefixes
    ofCustomer,  \* customerPrefixes
    routed,      \* routes of connections: [dst, src, gateway]
    notices

books == <<at, owner, ofGateway, ofCustomer>>
vars == <<nodes, net, accepted, books, routed, notices>>

Nodes(k) == IF k \in DOMAIN nodes THEN nodes[k] ELSE {}
WithNode(k, r) == [c \in DOMAIN nodes \cup {k} |-> IF c = k THEN Nodes(k) \cup {r} ELSE nodes[c]]

-----------------------------------------------------------------------------
(* newExternalLink: the gateway is known to the router whether or not the    *)
(* switch takes the address.                                                 *)
NewExternalLink(r) == accepted' = accepted \cup {GatewayFor[r]}

(* stitchRequest, of a customer of ExoGENI: no entry in stitchNet.  A        *)
(* failure before the end leaves no more than the gateway.                   *)
StitchRequest(k, r) ==
    /\ NewExternalLink(r)
    /\ nodes' = WithNode(k, r)
    /\ UNCHANGED <<net, books, routed, notices>>

StitchRequestFails(r) ==
    /\ NewExternalLink(r)
    /\ UNCHANGED <<nodes, net, books, routed, notices>>

(* stitchChameleon; and the command that stitches to another SDX, which is   *)
(* a customer from then on.                                                  *)
StitchChameleon(k, r) ==
    /\ NewExternalLink(r)
    /\ nodes' = WithNode(k, r)
    /\ net' = net \cup {r}
    /\ UNCHANGED <<books, routed, notices>>

-----------------------------------------------------------------------------
(* revokePrefix, for the prefixes in ps: the paths of a prefix are those to  *)
(* it and those from it.                                                     *)
Revoke(k, ps) ==
    /\ at' = [p \in Prefix |-> IF p \in ps THEN None ELSE at[p]]
    /\ owner' = [p \in Prefix |-> IF p \in ps THEN None ELSE owner[p]]
    /\ ofCustomer' = [ofCustomer EXCEPT ![k] = @ \ ps]
    /\ routed' = {x \in routed : x.dst \notin ps /\ x.src \notin ps}
    /\ UNCHANGED ofGateway

\* A mutation: a gateway that is undone is forgotten with its prefixes.
UndoForgets(k, r) ==
    /\ r \in Nodes(k) /\ r \in net
    /\ nodes' = [nodes EXCEPT ![k] = @ \ {r}]
    /\ net' = net \ {r}
    /\ Revoke(k, {p \in ofGateway[GatewayFor[r]] : owner[p] = k})
    /\ UNCHANGED <<accepted, notices>>

(* undoStitch.  Without an entry in stitchNet it throws before it changes    *)
(* anything; a slice that cannot be changed stops it only after the prefixes *)
(* are revoked.  The router knows the gateway for ever (delGateway takes it  *)
(* for the name of a link).                                                  *)
UndoStitch(k, r) ==
    /\ r \in Nodes(k) /\ r \in net
    /\ nodes' = [nodes EXCEPT ![k] = @ \ {r}]
    /\ net' = net \ {r}
    /\ Revoke(k, ofGateway[GatewayFor[r]])
    /\ UNCHANGED <<accepted, notices>>

\* A mutation: a prefix belongs to the gateway that it was announced from last.
NotifyMoves(p, g, k) ==
    /\ notices < MaxNotices /\ notices' = notices + 1
    /\ g \in accepted
    /\ at' = [at EXCEPT ![p] = g]
    /\ owner' = [owner EXCEPT ![p] = k]
    /\ ofCustomer' = [ofCustomer EXCEPT ![k] = @ \cup {p}]
    /\ ofGateway' = [h \in Gateway |-> IF h = g THEN ofGateway[h] \cup {p} ELSE ofGateway[h] \ {p}]
    /\ UNCHANGED <<nodes, net, accepted, routed>>

(* notifyPrefix.  (The filter that lets the prefix in needs the gateway's    *)
(* link; without one the handler throws, with the books written.)            *)
NotifyPrefix(p, g, k) ==
    /\ notices < MaxNotices /\ notices' = notices + 1
    /\ g \in accepted
    /\ at' = [at EXCEPT ![p] = g]
    /\ owner' = [owner EXCEPT ![p] = k]
    /\ ofCustomer' = [ofCustomer EXCEPT ![k] = @ \cup {p}]
    /\ ofGateway' = [ofGateway EXCEPT ![g] = @ \cup {p}]
    /\ UNCHANGED <<nodes, net, accepted, routed>>

(* Of a prefix announced here.  (For others the code looks up the PID of the *)
(* advertiser among reservations, and finds none.)                           *)
FindGatewayForPrefix(p) == at[p]

(* connectionRequest between two announced prefixes, as far as its routes    *)
(* go: the way there, and the way back if the first succeeds.                *)
WithRoute(routes, p, q) ==
    {x \in routes : x.dst # p \/ x.src # q}
    \cup {[dst |-> p, src |-> q, gateway |-> FindGatewayForPrefix(p)]}

ConnectionRequest(p, q) ==
    /\ p # q /\ at[p] # None /\ at[q] # None
    /\ routed' \in {WithRoute(routed, p, q), WithRoute(WithRoute(routed, p, q), q, p)}
    /\ UNCHANGED <<nodes, net, accepted, books, notices>>

-----------------------------------------------------------------------------
Init ==
    /\ nodes = [k \in {} |-> {}]
    /\ net = {} /\ accepted = {}
    /\ at = [p \in Prefix |-> None]
    /\ owner = [p \in Prefix |-> None]
    /\ ofGateway = [g \in Gateway |-> {}]
    /\ ofCustomer = [k \in Customer |-> {}]
    /\ routed = {} /\ notices = 0

Stitching(k, r) ==
    \/ StitchRequest(k, r)
    \/ StitchChameleon(k, r)
    \/ UndoStitch(k, r)

Next ==
    \/ \E k \in Customer, r \in Reserve : Stitching(k, r)
    \/ \E r \in Reserve : StitchRequestFails(r)
    \/ \E p \in Prefix, g \in Gateway, k \in Customer : NotifyPrefix(p, g, k)
    \/ \E p, q \in Prefix : ConnectionRequest(p, q)

Spec == Init /\ [][Next]_vars

-----------------------------------------------------------------------------
(* What a customer announced is found when it has to be revoked: the owner of *)
(* a prefix lists it, its gateway lists it, and so does the gateway of every  *)
(* route, however often the prefix changed its gateway or its owner.          *)
Revocable ==
    /\ \A p \in Prefix : at[p] # None => p \in ofGateway[at[p]] /\ p \in ofCustomer[owner[p]]
    /\ \A x \in routed : x.dst \in ofGateway[x.gateway]

(* When a stitch is undone, whoever announced what behind its gateway and     *)
(* whether or not the slice can be changed: no prefix is there any more, and  *)
(* no route leads there.                                                      *)
Undone(k, r) == r \in Nodes(k) /\ r \notin nodes'[k]

Gone(r) ==
    /\ \A p \in Prefix : at'[p] # GatewayFor[r]
    /\ \A x \in routed' : x.gateway # GatewayFor[r]

UndoneForgotten ==
    [][\A k \in DOMAIN nodes, r \in Reserve : Undone(k, r) => Gone(r)]_vars
=============================================================================
