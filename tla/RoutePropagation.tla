--------------------------- MODULE RoutePropagation --------------------------
(***************************************************************************)
(* The certificates of one route on its way to the peers of an SDX:        *)
(* propagateBgpAdvertise, propagateRouteToPeer and the threads that        *)
(* advertiseBgpAsync starts.  SdxNetwork leaves the tokens out.            *)
(*                                                                         *)
(* One copy of the route is made for all peers.  For one peer after the    *)
(* other, in the order of a hash map, SAFE is asked whether the owner      *)
(* authorizes the peer, a statement that advertises the route to the peer  *)
(* is posted to SAFE with a link to the token of the copy, the token       *)
(* returned replaces that of the copy, and a thread is started that reads  *)
(* the copy when it runs, perhaps after other peers have been dealt with.  *)
(*                                                                         *)
(* A token stands for the statements that can be reached from it by links: *)
(* Received, the chain that came with the route, and the peers that the    *)
(* route was advertised to.  SAFE is external: its verdicts are those that *)
(* its rules allow on these statements.                                    *)
(***************************************************************************)
EXTENDS FiniteSets

CONSTANTS
  Peers,      \* the peers that are not on the route's path
  Trusted,    \* those whom the owner of the route authorizes
  Received,   \* the statements the route came with
  PostsFail   \* whether posts to SAFE may fail

ASSUME PeersAssumption ==
  Trusted \subseteq Peers /\ Received \notin Peers /\ PostsFail \in BOOLEAN

VARIABLES
  todo,       \* the peers that the loop has not come to
  token,      \* safeToken of the copy
  refused,    \* the peers that verifyAS has refused
  posting,    \* the peers whose thread has not read the copy
  delivered   \* the advertisements posted, each a peer and a token

vars == <<todo, token, refused, posting, delivered>>

Init ==
  /\ todo = Peers
  /\ token = {Received}
  /\ refused = {}
  /\ posting = {}
  /\ delivered = {}

\* verifyAS with the token of the copy.
Authorized(p) == p \in Trusted /\ Received \in token

\* A mutation: the statement is linked to the token that came with the route.
PostedUnchained(p) == {{Received, p}} \cup {none \in {{}} : PostsFail}

\* What safeManager.post may return for the statement to p: a token that links
\* the one before, or nothing of use.
Posted(p) == {token \cup {p}} \cup {none \in {{}} : PostsFail}

Refuse(p) ==
  /\ p \in todo
  /\ ~ Authorized(p)
  /\ todo' = todo \ {p}
  /\ refused' = refused \cup {p}
  /\ UNCHANGED <<token, posting, delivered>>

\* A mutation: the loop ends with the first peer that is advertised to.
AdvertiseToOne(p) ==
  /\ p \in todo
  /\ Authorized(p)
  /\ todo' = {}
  /\ token' \in Posted(p)
  /\ posting' = posting \cup {p}
  /\ UNCHANGED <<refused, delivered>>

Advertise(p) ==
  /\ p \in todo
  /\ Authorized(p)
  /\ todo' = todo \ {p}
  /\ token' \in Posted(p)
  /\ posting' = posting \cup {p}
  /\ UNCHANGED <<refused, delivered>>

\* The thread for p turns the copy into JSON and posts it.
Deliver(p) ==
  /\ p \in posting
  /\ posting' = posting \ {p}
  /\ delivered' = delivered \cup {<<p, token>>}
  /\ UNCHANGED <<todo, token, refused>>

Next == \E p \in Peers : Refuse(p) \/ Advertise(p) \/ Deliver(p)

\* The loop and every thread go on as long as they can.
Fairness ==
  /\ WF_vars(\E p \in Peers : Refuse(p) \/ Advertise(p))
  /\ \A p \in Peers : WF_vars(Deliver(p))

Spec == Init /\ [][Next]_vars /\ Fairness

------------------------------------------------------------------------------
(***************************************************************************)
(* However late a thread reads the copy, the token it finds there lets its *)
(* peer verify the route: the peer reaches the statement made to it and    *)
(* the chain behind it.  verifyRoute asks for both.                        *)
(***************************************************************************)
DeliveredVerifies ==
  \A pair \in delivered : {Received, pair[1]} \subseteq pair[2]

\* Every peer that the owner of the route authorizes is sent it in the end.
Told(p) == \E pair \in delivered : pair[1] = p

TrustedTold == \A p \in Trusted : <>Told(p)
==============================================================================
