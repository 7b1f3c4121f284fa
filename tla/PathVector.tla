----------------------------- MODULE PathVector ------------------------------
(***************************************************************************)
(* What the exchange of route advertisements between SDXes promises for    *)
(* one prefix pair when every route is compliant: a path-vector protocol   *)
(* without withdrawals.                                                    *)
(*                                                                         *)
(* A node learns paths to the owner of the prefix, from the owner itself   *)
(* or from the paths its neighbours know, and uses one of the shortest.    *)
(* SdxNetwork is shown to implement this module.                           *)
(***************************************************************************)
EXTENDS Integers, Sequences

CONSTANTS
  Nodes,   \* the SDXes
  Owner    \* the customer that owns the prefix

VARIABLES
  known,   \* the paths each node has learnt; a path starts at its neighbour
  used     \* the path its traffic takes, <<>> as long as it has none

vars == <<known, used>>

Occurs(a, path) == \E i \in 1..Len(path) : path[i] = a

\* The paths a could learn: the owner's own, and those of another node b, with
\* b in front, that do not lead through a already.
Learnable(a) ==
  {<<Owner>>} \cup
  UNION {{<<b>> \o q : q \in {p \in known[b] : ~ Occurs(a, <<b>> \o p)}} : b \in Nodes}

Init ==
  /\ known = [a \in Nodes |-> {}]
  /\ used = [a \in Nodes |-> <<>>]

\* Node a learns a path, and uses it if it has none or a longer one.
Learn(a, path) ==
  /\ known' = [known EXCEPT ![a] = @ \cup {path}]
  /\ used' = IF used[a] = <<>> \/ Len(path) < Len(used[a])
             THEN [used EXCEPT ![a] = path]
             ELSE used

\* Node a changes to another of its shortest paths (a policy has arrived).
Reselect(a) ==
  /\ \E path \in known[a] :
       /\ Len(path) = Len(used[a])
       /\ used' = [used EXCEPT ![a] = path]
  /\ UNCHANGED known

Next ==
  \E a \in Nodes :
    \/ \E path \in Learnable(a) : Learn(a, path)
    \/ Reselect(a)

Spec == Init /\ [][Next]_vars

------------------------------------------------------------------------------
Paths == Seq(Nodes \cup {Owner})

TypeOK ==
  /\ known \in [Nodes -> SUBSET Paths]
  /\ used \in [Nodes -> Paths]

\* Every path a node knows is one its first hop could have told it, and does
\* not come back to the node.
Backed ==
  \A a \in Nodes : \A path \in known[a] : path \in Learnable(a)

\* The path in use is a shortest one among the known ones.
ShortestUsed ==
  \A a \in Nodes :
    /\ used[a] = <<>> <=> known[a] = {}
    /\ used[a] # <<>> => used[a] \in known[a]
    /\ \A path \in known[a] : Len(used[a]) <= Len(path)

(***************************************************************************)
(* The next hop of a node that uses a path is nearer to the owner.  This   *)
(* is what keeps forwarding free of loops although the neighbour may have  *)
(* changed to another path since it told this one.                         *)
(***************************************************************************)
Descends ==
  \A a, b \in Nodes :
    used[a] # <<>> /\ used[a][1] = b
      => used[b] # <<>> /\ Len(used[b]) < Len(used[a])

(***************************************************************************)
(* Traffic never goes round in circles: there is no set of nodes each of   *)
(* which hands the traffic of the prefix to a node of the set.             *)
(***************************************************************************)
NoForwardingLoop ==
  \A S \in SUBSET Nodes :
    S # {} => \E a \in S : used[a] = <<>> \/ used[a][1] \notin S

\* A path once learnt is kept, and the path in use only gets shorter.
OnlyShortens ==
  [][\A a \in Nodes :
       /\ known[a] \subseteq known'[a]
       /\ used[a] # <<>> => used'[a] # <<>> /\ Len(used'[a]) <= Len(used[a])]_vars
==============================================================================
