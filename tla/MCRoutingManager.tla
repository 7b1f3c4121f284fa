-------------------------- MODULE MCRoutingManager ---------------------------
(***************************************************************************)
(* Instances of RoutingManager: a ring of four routers, with gateways at   *)
(* opposite corners, between which there are two shortest paths; a         *)
(* triangle, and a line of three.                                          *)
(***************************************************************************)
EXTENDS RoutingManager, TLC

CONSTANTS s1, s2, s3, s4, ga, gb, A, B, C, l12, l23, l34, l41

Edges == (ga :> s1) @@ (gb :> s3)
Customers == [p \in Prefixes |-> IF p = B THEN gb ELSE ga]

Between(a, b, c) == [ends |-> {a, b}, capacity |-> c]
Ring == (l12 :> Between(s1, s2, 1)) @@ (l23 :> Between(s2, s3, 1))
        @@ (l34 :> Between(s3, s4, 1)) @@ (l41 :> Between(s4, s1, 1))
Triangle == (l12 :> Between(s1, s2, 1)) @@ (l23 :> Between(s2, s3, 2))
            @@ (l34 :> Between(s1, s3, 1))
Line == (l12 :> Between(s1, s2, 1)) @@ (l23 :> Between(s2, s3, 1))
=============================================================================
