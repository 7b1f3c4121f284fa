-------------------------- MODULE MCAdvertiseManager -------------------------
(***************************************************************************)
(* Instances of AdvertiseManager over a small address space: two nested    *)
(* destination prefixes, one of them written in two ways, a source prefix, *)
(* two neighbours.                                                         *)
(***************************************************************************)
EXTENDS AdvertiseManager

CONSTANTS c1, n1, n2, t1, t2

MCPids == {c1, n1, n2}
MCTokens == {t1, t2}

Wide   == [addr |-> 8, len |-> 1]
Narrow == [addr |-> 8, len |-> 2]
NarrowAlike == [addr |-> 9, len |-> 2]

RouteTo(dest, src, neighbor, path) ==
  [dest |-> dest, src |-> src, owner |-> c1, advertiser |-> neighbor, route |-> path]

PolicyOf(dest, src, token) ==
  [dest |-> dest, src |-> src, owner |-> c1,
   advertiser |-> NoPid, route |-> <<>>, token |-> token]

MCRoutes ==
  {RouteTo(Wide, NoPrefix, c1, <<c1>>),
   RouteTo(Narrow, Wide, n1, <<n1, c1>>),
   RouteTo(NarrowAlike, Wide, n2, <<n2, n1, c1>>)}

MCPolicies ==
  {PolicyOf(DefaultPrefix, Wide, t1),
   PolicyOf(Narrow, Wide, t1),
   PolicyOf(Narrow, Wide, t2)}
==============================================================================
