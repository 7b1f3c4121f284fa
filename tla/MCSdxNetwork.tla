---------------------------- MODULE MCSdxNetwork -----------------------------
(***************************************************************************)
(* Instances of SdxRouting: two customers and up to four SDXes.            *)
(***************************************************************************)
EXTENDS SdxRouting

CONSTANTS c1, c2, s1, s2, s3, s4, t1

MCPids == {c1, c2, s1, s2, s3, s4}
MCTokens == {t1}

MCSdxes == {s1, s2, s3}
FourSdxes == {s1, s2, s3, s4}

MCDest == [addr |-> 8, len |-> 1]
MCSource == [addr |-> 0, len |-> 1]

RouteOffer(a) == [kind |-> "bgp", to |-> a,
  adv |-> [dest |-> MCDest, src |-> NoPrefix, owner |-> c1,
           advertiser |-> c1, route |-> <<c1>>]]

PolicyOffer == [kind |-> "policy", to |-> s3,
  adv |-> [dest |-> DefaultPrefix, src |-> MCSource, owner |-> c2,
           advertiser |-> NoPid, route |-> <<>>, token |-> t1]]

\* The owner of the prefix is stitched to one SDX, or to two.
OneHome  == [a \in Sdxes |-> IF a = s1 THEN {c1} ELSE {}]
TwoHomes == [a \in Sdxes |-> IF a = s3 THEN {c2} ELSE {c1}]

JustRoute == {RouteOffer(s1)}
RoutesAndPolicy == {RouteOffer(s1), RouteOffer(s2), PolicyOffer}

Line     == {<<s1, s2>>, <<s2, s3>>}

\* The topology of MultiSdxSetting.
Diamond == {<<s1, s2>>, <<s2, s4>>, <<s1, s3>>, <<s3, s4>>}

Permissive == {TRUE}
==============================================================================
