---------------------------- MODULE MCSwitchRouter ---------------------------
(***************************************************************************)
(* Two gateways in one network; hosts 10 to 13 are behind them.  Two       *)
(* nested sources and a route without one for the same destination.        *)
(***************************************************************************)
EXTENDS SwitchRouter, TLC

CONSTANTS g1, g2, m1, m2, client, client2, handler, any, unknown

MCNetworks == {{g1, g2}}

Prefix(ips, mask) == [ips |-> ips, mask |-> mask]

Far  == Prefix({10, 11}, 31)
Near == Prefix({12, 13}, 31)
Host == Prefix({12}, 32)

KeyOf(dst, src) == [dst |-> dst, src |-> src]

MCKeys == {KeyOf(Far, Near), KeyOf(Far, Host)}
MCMixedKeys == {KeyOf(Far, Near), KeyOf(Far, any)}

MCIpPrefixes == {Far, Near, Host}

PacketOf(id, src, dst) == [id |-> id, src |-> src, dst |-> dst]

MCPackets ==
  {PacketOf(1, 12, 10), PacketOf(2, 13, 11), PacketOf(3, g1, g2)}
MCFarPackets == {PacketOf(1, 12, 10)}
MCSymmetry == Permutations({client, client2}) \cup Permutations({m1, m2})
==============================================================================
