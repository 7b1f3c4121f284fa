------------------------------- MODULE QosMatch --------------------------------
(***************************************************************************)
(* The matches of QoS rules (class Match of rest_qos.py).  A match is a    *)
(* function from its fields to their values: as a request has it, with     *)
(* names of protocols, or as OpenFlow has it, with their numbers.  The     *)
(* value of a field may be the one that stands for none: 0, 0.0.0.0, ::,   *)
(* 00:00:00:00:00:00.                                                      *)
(***************************************************************************)

CONSTANT NoValue

For4 == {"nw_src", "nw_dst"}
For6 == {"ipv6_src", "ipv6_dst"}

\* _CONVERT
Convert ==
    [dl_type |-> [ARP |-> "0x0806", IPv4 |-> "0x0800", IPv6 |-> "0x86dd"],
     nw_proto |-> [TCP |-> "6", UDP |-> "17", ICMP |-> "1", ICMPv6 |-> "58"]]

Has(m, fields) == DOMAIN m \cap fields # {}
IsFor(m, proto) == "nw_proto" \in DOMAIN m /\ m["nw_proto"] = proto

(* The dl_type of a request that has none follows from its other fields.     *)
Implied(m) ==
    IF Has(m, For4) \/ (~Has(m, For6) /\ (Has(m, {"ip_dscp"}) \/ IsFor(m, "ICMP"))) THEN "IPv4"
    ELSE IF Has(m, For6) \/ IsFor(m, "ICMPv6") THEN "IPv6"
    ELSE "unknown"

DlType(m) == IF "dl_type" \in DOMAIN m THEN m["dl_type"] ELSE Implied(m)

(* Invalid combinations.  A DSCP value alone makes a match one for IPv4, and *)
(* then ICMPv6 is not noticed.                                               *)
Refused(m) ==
    LET type == DlType(m) IN
    \/ type \notin DOMAIN Convert.dl_type
    \/ "nw_proto" \in DOMAIN m /\ m["nw_proto"] \notin DOMAIN Convert.nw_proto
    \/ type = "ARP" /\ Has(m, For6 \cup {"ip_dscp", "nw_proto"})
    \/ type = "IPv4" /\ (Has(m, For6) \/ (IsFor(m, "ICMPv6") /\ Has(m, For4 \cup {"dl_type"})))
    \/ type = "IPv6" /\ (Has(m, For4) \/ IsFor(m, "ICMP"))

ToOpenflow(m) ==
    [f \in DOMAIN m \cup {"dl_type"} |->
        LET value == IF f = "dl_type" THEN DlType(m) ELSE m[f] IN
        IF f \in DOMAIN Convert THEN Convert[f][value] ELSE value]

(* The match of a rule that the switch has told about, to delete the rule:   *)
(* fields without a value are left out.                                      *)
ToModOpenflow(m) == [f \in {g \in DOMAIN m : m[g] # NoValue} |-> m[f]]

(* The match that is shown for a rule.                                       *)
ToRest(m) ==
    [f \in {g \in DOMAIN m : m[g] # NoValue} |->
        IF f \in DOMAIN Convert
        THEN CHOOSE name \in DOMAIN Convert[f] : Convert[f][name] = m[f]
        ELSE m[f]]
=============================================================================
