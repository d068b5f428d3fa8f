--------------------------- MODULE MCDeviceConfig ---------------------------
(***************************************************************************)
(* Instances of DeviceConfig for TLC: two bridge domains and two routing   *)
(* tables that may select the same two subinterfaces of one device.        *)
(***************************************************************************)
EXTENDS DeviceConfig

CONSTANTS b1, b2, r1, r2, l1, l2, p4, p6, q4, q6, bad

\* Every subinterface of a routing table has a prefix of its own, but for r2 on l2.
MCPrefixes(broken) ==
  [ni \in Nis |-> [l \in Links |->
    CASE ni \in BridgeDomains -> {}
      [] ni = r1 -> {p4}
      [] ni = r2 /\ l = l1 -> {q4, q6}
      [] OTHER -> IF broken THEN {bad} ELSE {q6}]]

On(bd, prefixes) == [bd |-> bd, prefixes |-> prefixes]

MCDomains ==
  {<<>>, <<On(b1, {p4, p6})>>, <<On(b1, {p4, p6}), On(b2, {q4, q6})>>,
   <<On(b2, {q4, q6}), On(UnknownDomain, {p4}), On(b1, {p4, p6})>>}

\* Lists with a prefix that cannot be parsed, or with one family only.
MCBadDomains == {<<On(b1, {p4, p6}), On(b2, {bad})>>, <<On(b2, {q4})>>}

MCTunnels == {[ni \in Nis |-> "vxlan"],
              [ni \in Nis |-> IF ni \in {b1, r2} THEN "mpls" ELSE "vxlan"]}

SpecsWith(broken, domains) ==
  [selected : [Nis -> SUBSET Links], prefixes : {MCPrefixes(broken)},
   domains : [RoutingTables -> domains], tunnel : MCTunnels]

MCGoodSpecs == SpecsWith(FALSE, MCDomains)

MCSpecs == MCGoodSpecs \cup SpecsWith(TRUE, {<<>>} \cup MCBadDomains)

\* Specs of one kind each, for the counterexamples: everything selects l1.
MCOne(domains, tunnel) ==
  [selected : {[ni \in Nis |-> {l1}]}, prefixes : {MCPrefixes(FALSE)},
   domains : [RoutingTables -> domains], tunnel : {[ni \in Nis |-> tunnel]}]

MCMultus == MCOne({<<On(b1, {p4, p6}), On(b2, {q4, q6})>>}, "vxlan")
MCSingleFamily == MCOne({<<On(b1, {p4})>>}, "vxlan")
MCMpls == MCOne({<<>>}, "mpls")
=============================================================================
