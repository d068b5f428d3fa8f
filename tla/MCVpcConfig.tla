---------------------------- MODULE MCVpcConfig ----------------------------
(***************************************************************************)
(* VpcConfig for TLC: a vpc for every spec of MCDeviceConfig, and vpcs in  *)
(* which names of routing tables occur twice or not at all.                *)
(***************************************************************************)
EXTENDS VpcConfig, MCDeviceConfig

\* An entry leaves the default tunnel out, or is as it is in spec s.
BridgeEntry(s, bd) ==
  [name |-> bd, tunnel |-> IF s.tunnel[bd] = "vxlan" THEN "" ELSE s.tunnel[bd],
   selected |-> s.selected[bd], prefixes |-> s.prefixes[bd]]

TableEntry(s, rt) ==
  [name |-> rt, tunnel |-> IF s.tunnel[rt] = "vxlan" THEN "" ELSE s.tunnel[rt],
   selected |-> s.selected[rt], prefixes |-> s.prefixes[rt],
   bridgeDomains |-> s.domains[rt]]

Vpc(s) ==
  [bridgeDomains |-> <<BridgeEntry(s, b1), BridgeEntry(s, b2)>>,
   routingTables |-> <<TableEntry(s, r1), TableEntry(s, r2)>>,
   defaults |-> NoDefaults]

\* Two entries of r1 around one of r2, or one of r2 only.
MCTables ==
  LET R1 == [name : {r1}, tunnel : {"", "mpls"}, selected : SUBSET {l1},
             prefixes : {MCPrefixes(FALSE)[r1]}, bridgeDomains : MCDomains]
      R2 == [name : {r2}, tunnel : {""}, selected : {{l2}},
             prefixes : {MCPrefixes(FALSE)[r2]}, bridgeDomains : {<<On(b1, {p4, p6})>>}]
  IN  {<<e, f, g>> : e, g \in R1, f \in R2} \cup {<<f>> : f \in R2}

MCTwice ==
  LET Bd == [name |-> b1, tunnel |-> "", selected |-> {l1},
             prefixes |-> [l \in Links |-> {}]]
  IN  [bridgeDomains : {<<Bd>>}, routingTables : MCTables,
       defaults : {NoDefaults, [tunnel |-> "srv6"]}]

MCWritten == {Vpc(s) : s \in MCSpecs} \cup MCTwice

\* b2 and r1 may be names that the vpc does not have.
MCSpecsTwice ==
  [selected : [Nis -> SUBSET Links],
   prefixes : {[ni \in Nis |-> IF ni \in absent THEN [l \in Links |-> {}]
                               ELSE MCPrefixes(FALSE)[ni]] : absent \in SUBSET {r1}},
   domains : [RoutingTables -> MCDomains],
   tunnel : {[ni \in Nis |-> CASE ni = b2 -> ""
                               [] ni = r1 -> t
                               [] OTHER -> "vxlan"] : t \in {"", "vxlan", "mpls"}}]

MCReadSpecs == MCSpecs \cup MCSpecsTwice
=============================================================================
