----------------------------- MODULE VpcConfig -----------------------------
(***************************************************************************)
(* DeviceConfig for what users write: populateSchema never sees the spec   *)
(* of DeviceConfig but asks the getters of the stored Vpc resource, each   *)
(* of which walks the lists anew.  An entry of a list has, beside its      *)
(* name and its tunnel, what its selectors match on the device.            *)
(***************************************************************************)
EXTENDS DeviceConfig, VpcResource

CONSTANT Written    \* the vpcs users may write

VARIABLE written    \* the spec.vpc of the resource, as its user wrote it

Stored == Defaulted(written)

Entries(x, ni) == IF ni \in BridgeDomains THEN GetBridgeDomains(x) ELSE GetRoutingTables(x)

\* What populateSchema learns of vpc x by its getters.  A name that x does not have is in
\* none of its maps: no loop visits it, which is the same as one that selects nothing.
ReadSpec(x) ==
  [selected |-> [ni \in Nis |->
     IF ni \in DOMAIN Entries(x, ni) THEN Entries(x, ni)[ni].selected ELSE {}],
   prefixes |-> [ni \in Nis |->
     IF ni \in DOMAIN Entries(x, ni) THEN Entries(x, ni)[ni].prefixes
     ELSE [l \in Links |-> {}]],
   domains |-> [rt \in RoutingTables |->
     LET bridges == GetBridge2RoutingTable(x)
     IN  IF rt \in DOMAIN bridges THEN bridges[rt] ELSE <<>>],
   tunnel |-> [ni \in Nis |->
     IF ni \in BridgeDomains THEN GetBridgeDomainTunnel(x, ni)
     ELSE GetRoutingTableTunnel(x, ni)]]

\* A list is a list, and its entries have their fields; what is read is among the specs
\* of DeviceConfig.
ASSUME WrittenAssumption ==
  \A x \in Written :
    LET list == x.routingTables IN
    /\ list \in Seq({list[i] : i \in DOMAIN list})
    /\ \A i \in DOMAIN list :
         {"name", "tunnel", "selected", "prefixes", "bridgeDomains"} \subseteq DOMAIN list[i]

ASSUME ReadAssumption == \A x \in Written : ReadSpec(Defaulted(x)) \in Specs

WrittenInit ==
  /\ written \in Written
  /\ spec = ReadSpec(Stored)
  /\ Init

\* populateSchema works on the copy of the resource that its reconcile has got.
WrittenNext == Next /\ UNCHANGED written

WrittenSpec == WrittenInit /\ [][WrittenNext]_<<vars, written>>

-----------------------------------------------------------------------------
(* Properties                                                               *)

\* Names that occur twice: the loops over routing tables and over their irbs, the
\* selectors and the tunnel each come from a getter that walks the list anew.  What is
\* configured for a routing table comes from one and the same entry nevertheless.
OneEntryPerTable ==
  \A rt \in RoutingTables :
    LET Read(e) == /\ e.selected = spec.selected[rt] /\ e.prefixes = spec.prefixes[rt]
                   /\ e.bridgeDomains = spec.domains[rt] /\ e.tunnel = spec.tunnel[rt]
        places  == {i \in DOMAIN Stored.routingTables : Stored.routingTables[i].name = rt}
    IN  IF places = {} THEN spec.selected[rt] = {} /\ spec.domains[rt] = <<>>
        ELSE \E i \in places : Read(Stored.routingTables[i])
=============================================================================
