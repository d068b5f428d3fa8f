---------------------------- MODULE VpcResource ----------------------------
(***************************************************************************)
(* The Vpc resource (vpc_interfaces.go, vpc_types.go): what the API server *)
(* makes of what a user writes, and what the getters of populateSchema     *)
(* make of its lists.  The lists of bridge domains and routing tables are  *)
(* keyed by nothing in the CRD: a user may write two entries of one name.  *)
(*                                                                         *)
(* "" stands for an optional field that is absent; the enums of the CRD    *)
(* exclude it as a value.                                                  *)
(***************************************************************************)
EXTENDS Naturals, Sequences

-----------------------------------------------------------------------------
(* The API server: the defaults of the CRD, for every object that is there. *)

Or(value, default) == IF value = "" THEN default ELSE value

DefaultedEntry(e) == [e EXCEPT !.tunnel = Or(@, "vxlan")]

DefaultedList(list) == [i \in DOMAIN list |-> DefaultedEntry(list[i])]

NoDefaults == [tunnel |-> ""]

Defaulted(x) ==
  [bridgeDomains |-> DefaultedList(x.bridgeDomains),
   routingTables |-> DefaultedList(x.routingTables),
   defaults |-> IF x.defaults = NoDefaults THEN NoDefaults ELSE DefaultedEntry(x.defaults)]

-----------------------------------------------------------------------------
(* The getters                                                              *)

NoEntries == [key \in {} |-> key]

Put(map, k, value) == [j \in DOMAIN map \cup {k} |-> IF j = k THEN value ELSE map[j]]

\* The map that is made entry by entry, after each entry of a list of keys and values.
MapAfter(list) ==
  LET map[n \in 0..Len(list)] ==
        IF n = 0 THEN NoEntries ELSE Put(map[n - 1], list[n].key, list[n].value)
  IN  map

AsMap(list) == MapAfter(list)[Len(list)]

ByName(list) == AsMap([i \in DOMAIN list |-> [key |-> list[i].name, value |-> list[i]]])

GetBridgeDomains(x) == ByName(x.bridgeDomains)
GetRoutingTables(x) == ByName(x.routingTables)

\* Mutant of GetBridge2RoutingTable: the first entry of a name stays.
GetBridge2RoutingTableFirst(x) ==
  LET list == x.routingTables IN
  AsMap([i \in DOMAIN list |->
           LET e == list[Len(list) + 1 - i] IN [key |-> e.name, value |-> e.bridgeDomains]])

GetBridge2RoutingTable(x) ==
  LET list == x.routingTables IN
  AsMap([i \in DOMAIN list |-> [key |-> list[i].name, value |-> list[i].bridgeDomains]])

\* The tunnel of an entry, else the default of the vpc, else nothing.
TunnelOf(x, entries, name) ==
  IF name \in DOMAIN entries THEN Or(entries[name].tunnel, x.defaults.tunnel) ELSE ""

GetBridgeDomainTunnel(x, bd) == TunnelOf(x, GetBridgeDomains(x), bd)
GetRoutingTableTunnel(x, rt) == TunnelOf(x, GetRoutingTables(x), rt)
=============================================================================
