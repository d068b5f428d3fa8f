---------------------------- MODULE DeviceConfig ----------------------------
(***************************************************************************)
(* What populateSchema writes into the configuration of ONE srl device     *)
(* (reconciler.go:286-362 and the srlPopulate functions): the network      *)
(* instances, the subinterfaces, the vxlan interfaces and how they refer   *)
(* to each other.  An action is one call of srlPopulateBridgeDomain,       *)
(* srlPopulateRouteTable or srlPopulateRouteIrb for the device; the calls  *)
(* come in the random order of Go maps, except that all bridge domains     *)
(* precede the routing tables, those precede the irbs, and the irbs of one *)
(* routing table come together, in the order of the spec.                  *)
(*                                                                         *)
(* The index of a network instance is represented by the instance itself:  *)
(* the registry gives every register an index of its own.                  *)
(***************************************************************************)
EXTENDS Naturals, Sequences

CONSTANTS
  BridgeDomains, RoutingTables,
  Links,            \* interface and vlan of the subinterfaces that may be selected
  Prefixes4, Prefixes6,
  BadPrefixes,      \* those for which getIPv4Info or getIPv6Info returns an error
  UnknownDomain,    \* a bridge domain named by a routing table only
  Specs             \* the specs to consider

Nis == BridgeDomains \cup RoutingTables
PrefixSets == SUBSET (Prefixes4 \cup Prefixes6)

\* An entry of a routing table's list of bridge domains.
Entry == [bd : BridgeDomains \cup {UnknownDomain}, prefixes : PrefixSets]

\* The part of the spec, and of what its selectors match, that concerns the
\* device.  The CRD defaults a tunnel to vxlan; "" is that of a network instance the
\* vpc does not have.
SpecType ==
  [selected : [Nis -> SUBSET Links],            \* srlGetInterfaces
   prefixes : [Nis -> [Links -> PrefixSets]],   \* those of the selected interface
   domains  : [RoutingTables -> Seq(Entry)],
   tunnel   : [Nis -> {"", "vxlan", "mpls", "srv6"}]]

ASSUME DeviceConfigAssumption ==
  /\ BridgeDomains \cap RoutingTables = {}
  /\ Prefixes4 \cap Prefixes6 = {}
  /\ UnknownDomain \notin BridgeDomains
  /\ Specs \subseteq SpecType

VARIABLES
  spec,             \* the spec of the vpc
  bds, rts, irbs,   \* what is left of the three loops
  conf,             \* the configuration of the device in r.intents
  status            \* "running", "done", "error" or "panic"

vars == <<spec, bds, rts, irbs, conf, status>>

-----------------------------------------------------------------------------
(* Subinterfaces: <<"link", l>> for a selected one, <<"irb0", ni>> for the   *)
(* subinterface of irb0 that has the index of ni.                            *)

Link(l) == <<"link", l>>
Irb(ni) == <<"irb0", ni>>

EmptyConf == [nis |-> {}, attached |-> {}, subs |-> [s \in {} |-> {}], vxlans |-> {}]

Sub(type, addresses) == [type |-> type, addresses |-> addresses]
Plain == Sub("unset", {})

\* GetOrCreateSubinterface: what exists is kept.
SubOf(c, s) == IF s \in DOMAIN c.subs THEN c.subs[s] ELSE Plain

\* Mutant of WithSubs: the subinterfaces are attached but not created.
WithSubsAttachOnly(c, ni, new) ==
  [c EXCEPT !.nis = @ \cup {ni}, !.attached = @ \cup ({ni} \X DOMAIN new)]

\* srlPopulateSchema around its switch: the network instance, subinterfaces with the
\* given settings, and the interfaces of the network instance that refer to them.
WithSubs(c, ni, new) ==
  [nis |-> c.nis \cup {ni},
   attached |-> c.attached \cup ({ni} \X DOMAIN new),
   subs |-> [s \in DOMAIN new \cup DOMAIN c.subs |->
               IF s \in DOMAIN new THEN new[s] ELSE c.subs[s]],
   vxlans |-> c.vxlans]

\* Case INTERFACE, for all that is selected: a bridged subinterface gets its type,
\* a routed one its addresses too.
AddLinks(c, ni) ==
  WithSubs(c, ni,
    [s \in {Link(l) : l \in spec.selected[ni]} |->
       IF ni \in BridgeDomains THEN [SubOf(c, s) EXCEPT !.type = "bridged"]
       ELSE Sub("routed", spec.prefixes[ni][s[2]])])

\* Case IRB: in a bridge domain nothing is set, in a routing table the addresses
\* replace those of the subinterface.
AddBridgeIrb(c, bd) == WithSubs(c, bd, [s \in {Irb(bd)} |-> SubOf(c, s)])

\* Mutant of AddRouteIrb: the addresses go to the irb of the bridge domain.
AddRouteIrbToBridge(c, rt, entry) ==
  WithSubs(c, rt, [s \in {Irb(entry.bd)} |->
                     [SubOf(c, s) EXCEPT !.addresses = entry.prefixes]])

AddRouteIrb(c, rt, entry) ==
  WithSubs(c, rt, [s \in {Irb(rt)} |->
                     [SubOf(c, s) EXCEPT !.addresses = entry.prefixes]])

\* Case VXLAN, where the tunnel of the network instance is vxlan.
AddVxlan(c, ni) ==
  IF spec.tunnel[ni] = "vxlan"
  THEN [c EXCEPT !.nis = @ \cup {ni}, !.vxlans = @ \cup {ni}] ELSE c

-----------------------------------------------------------------------------
HasBad(prefixes) == prefixes \cap BadPrefixes # {}

LinkPrefixes(ni) == UNION {spec.prefixes[ni][l] : l \in spec.selected[ni]}

\* populateSchema returns an error, or the process panics: nobody reads what has
\* been built so far, the next reconcile starts from an empty intent.
Abort(s) == status' = s /\ conf' = EmptyConf

\* The selected interfaces of a network instance, then its vxlan interface.
PopulateNi(ni) ==
  IF spec.selected[ni] = {} THEN UNCHANGED <<conf, status>>
  ELSE IF HasBad(LinkPrefixes(ni)) THEN Abort("error")
  ELSE conf' = AddVxlan(AddLinks(conf, ni), ni) /\ UNCHANGED status

PopulateBridgeDomain(bd) ==
  /\ status = "running" /\ bd \in bds
  /\ bds' = bds \ {bd}
  /\ PopulateNi(bd)
  /\ UNCHANGED <<spec, rts, irbs>>

\* Mutant of PopulateRouteTable: it does not wait for the bridge domains.
PopulateRouteTableAnyTime(rt) ==
  /\ status = "running" /\ rt \in rts
  /\ rts' = rts \ {rt}
  /\ PopulateNi(rt)
  /\ UNCHANGED <<spec, bds, irbs>>

PopulateRouteTable(rt) ==
  /\ status = "running" /\ bds = {} /\ rt \in rts
  /\ rts' = rts \ {rt}
  /\ PopulateNi(rt)
  /\ UNCHANGED <<spec, bds, irbs>>

\* getIPv4Info and getIPv6Info come first; then both families are dereferenced,
\* although each is nil when the entry has no prefix of it.
PopulateIrb(rt, entry) ==
  IF spec.selected[entry.bd] = {} THEN UNCHANGED <<conf, status>>
  ELSE IF HasBad(entry.prefixes) THEN Abort("error")
  ELSE IF entry.prefixes \cap Prefixes4 = {} \/ entry.prefixes \cap Prefixes6 = {}
  THEN Abort("panic")
  ELSE /\ conf' = LET c == AddVxlan(AddBridgeIrb(conf, entry.bd), entry.bd)
                  IN  AddVxlan(AddRouteIrb(c, rt, entry), rt)
       /\ UNCHANGED status

\* An entry that names no bridge domain of the vpc is skipped.
PopulateRouteIrb(rt) ==
  /\ status = "running" /\ bds = {} /\ rts = {}
  /\ irbs[rt] # <<>>
  /\ \A r \in RoutingTables \ {rt} : irbs[r] \in {<<>>, spec.domains[r]}
  /\ irbs' = [irbs EXCEPT ![rt] = Tail(@)]
  /\ LET entry == Head(irbs[rt]) IN
       IF entry.bd \in BridgeDomains THEN PopulateIrb(rt, entry)
       ELSE UNCHANGED <<conf, status>>
  /\ UNCHANGED <<spec, bds, rts>>

Finish ==
  /\ status = "running" /\ bds = {} /\ rts = {}
  /\ \A rt \in RoutingTables : irbs[rt] = <<>>
  /\ status' = "done"
  /\ UNCHANGED <<spec, bds, rts, irbs, conf>>

-----------------------------------------------------------------------------
Init ==
  /\ spec \in Specs
  /\ bds = BridgeDomains /\ rts = RoutingTables
  /\ irbs = spec.domains
  /\ conf = EmptyConf /\ status = "running"

Next ==
  \/ \E bd \in BridgeDomains : PopulateBridgeDomain(bd)
  \/ \E rt \in RoutingTables : PopulateRouteTable(rt) \/ PopulateRouteIrb(rt)
  \/ Finish

Spec == Init /\ [][Next]_vars

-----------------------------------------------------------------------------
(* Properties                                                               *)

Subs == {Link(l) : l \in Links} \cup {Irb(ni) : ni \in Nis}
SubType == [type : {"unset", "bridged", "routed"}, addresses : PrefixSets]

\* A configuration whose references resolve: what is attached to a network
\* instance, and what has a vxlan interface, exists.
ConfOK(c) ==
  /\ c = [nis |-> c.nis, attached |-> c.attached, subs |-> c.subs, vxlans |-> c.vxlans]
  /\ c.vxlans \subseteq c.nis /\ c.nis \subseteq Nis
  /\ DOMAIN c.subs \subseteq Subs
  /\ c.subs \in [DOMAIN c.subs -> SubType]
  /\ c.attached \subseteq c.nis \X DOMAIN c.subs

\* Every variable has its type, and the references of the configuration resolve.
TypeOK ==
  /\ spec \in Specs
  /\ bds \subseteq BridgeDomains /\ rts \subseteq RoutingTables
  /\ irbs \in [RoutingTables -> Seq(Entry)]
  /\ ConfOK(conf)
  /\ status \in {"running", "done", "error", "panic"}

\* The entries of rt that lead to an irb on the device, by their places, and the last.
IrbPlaces(rt) ==
  {i \in DOMAIN spec.domains[rt] :
     /\ spec.domains[rt][i].bd \in BridgeDomains
     /\ spec.selected[spec.domains[rt][i].bd] # {}}

LastIrb(rt) == CHOOSE i \in IrbPlaces(rt) : \A j \in IrbPlaces(rt) : j <= i

\* Subinterface s is to be attached to ni: it is selected, or it is the irb of a
\* routing table or of one of its bridge domains.
Joins(ni, s) ==
  \/ \E l \in spec.selected[ni] : s = Link(l)
  \/ /\ s = Irb(ni)
     /\ \E rt \in RoutingTables : \E i \in IrbPlaces(rt) :
          ni \in {rt, spec.domains[rt][i].bd}

Users(l) == {ni \in Nis : l \in spec.selected[ni]}

ExpectedSub(s) ==
  CASE s[1] = "link" ->
         LET routed == Users(s[2]) \cap RoutingTables IN
         IF routed = {} THEN Sub("bridged", {})
         ELSE Sub("routed", spec.prefixes[CHOOSE rt \in routed : TRUE][s[2]])
    [] s[1] = "irb0" /\ s[2] \in RoutingTables ->
         Sub("unset", spec.domains[s[2]][LastIrb(s[2])].prefixes)
    [] OTHER -> Plain

Expected ==
  LET nis == {ni \in Nis : \E s \in Subs : Joins(ni, s)}
  IN  [nis |-> nis,
       attached |-> {p \in Nis \X Subs : Joins(p[1], p[2])},
       subs |-> [s \in {t \in Subs : \E ni \in Nis : Joins(ni, t)} |-> ExpectedSub(s)],
       vxlans |-> {ni \in nis : spec.tunnel[ni] = "vxlan"}]

SharedByTables ==
  \E l \in Links : \E r, t \in Users(l) \cap RoutingTables : r # t

\* The same spec always gives the same configuration, whatever the order of the
\* Go maps, also when a bridge domain and a routing table select the same
\* subinterface: a device is not rewritten, and the controller not woken, by
\* reconciles of an unchanged vpc.  (Two routing tables that share one differ.)
OrderIndependent == status = "done" /\ ~SharedByTables => conf = Expected

\* The network instances of a configuration with the subinterface of l.
Attached(c, l) == {ni \in Nis : <<ni, Link(l)>> \in c.attached}

\* Subinterface l of a configuration has the settings of one routing table that
\* it is attached to, or of a bridge domain when there is none.
IsWhole(c, l) ==
  LET routed == Attached(c, l) \cap RoutingTables
  IN  c.subs[Link(l)] \in IF routed = {} THEN {Sub("bridged", {})}
                          ELSE {Sub("routed", spec.prefixes[rt][l]) : rt \in routed}

Whole(c) == \A l \in Links : Link(l) \in DOMAIN c.subs => IsWhole(c, l)

\* A subinterface that several network instances select is never torn: it holds
\* the settings of one of them, type and addresses together, and the settings of
\* a routing table win over those of a bridge domain.
NoTornSubinterface == Whole(conf)

\* Why it holds: a bridge domain keeps the addresses it finds, and finds none,
\* since no routing table has attached a subinterface while bridge domains are left.
BridgesFirst ==
  bds # {} => \A l \in Links : Attached(conf, l) \cap RoutingTables = {}

\* Why OrderIndependent holds: while the loops run, the configuration is determined by
\* what they have visited, and of the irb of a routing table by the last entry visited.
Visited(rt) == Len(spec.domains[rt]) - Len(irbs[rt])

IsRest(rt) ==
  /\ Len(irbs[rt]) <= Len(spec.domains[rt])
  /\ \A k \in DOMAIN irbs[rt] : irbs[rt][k] = spec.domains[rt][Visited(rt) + k]

SeenPlaces(rt) == {i \in IrbPlaces(rt) : i <= Visited(rt)}

Joined ==
  {p \in Nis \X Subs :
     \/ p[1] \notin bds \cup rts /\ \E l \in spec.selected[p[1]] : p[2] = Link(l)
     \/ /\ p[2] = Irb(p[1])
        /\ \E rt \in RoutingTables : \E i \in SeenPlaces(rt) :
             p[1] \in {rt, spec.domains[rt][i].bd}}

\* A configuration that has nothing but what the pairs in J need.
Shape(c, J) ==
  /\ c.attached = J
  /\ c.nis = {ni \in Nis : \E s \in Subs : <<ni, s>> \in J}
  /\ DOMAIN c.subs = {s \in Subs : \E ni \in Nis : <<ni, s>> \in J}
  /\ c.vxlans = {ni \in c.nis : spec.tunnel[ni] = "vxlan"}

\* Its irb of a routing table has the addresses of the last of the places in S.
TableIrb(c, rt, S) ==
  Irb(rt) \in DOMAIN c.subs =>
    \E i \in S : /\ \A j \in S : j <= i
                 /\ c.subs[Irb(rt)] = Sub("unset", spec.domains[rt][i].prefixes)

BridgeIrb(c, bd) == Irb(bd) \in DOMAIN c.subs => c.subs[Irb(bd)] = Plain

SoFar ==
  /\ \A rt \in RoutingTables : IsRest(rt)
  /\ status \in {"running", "done"} =>
       /\ Shape(conf, Joined)
       /\ \A bd \in BridgeDomains : BridgeIrb(conf, bd)
       /\ \A rt \in RoutingTables : TableIrb(conf, rt, SeenPlaces(rt))
  /\ status = "done" =>
       bds = {} /\ rts = {} /\ \A rt \in RoutingTables : irbs[rt] = <<>>

\* The gateway of a bridge domain: all prefixes a routing table lists for its
\* bridge domains are configured on its irb, as examples/multus.yaml expects of
\* the three bridge domains of its routing table.
IrbPrefixesKept ==
  status = "done" =>
    \A rt \in RoutingTables : \A i \in IrbPlaces(rt) :
      spec.domains[rt][i].prefixes \subseteq conf.subs[Irb(rt)].addresses

\* A routing table may list a bridge domain with prefixes of one family only:
\* both lists are optional (vpc_types.go:77-78).
NoPanic == status # "panic"

\* The bgp-evpn instance of every network instance refers to vxlan0.<index>
\* (populate-srl.go:218), so that the vxlan interface must exist.
VxlanReferenceResolves == status = "done" => conf.nis \subseteq conf.vxlans
=============================================================================
