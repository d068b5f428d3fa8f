------------------------- MODULE DeviceConfigProofs -------------------------
(***************************************************************************)
(* Theorems about DeviceConfig, for all sets of network instances, of      *)
(* subinterfaces and of prefixes, and for every spec: the references in    *)
(* the configuration of a device resolve, no subinterface is torn, and the *)
(* result does not depend on the order in which Go visits its maps.        *)
(***************************************************************************)
EXTENDS DeviceConfig, TLAPS

\* The two kinds of subinterface are different, and each is told by its subject.
LEMMA SubNames ==
  /\ \A l, k \in Links : Link(l) = Link(k) => l = k
  /\ \A l \in Links, ni \in Nis : Link(l) # Irb(ni)
  /\ \A l \in Links : Link(l)[2] = l /\ Link(l) \in Subs
  /\ \A ni \in Nis : Irb(ni) \in Subs
BY DEF Link, Irb, Subs

\* The parts of the spec that the loops read.
LEMMA SpecTyped ==
  ASSUME spec \in Specs
  PROVE  /\ \A ni \in Nis : spec.selected[ni] \subseteq Links
         /\ \A ni \in Nis : \A l \in Links : spec.prefixes[ni][l] \in PrefixSets
         /\ \A rt \in RoutingTables : spec.domains[rt] \in Seq(Entry)
         /\ spec.domains \in [RoutingTables -> Seq(Entry)]
<1>1. spec \in SpecType
  BY DeviceConfigAssumption
<1>2. /\ spec.selected \in [Nis -> SUBSET Links]
      /\ spec.prefixes \in [Nis -> [Links -> PrefixSets]]
      /\ spec.domains \in [RoutingTables -> Seq(Entry)]
  <2>. HIDE DEF Nis, Entry, PrefixSets
  <2>. QED BY <1>1 DEF SpecType
<1>. QED BY <1>2

\* What WithSubs makes of each part of a configuration.
LEMMA WithSubsParts ==
  ASSUME NEW c, NEW ni, NEW new, NEW d, d = WithSubs(c, ni, new)
  PROVE  /\ d.nis = c.nis \cup {ni}
         /\ d.attached = c.attached \cup ({ni} \X DOMAIN new)
         /\ d.vxlans = c.vxlans
         /\ DOMAIN d.subs = DOMAIN new \cup DOMAIN c.subs
         /\ \A s \in DOMAIN new : d.subs[s] = new[s]
         /\ \A s \in DOMAIN c.subs \ DOMAIN new : d.subs[s] = c.subs[s]
BY DEF WithSubs

\* Subinterfaces that exist and have their type keep a configuration well-formed.
LEMMA WithSubsOK ==
  ASSUME NEW c, ConfOK(c), NEW ni \in Nis, NEW new,
         DOMAIN new \subseteq Subs, \A s \in DOMAIN new : new[s] \in SubType
  PROVE  ConfOK(WithSubs(c, ni, new))
<1> DEFINE d == WithSubs(c, ni, new)
<1>1. /\ d.nis = c.nis \cup {ni}
      /\ d.attached = c.attached \cup ({ni} \X DOMAIN new)
      /\ d.vxlans = c.vxlans
      /\ DOMAIN d.subs = DOMAIN new \cup DOMAIN c.subs
      /\ \A s \in DOMAIN new : d.subs[s] = new[s]
      /\ \A s \in DOMAIN c.subs \ DOMAIN new : d.subs[s] = c.subs[s]
  BY WithSubsParts
<1>2. /\ d = [nis |-> d.nis, attached |-> d.attached,
              subs |-> d.subs, vxlans |-> d.vxlans]
      /\ d.subs = [s \in DOMAIN d.subs |-> d.subs[s]]
  BY DEF WithSubs
<1> HIDE DEF d
<1>3. d.vxlans \subseteq d.nis /\ d.nis \subseteq Nis /\ DOMAIN d.subs \subseteq Subs
  BY <1>1 DEF ConfOK
<1>4. \A s \in DOMAIN d.subs : d.subs[s] \in SubType
  BY <1>1 DEF ConfOK
<1>5. d.subs \in [DOMAIN d.subs -> SubType]
  BY <1>2, <1>4
<1>6. d.attached \subseteq d.nis \X DOMAIN d.subs
  BY <1>1 DEF ConfOK
<1> QED BY <1>2, <1>3, <1>5, <1>6 DEF ConfOK, d

\* A subinterface is a record with its type and addresses, also one just created.
LEMMA SubOfOK ==
  ASSUME NEW c, ConfOK(c), NEW s
  PROVE  SubOf(c, s) \in SubType
BY DEF ConfOK, SubOf, SubType, Plain, Sub, PrefixSets

\* A vxlan interface changes neither the subinterfaces nor what is attached.
LEMMA AddVxlanOK ==
  ASSUME NEW c, ConfOK(c), NEW ni \in Nis
  PROVE  /\ ConfOK(AddVxlan(c, ni))
         /\ AddVxlan(c, ni).subs = c.subs
         /\ AddVxlan(c, ni).attached = c.attached
BY DEF ConfOK, AddVxlan

-----------------------------------------------------------------------------
\* The settings of a subinterface depend on nothing but the subinterface and what
\* it is attached to.
LEMMA SameLink ==
  ASSUME NEW c, NEW d, NEW l \in Links, IsWhole(c, l),
         Attached(d, l) = Attached(c, l), d.subs[Link(l)] = c.subs[Link(l)]
  PROVE  IsWhole(d, l)
BY DEF IsWhole

\* WithSubs attaches a subinterface to ni, or leaves it as it is.
LEMMA AttachedBy ==
  ASSUME NEW c, ConfOK(c), NEW ni \in Nis, NEW new, NEW l \in Links
  PROVE  Attached(WithSubs(c, ni, new), l) =
           Attached(c, l) \cup (IF Link(l) \in DOMAIN new THEN {ni} ELSE {})
<1> DEFINE d == WithSubs(c, ni, new)
<1>1. d.attached = c.attached \cup ({ni} \X DOMAIN new)
  BY WithSubsParts
<1> HIDE DEF d
<1>2. ASSUME NEW k \in Nis
      PROVE  <<k, Link(l)>> \in d.attached <=>
               <<k, Link(l)>> \in c.attached \/ (k = ni /\ Link(l) \in DOMAIN new)
  BY <1>1
<1>3. Attached(d, l) = Attached(c, l) \cup (IF Link(l) \in DOMAIN new THEN {ni} ELSE {})
  BY <1>2 DEF Attached
<1> QED BY <1>3 DEF d

\* An irb does not touch the selected subinterfaces.
LEMMA IrbKeepsLinks ==
  ASSUME NEW c, ConfOK(c), Whole(c), NEW ni \in Nis, NEW new, DOMAIN new = {Irb(ni)}
  PROVE  /\ Whole(WithSubs(c, ni, new))
         /\ \A l \in Links : Attached(WithSubs(c, ni, new), l) = Attached(c, l)
<1> DEFINE d == WithSubs(c, ni, new)
<1>1. \A l \in Links : Link(l) \notin DOMAIN new
  BY SubNames
<1>2. \A l \in Links :
        Attached(d, l) = Attached(c, l) \cup (IF Link(l) \in DOMAIN new THEN {ni} ELSE {})
  BY AttachedBy
<1>3. /\ DOMAIN d.subs = DOMAIN new \cup DOMAIN c.subs
      /\ \A s \in DOMAIN c.subs \ DOMAIN new : d.subs[s] = c.subs[s]
  BY WithSubsParts
<1> HIDE DEF d
<1>4. \A l \in Links : Attached(d, l) = Attached(c, l)
  BY <1>1, <1>2
<1>5. ASSUME NEW l \in Links, Link(l) \in DOMAIN d.subs  PROVE IsWhole(d, l)
  <2>1. Link(l) \in DOMAIN c.subs /\ d.subs[Link(l)] = c.subs[Link(l)]
    BY <1>1, <1>3, <1>5
  <2> QED BY <1>4, <2>1, SameLink DEF Whole
<1> QED BY <1>4, <1>5 DEF Whole, d

\* The irb of a bridge domain.
LEMMA AddBridgeIrbOK ==
  ASSUME NEW c, ConfOK(c), Whole(c), NEW bd \in BridgeDomains
  PROVE  LET d == AddBridgeIrb(c, bd) IN
         ConfOK(d) /\ Whole(d) /\ \A l \in Links : Attached(d, l) = Attached(c, l)
<1> DEFINE new == [s \in {Irb(bd)} |-> SubOf(c, s)]
<1>1. bd \in Nis
  BY DEF Nis
<1>2. \A s \in DOMAIN new : new[s] \in SubType
  BY SubOfOK
<1>3. DOMAIN new = {Irb(bd)} /\ DOMAIN new \subseteq Subs
  BY <1>1, SubNames
<1> HIDE DEF new
<1>4. ConfOK(WithSubs(c, bd, new))
  BY <1>1, <1>2, <1>3, WithSubsOK
<1>5. /\ Whole(WithSubs(c, bd, new))
      /\ \A l \in Links : Attached(WithSubs(c, bd, new), l) = Attached(c, l)
  BY <1>1, <1>3, IrbKeepsLinks
<1> QED BY <1>4, <1>5 DEF AddBridgeIrb, new

\* The irb of a routing table, with the prefixes of the entry.
LEMMA AddRouteIrbOK ==
  ASSUME NEW c, ConfOK(c), Whole(c), NEW rt \in RoutingTables, NEW entry \in Entry
  PROVE  LET d == AddRouteIrb(c, rt, entry) IN
         ConfOK(d) /\ Whole(d) /\ \A l \in Links : Attached(d, l) = Attached(c, l)
<1> DEFINE new == [s \in {Irb(rt)} |->
                     [SubOf(c, s) EXCEPT !.addresses = entry.prefixes]]
<1>1. rt \in Nis
  BY DEF Nis
<1>2. \A s \in DOMAIN new : new[s] \in SubType
  BY SubOfOK DEF SubType, Entry
<1>3. DOMAIN new = {Irb(rt)} /\ DOMAIN new \subseteq Subs
  BY <1>1, SubNames
<1> HIDE DEF new
<1>4. ConfOK(WithSubs(c, rt, new))
  BY <1>1, <1>2, <1>3, WithSubsOK
<1>5. /\ Whole(WithSubs(c, rt, new))
      /\ \A l \in Links : Attached(WithSubs(c, rt, new), l) = Attached(c, l)
  BY <1>1, <1>3, IrbKeepsLinks
<1> QED BY <1>4, <1>5 DEF AddRouteIrb, new

-----------------------------------------------------------------------------
\* What case INTERFACE gives to the subinterfaces selected by ni.
LinksOf(c, ni) ==
  [s \in {Link(l) : l \in spec.selected[ni]} |->
     IF ni \in BridgeDomains THEN [SubOf(c, s) EXCEPT !.type = "bridged"]
     ELSE Sub("routed", spec.prefixes[ni][s[2]])]

\* They are subinterfaces of the device, each with its type.
LEMMA LinksOfOK ==
  ASSUME NEW c, ConfOK(c), spec \in Specs, NEW ni \in Nis
  PROVE  /\ spec.selected[ni] \subseteq Links
         /\ DOMAIN LinksOf(c, ni) = {Link(l) : l \in spec.selected[ni]}
         /\ DOMAIN LinksOf(c, ni) \subseteq Subs
         /\ \A s \in DOMAIN LinksOf(c, ni) : LinksOf(c, ni)[s] \in SubType
<1>2. spec.selected[ni] \subseteq Links
  BY SpecTyped
<1>3. \A l \in Links : spec.prefixes[ni][l] \in PrefixSets
  BY SpecTyped
<1>4. DOMAIN LinksOf(c, ni) = {Link(l) : l \in spec.selected[ni]}
  BY DEF LinksOf
<1>5. DOMAIN LinksOf(c, ni) \subseteq Subs
  BY <1>2, <1>4, SubNames
<1>6. ASSUME NEW l \in spec.selected[ni]  PROVE LinksOf(c, ni)[Link(l)] \in SubType
  <2>1. SubOf(c, Link(l)) \in SubType
    BY SubOfOK
  <2>2. [SubOf(c, Link(l)) EXCEPT !.type = "bridged"] \in SubType
    BY <2>1 DEF SubType
  <2>3. Sub("routed", spec.prefixes[ni][Link(l)[2]]) \in SubType
    BY <1>2, <1>3, SubNames DEF Sub, SubType
  <2> QED BY <2>2, <2>3 DEF LinksOf
<1> QED BY <1>2, <1>4, <1>5, <1>6

\* The selected subinterfaces are attached to ni, and no other changes.
LEMMA AddLinksOK ==
  ASSUME NEW c, ConfOK(c), spec \in Specs, NEW ni \in Nis
  PROVE  LET d == AddLinks(c, ni) IN
         /\ ConfOK(d)
         /\ \A l \in Links : l \in spec.selected[ni] =>
              /\ Attached(d, l) = Attached(c, l) \cup {ni}
              /\ d.subs[Link(l)] = LinksOf(c, ni)[Link(l)]
         /\ \A l \in Links : l \notin spec.selected[ni] =>
              /\ Attached(d, l) = Attached(c, l)
              /\ Link(l) \in DOMAIN d.subs =>
                   Link(l) \in DOMAIN c.subs /\ d.subs[Link(l)] = c.subs[Link(l)]
<1> DEFINE new == LinksOf(c, ni)
           d == WithSubs(c, ni, new)
<1>1. AddLinks(c, ni) = d
  BY DEF AddLinks, LinksOf
<1>2. /\ DOMAIN new = {Link(l) : l \in spec.selected[ni]}
      /\ DOMAIN new \subseteq Subs
      /\ \A s \in DOMAIN new : new[s] \in SubType
      /\ spec.selected[ni] \subseteq Links
  BY LinksOfOK
<1> HIDE DEF new
<1>3. \A l \in Links : Link(l) \in DOMAIN new <=> l \in spec.selected[ni]
  BY <1>2, SubNames
<1>4. \A l \in Links : Attached(d, l) =
                         Attached(c, l) \cup (IF Link(l) \in DOMAIN new THEN {ni} ELSE {})
  BY AttachedBy
<1>5. /\ DOMAIN d.subs = DOMAIN new \cup DOMAIN c.subs
      /\ \A s \in DOMAIN new : d.subs[s] = new[s]
      /\ \A s \in DOMAIN c.subs \ DOMAIN new : d.subs[s] = c.subs[s]
  BY WithSubsParts
<1>6. ConfOK(d)
  BY <1>2, WithSubsOK
<1> HIDE DEF d
<1> QED BY <1>1, <1>3, <1>4, <1>5, <1>6 DEF new

\* A bridge domain finds no addresses, so that what it leaves is whole.
LEMMA AddLinksOfBridge ==
  ASSUME NEW c, ConfOK(c), Whole(c), spec \in Specs, NEW bd \in BridgeDomains,
         \A l \in Links : Attached(c, l) \cap RoutingTables = {}
  PROVE  LET d == AddLinks(c, bd) IN
         Whole(d) /\ \A l \in Links : Attached(d, l) \cap RoutingTables = {}
<1> DEFINE d == AddLinks(c, bd)
<1>1. bd \in Nis /\ bd \notin RoutingTables
  BY DeviceConfigAssumption DEF Nis
<1>2. /\ \A l \in Links : l \in spec.selected[bd] =>
           /\ Attached(d, l) = Attached(c, l) \cup {bd}
           /\ d.subs[Link(l)] = LinksOf(c, bd)[Link(l)]
      /\ \A l \in Links : l \notin spec.selected[bd] =>
           /\ Attached(d, l) = Attached(c, l)
           /\ Link(l) \in DOMAIN d.subs =>
                Link(l) \in DOMAIN c.subs /\ d.subs[Link(l)] = c.subs[Link(l)]
  BY <1>1, AddLinksOK
<1> HIDE DEF d
<1>3. \A l \in Links : Attached(d, l) \cap RoutingTables = {}
  BY <1>1, <1>2
<1>4. ASSUME NEW l \in Links, l \in spec.selected[bd]  PROVE IsWhole(d, l)
  <2>1. d.subs[Link(l)] = [SubOf(c, Link(l)) EXCEPT !.type = "bridged"]
    BY <1>2, <1>4 DEF LinksOf
  <2>2. Link(l) \in DOMAIN c.subs => c.subs[Link(l)] = Sub("bridged", {})
    BY DEF Whole, IsWhole
  <2>3. SubOf(c, Link(l)) \in {Sub("bridged", {}), Sub("unset", {})}
    BY <2>2 DEF SubOf, Plain
  <2>4. d.subs[Link(l)] = Sub("bridged", {})
    BY <2>1, <2>3 DEF Sub
  <2> QED BY <1>3, <2>4 DEF IsWhole
<1>5. ASSUME NEW l \in Links, l \notin spec.selected[bd], Link(l) \in DOMAIN d.subs
      PROVE  IsWhole(d, l)
  BY <1>2, <1>5, SameLink DEF Whole
<1> QED BY <1>3, <1>4, <1>5 DEF Whole, d

\* A routing table replaces the settings as a whole.
LEMMA AddLinksOfTable ==
  ASSUME NEW c, ConfOK(c), Whole(c), spec \in Specs, NEW rt \in RoutingTables
  PROVE  Whole(AddLinks(c, rt))
<1> DEFINE d == AddLinks(c, rt)
<1>1. rt \in Nis /\ rt \notin BridgeDomains
  BY DeviceConfigAssumption DEF Nis
<1>2. /\ \A l \in Links : l \in spec.selected[rt] =>
           /\ Attached(d, l) = Attached(c, l) \cup {rt}
           /\ d.subs[Link(l)] = LinksOf(c, rt)[Link(l)]
      /\ \A l \in Links : l \notin spec.selected[rt] =>
           /\ Attached(d, l) = Attached(c, l)
           /\ Link(l) \in DOMAIN d.subs =>
                Link(l) \in DOMAIN c.subs /\ d.subs[Link(l)] = c.subs[Link(l)]
  BY <1>1, AddLinksOK
<1> HIDE DEF d
<1>3. ASSUME NEW l \in Links, l \in spec.selected[rt]  PROVE IsWhole(d, l)
  <2>1. d.subs[Link(l)] = Sub("routed", spec.prefixes[rt][l])
    BY <1>1, <1>2, <1>3, SubNames DEF LinksOf
  <2>2. rt \in Attached(d, l) \cap RoutingTables
    BY <1>2, <1>3
  <2> QED BY <2>1, <2>2 DEF IsWhole
<1>4. ASSUME NEW l \in Links, l \notin spec.selected[rt], Link(l) \in DOMAIN d.subs
      PROVE  IsWhole(d, l)
  BY <1>2, <1>4, SameLink DEF Whole
<1> QED BY <1>3, <1>4 DEF Whole, d

\* An aborted configuration is empty, hence well-formed and whole.
LEMMA EmptyConfOK ==
  /\ ConfOK(EmptyConf) /\ Whole(EmptyConf)
  /\ \A l \in Links : Attached(EmptyConf, l) = {}
BY DEF ConfOK, Whole, EmptyConf, Attached

\* A vxlan interface leaves every subinterface as whole as it was.
LEMMA AddVxlanWhole ==
  ASSUME NEW c, ConfOK(c), Whole(c), NEW ni \in Nis
  PROVE  LET d == AddVxlan(c, ni) IN
         ConfOK(d) /\ Whole(d) /\ \A l \in Links : Attached(d, l) = Attached(c, l)
<1> DEFINE d == AddVxlan(c, ni)
<1>1. ConfOK(d) /\ d.subs = c.subs /\ d.attached = c.attached
  BY AddVxlanOK
<1> HIDE DEF d
<1>2. \A l \in Links : Attached(d, l) = Attached(c, l)
  BY <1>1 DEF Attached
<1>3. Whole(d)
  BY <1>1, <1>2, SameLink DEF Whole
<1> QED BY <1>1, <1>2, <1>3 DEF d

-----------------------------------------------------------------------------
\* The inductive invariant.
ConfInv == TypeOK /\ NoTornSubinterface /\ BridgesFirst

Statuses == {"running", "done", "error", "panic"}

\* What is left to show of a step that does not change the spec.
LEMMA StepKeeps ==
  ASSUME TypeOK, UNCHANGED spec,
         bds' \subseteq BridgeDomains, rts' \subseteq RoutingTables,
         irbs' \in [RoutingTables -> Seq(Entry)], status' \in Statuses,
         ConfOK(conf'), Whole(conf'),
         bds' # {} => \A l \in Links : Attached(conf', l) \cap RoutingTables = {}
  PROVE  ConfInv'
<1>1. TypeOK'
  BY DEF TypeOK, Statuses, ConfOK, SubType, Subs, PrefixSets, Nis
<1>2. NoTornSubinterface'
  BY DEF NoTornSubinterface, Whole, IsWhole, Attached, Link, Sub
<1>3. BridgesFirst'
  BY DEF BridgesFirst, Attached, Link, Nis
<1> QED BY <1>1, <1>2, <1>3 DEF ConfInv

\* The interfaces of a network instance and its vxlan interface.
LEMMA PopulateNiKeeps ==
  ASSUME ConfInv, NEW ni \in Nis, PopulateNi(ni), status = "running",
         ni \in BridgeDomains =>
           \A l \in Links : Attached(conf, l) \cap RoutingTables = {}
  PROVE  /\ ConfOK(conf') /\ Whole(conf') /\ status' \in Statuses
         /\ ni \in BridgeDomains =>
              \A l \in Links : Attached(conf', l) \cap RoutingTables = {}
<1>1. CASE conf' = conf /\ status' = status
  BY <1>1 DEF ConfInv, TypeOK, NoTornSubinterface, Statuses
<1>2. CASE Abort("error")
  BY <1>2, EmptyConfOK DEF Abort, Statuses
<1>3. CASE conf' = AddVxlan(AddLinks(conf, ni), ni) /\ status' = status
  <2> DEFINE d == AddLinks(conf, ni)
  <2>1. ConfOK(conf) /\ Whole(conf) /\ spec \in Specs
    BY DEF ConfInv, TypeOK, NoTornSubinterface
  <2>2. ConfOK(d)
    BY <2>1, AddLinksOK
  <2>3. /\ Whole(d)
        /\ ni \in BridgeDomains => \A l \in Links : Attached(d, l) \cap RoutingTables = {}
    <3>1. CASE ni \in BridgeDomains
      BY <2>1, <3>1, AddLinksOfBridge
    <3>2. CASE ni \in RoutingTables
      BY <2>1, <3>2, AddLinksOfTable, DeviceConfigAssumption
    <3> QED BY <3>1, <3>2 DEF Nis
  <2> HIDE DEF d
  <2>4. /\ ConfOK(AddVxlan(d, ni)) /\ Whole(AddVxlan(d, ni))
        /\ \A l \in Links : Attached(AddVxlan(d, ni), l) = Attached(d, l)
    BY <2>2, <2>3, AddVxlanWhole
  <2> QED BY <1>3, <2>3, <2>4 DEF d, Statuses
<1> QED BY <1>1, <1>2, <1>3 DEF PopulateNi

\* One entry of the bridge domains of a routing table.
LEMMA PopulateIrbKeeps ==
  ASSUME ConfInv, NEW rt \in RoutingTables, NEW entry \in Entry,
         entry.bd \in BridgeDomains, PopulateIrb(rt, entry), status = "running"
  PROVE  ConfOK(conf') /\ Whole(conf') /\ status' \in Statuses
<1>1. CASE conf' = conf /\ status' = status
  BY <1>1 DEF ConfInv, TypeOK, NoTornSubinterface, Statuses
<1>2. CASE Abort("error") \/ Abort("panic")
  BY <1>2, EmptyConfOK DEF Abort, Statuses
<1>3. CASE /\ conf' = LET c == AddVxlan(AddBridgeIrb(conf, entry.bd), entry.bd)
                     IN  AddVxlan(AddRouteIrb(c, rt, entry), rt)
           /\ status' = status
  <2> DEFINE a == AddBridgeIrb(conf, entry.bd)
             b == AddVxlan(a, entry.bd)
             c == AddRouteIrb(b, rt, entry)
  <2>1. ConfOK(a) /\ Whole(a)
    BY AddBridgeIrbOK DEF ConfInv, TypeOK, NoTornSubinterface
  <2> HIDE DEF a
  <2>2. ConfOK(b) /\ Whole(b)
    BY <2>1, AddVxlanWhole DEF Nis
  <2> HIDE DEF b
  <2>3. ConfOK(c) /\ Whole(c)
    BY <2>2, AddRouteIrbOK
  <2> HIDE DEF c
  <2>4. ConfOK(AddVxlan(c, rt)) /\ Whole(AddVxlan(c, rt))
    BY <2>3, AddVxlanWhole DEF Nis
  <2> QED BY <1>3, <2>4 DEF a, b, c, Statuses
<1> QED BY <1>1, <1>2, <1>3 DEF PopulateIrb

\* The invariant holds initially and every step keeps it.
LEMMA ConfInvariant == Spec => []ConfInv
<1>1. Init => ConfInv
  <2> SUFFICES ASSUME Init PROVE ConfInv
    OBVIOUS
  <2>1. irbs \in [RoutingTables -> Seq(Entry)]
    BY SpecTyped DEF Init
  <2>2. TypeOK
    BY <2>1, EmptyConfOK DEF Init, TypeOK
  <2>3. NoTornSubinterface /\ BridgesFirst
    BY EmptyConfOK DEF Init, NoTornSubinterface, BridgesFirst
  <2> QED BY <2>2, <2>3 DEF ConfInv
<1>2. ConfInv /\ [Next]_vars => ConfInv'
  <2> SUFFICES ASSUME ConfInv, [Next]_vars PROVE ConfInv'
    OBVIOUS
  <2> USE DEF Statuses
  <2>0. /\ TypeOK /\ ConfOK(conf) /\ Whole(conf)
        /\ bds \subseteq BridgeDomains /\ rts \subseteq RoutingTables
        /\ irbs \in [RoutingTables -> Seq(Entry)] /\ status \in Statuses
        /\ bds # {} => \A l \in Links : Attached(conf, l) \cap RoutingTables = {}
    BY DEF ConfInv, TypeOK, NoTornSubinterface, BridgesFirst
  <2>1. ASSUME NEW bd \in BridgeDomains, PopulateBridgeDomain(bd)  PROVE ConfInv'
    <3>1. /\ ConfOK(conf') /\ Whole(conf') /\ status' \in Statuses
          /\ \A l \in Links : Attached(conf', l) \cap RoutingTables = {}
      BY <2>0, <2>1, PopulateNiKeeps DEF PopulateBridgeDomain, Nis
    <3> QED BY <2>0, <2>1, <3>1, StepKeeps DEF PopulateBridgeDomain
  <2>2. ASSUME NEW rt \in RoutingTables, PopulateRouteTable(rt)  PROVE ConfInv'
    <3>1. ConfOK(conf') /\ Whole(conf') /\ status' \in Statuses
      BY <2>2, PopulateNiKeeps, DeviceConfigAssumption DEF PopulateRouteTable, Nis
    <3> QED BY <2>0, <2>2, <3>1, StepKeeps DEF PopulateRouteTable
  <2>3. ASSUME NEW rt \in RoutingTables, PopulateRouteIrb(rt)  PROVE ConfInv'
    <3>1. irbs[rt] \in Seq(Entry) /\ irbs[rt] # <<>>
      BY <2>0, <2>3 DEF PopulateRouteIrb
    <3>2. Head(irbs[rt]) \in Entry /\ Tail(irbs[rt]) \in Seq(Entry)
      BY <3>1
    <3>3. irbs' \in [RoutingTables -> Seq(Entry)]
      BY <2>0, <2>3, <3>2 DEF PopulateRouteIrb
    <3>4. ConfOK(conf') /\ Whole(conf') /\ status' \in Statuses
      <4>1. CASE Head(irbs[rt]).bd \in BridgeDomains
        BY <2>3, <3>2, <4>1, PopulateIrbKeeps DEF PopulateRouteIrb
      <4>2. CASE Head(irbs[rt]).bd \notin BridgeDomains
        BY <2>0, <2>3, <4>2 DEF PopulateRouteIrb
      <4> QED BY <4>1, <4>2
    <3> QED BY <2>0, <2>3, <3>3, <3>4, StepKeeps DEF PopulateRouteIrb
  <2>4. CASE Finish
    BY <2>0, <2>4, StepKeeps DEF Finish
  <2>5. CASE UNCHANGED vars
    BY <2>0, <2>5, StepKeeps DEF vars
  <2> QED BY <2>1, <2>2, <2>3, <2>4, <2>5 DEF Next
<1> QED BY <1>1, <1>2, PTL DEF Spec

\* The configuration that populateSchema builds never refers to a subinterface or
\* a network instance that it has not created.
THEOREM ConfCorrect == Spec => []TypeOK
<1>1. ConfInv => TypeOK
  BY DEF ConfInv
<1> QED BY <1>1, ConfInvariant, PTL

\* A subinterface that several network instances select has the settings of one of
\* them, whatever the order in which Go visits its maps.
THEOREM NoTornCorrect == Spec => []NoTornSubinterface
<1>1. ConfInv => NoTornSubinterface
  BY DEF ConfInv
<1> QED BY <1>1, ConfInvariant, PTL

-----------------------------------------------------------------------------
(* The configuration is a function of the spec                              *)

\* WithSubs followed by AddVxlan needs nothing but the new pairs.
LEMMA ShapeGrows ==
  ASSUME NEW c, NEW J, J \subseteq Nis \X Subs, Shape(c, J), NEW ni \in Nis, NEW new,
         DOMAIN new \subseteq Subs, DOMAIN new # {}
  PROVE  Shape(AddVxlan(WithSubs(c, ni, new), ni), J \cup ({ni} \X DOMAIN new))
<1>. DEFINE d == WithSubs(c, ni, new)
            e == AddVxlan(d, ni)
            K == J \cup ({ni} \X DOMAIN new)
<1>1. /\ d.nis = c.nis \cup {ni}
      /\ d.attached = c.attached \cup ({ni} \X DOMAIN new)
      /\ d.vxlans = c.vxlans
      /\ DOMAIN d.subs = DOMAIN new \cup DOMAIN c.subs
  BY WithSubsParts
<1>2. d = [nis |-> d.nis, attached |-> d.attached, subs |-> d.subs, vxlans |-> d.vxlans]
  BY DEF WithSubs
<1>. HIDE DEF d
<1>3. /\ e.nis = d.nis /\ e.attached = d.attached /\ e.subs = d.subs
      /\ e.vxlans = d.vxlans \cup (IF spec.tunnel[ni] = "vxlan" THEN {ni} ELSE {})
  <2>1. CASE spec.tunnel[ni] = "vxlan"
    BY <1>1, <1>2, <2>1 DEF AddVxlan
  <2>2. CASE spec.tunnel[ni] # "vxlan"
    BY <1>1, <1>2, <2>2 DEF AddVxlan
  <2>. QED BY <2>1, <2>2
<1>. HIDE DEF e
<1>4. \A k \in Nis, s \in Subs :
        <<k, s>> \in K <=> <<k, s>> \in J \/ (k = ni /\ s \in DOMAIN new)
  OBVIOUS
<1>5. e.attached = K
  BY <1>1, <1>3 DEF Shape
<1>. HIDE DEF K
<1>6. e.nis = {k \in Nis : \E s \in Subs : <<k, s>> \in K}
  <2>1. e.nis = {k \in Nis : \E s \in Subs : <<k, s>> \in J} \cup {ni}
    BY <1>1, <1>3 DEF Shape
  <2>. QED BY <1>4, <2>1
<1>7. DOMAIN e.subs = {s \in Subs : \E k \in Nis : <<k, s>> \in K}
  <2>1. DOMAIN e.subs = DOMAIN new \cup {s \in Subs : \E k \in Nis : <<k, s>> \in J}
    BY <1>1, <1>3 DEF Shape
  <2>. QED BY <1>4, <2>1
<1>8. e.vxlans = {k \in e.nis : spec.tunnel[k] = "vxlan"}
  BY <1>1, <1>3 DEF Shape
<1>. QED BY <1>5, <1>6, <1>7, <1>8 DEF Shape, e, d, K

\* What WithSubs and AddVxlan leave of the subinterfaces they do not set.
LEMMA SubsGrow ==
  ASSUME NEW c, NEW ni, NEW new, NEW e, e = AddVxlan(WithSubs(c, ni, new), ni)
  PROVE  /\ DOMAIN e.subs = DOMAIN new \cup DOMAIN c.subs
         /\ \A s \in DOMAIN new : e.subs[s] = new[s]
         /\ \A s \in DOMAIN c.subs \ DOMAIN new : e.subs[s] = c.subs[s]
<1>1. e.subs = WithSubs(c, ni, new).subs
  BY DEF AddVxlan, WithSubs
<1>. QED BY <1>1, WithSubsParts

\* An irb that is not among the new subinterfaces keeps its settings.
LEMMA IrbsKept ==
  ASSUME NEW c, NEW ni, NEW new, NEW e, e = AddVxlan(WithSubs(c, ni, new), ni)
  PROVE  /\ \A bd \in BridgeDomains :
              BridgeIrb(c, bd) /\ Irb(bd) \notin DOMAIN new => BridgeIrb(e, bd)
         /\ \A rt \in RoutingTables : \A S :
              TableIrb(c, rt, S) /\ Irb(rt) \notin DOMAIN new => TableIrb(e, rt, S)
<1>1. /\ DOMAIN e.subs = DOMAIN new \cup DOMAIN c.subs
      /\ \A s \in DOMAIN c.subs \ DOMAIN new : e.subs[s] = c.subs[s]
  BY SubsGrow
<1>. QED BY <1>1 DEF BridgeIrb, TableIrb

\* The parts of SoFar in the next state, for a step that does not change the spec.
LEMMA SoFarStep ==
  ASSUME UNCHANGED spec, NEW J, NEW visited, J = Joined',
         \A rt \in RoutingTables : IsRest(rt)' /\ SeenPlaces(rt)' = visited[rt],
         status' \in {"running", "done"} =>
           /\ Shape(conf', J)
           /\ \A bd \in BridgeDomains : BridgeIrb(conf', bd)
           /\ \A rt \in RoutingTables : TableIrb(conf', rt, visited[rt]),
         status' # "done"
  PROVE  SoFar'
<1>1. status' \in {"running", "done"} => Shape(conf, Joined)'
  BY DEF Shape
<1>2. status' \in {"running", "done"} => \A bd \in BridgeDomains : BridgeIrb(conf, bd)'
  BY DEF BridgeIrb, Irb
<1>3. ASSUME status' \in {"running", "done"}, NEW rt \in RoutingTables
      PROVE  TableIrb(conf, rt, SeenPlaces(rt))'
  <2>1. TableIrb(conf', rt, visited[rt])
    BY <1>3
  <2>. QED BY <2>1 DEF TableIrb, Irb, Sub
<1>. QED BY <1>1, <1>2, <1>3 DEF SoFar

\* The loops over bridge domains and routing tables do not touch the irbs.
LEMMA PopulateNiSoFar ==
  ASSUME TypeOK, SoFar, status = "running", NEW ni \in Nis, ni \in bds \cup rts,
         bds' \cup rts' = (bds \cup rts) \ {ni}, PopulateNi(ni), UNCHANGED <<spec, irbs>>
  PROVE  SoFar'
<1>. DEFINE visited == [rt \in RoutingTables |-> SeenPlaces(rt)]
            links == {Link(l) : l \in spec.selected[ni]}
<1>1. \A rt \in RoutingTables : IsRest(rt)' /\ SeenPlaces(rt)' = visited[rt]
  BY DEF SoFar, IsRest, SeenPlaces, Visited, IrbPlaces
<1>2. \E v : v = visited
  OBVIOUS
<1>3. PICK v : v = visited
  BY <1>2
<1>4. links \subseteq Subs
  BY SubNames, SpecTyped DEF TypeOK
<1>5. Joined' = Joined \cup ({ni} \X links)
  <2>1. \A k \in Nis : k \notin bds' \cup rts' <=> k = ni \/ k \notin bds \cup rts
    OBVIOUS
  <2>2. \A rt \in RoutingTables : SeenPlaces(rt)' = SeenPlaces(rt)
    BY <1>1
  <2>3. ASSUME NEW k \in Nis, NEW s \in Subs
        PROVE  <<k, s>> \in Joined' <=> <<k, s>> \in Joined \/ (k = ni /\ s \in links)
    BY <2>1, <2>2 DEF Joined, Irb, Link
  <2>4. Joined \subseteq Nis \X Subs /\ Joined' \subseteq Nis \X Subs
    BY DEF Joined, Subs, Link, Irb, Nis
  <2>. QED BY <1>4, <2>3, <2>4
<1>6. \A rt \in RoutingTables : v[rt] = SeenPlaces(rt)
  BY <1>3
<1>7. /\ Shape(conf, Joined) /\ Joined \subseteq Nis \X Subs
      /\ \A bd \in BridgeDomains : BridgeIrb(conf, bd)
      /\ \A rt \in RoutingTables : TableIrb(conf, rt, v[rt])
  BY <1>6 DEF SoFar, Joined
<1>8. CASE spec.selected[ni] = {}
  <2>1. links = {} /\ conf' = conf /\ status' = status
    BY <1>8 DEF PopulateNi
  <2>2. Joined' = Joined
    BY <1>5, <2>1
  <2>. QED BY <1>1, <1>3, <1>7, <2>1, <2>2, SoFarStep
<1>9. CASE Abort("error")
  BY <1>1, <1>3, <1>9, SoFarStep DEF Abort
<1>10. CASE /\ spec.selected[ni] # {} /\ conf' = AddVxlan(AddLinks(conf, ni), ni)
            /\ status' = status
  <2>. DEFINE new == LinksOf(conf, ni)
  <2>1. conf' = AddVxlan(WithSubs(conf, ni, new), ni)
    BY <1>10 DEF AddLinks, LinksOf
  <2>2. DOMAIN new = links
    BY DEF LinksOf
  <2>3. links # {} /\ \A k \in Nis : Irb(k) \notin links
    BY <1>10 DEF Irb, Link
  <2>. HIDE DEF new, links
  <2>4. Shape(conf', Joined \cup ({ni} \X links))
    BY <1>4, <1>7, <2>1, <2>2, <2>3, ShapeGrows
  <2>5. /\ \A bd \in BridgeDomains : BridgeIrb(conf', bd)
        /\ \A rt \in RoutingTables : TableIrb(conf', rt, v[rt])
    BY <1>7, <2>1, <2>2, <2>3, IrbsKept DEF Nis
  <2>. QED BY <1>1, <1>3, <1>5, <1>10, <2>4, <2>5, SoFarStep
<1>. QED BY <1>8, <1>9, <1>10 DEF PopulateNi

\* The next entry of a routing table: it is at the next place, and no other.
LEMMA NextPlace ==
  ASSUME TypeOK, SoFar, NEW rt \in RoutingTables, irbs[rt] # <<>>,
         irbs' = [irbs EXCEPT ![rt] = Tail(@)], UNCHANGED spec, NEW n, n = Visited(rt) + 1
  PROVE  /\ n \in DOMAIN spec.domains[rt] /\ spec.domains[rt][n] = Head(irbs[rt])
         /\ \A r \in RoutingTables : IsRest(r)'
         /\ \A r \in RoutingTables \ {rt} : SeenPlaces(r)' = SeenPlaces(r)
         /\ SeenPlaces(rt)' = SeenPlaces(rt) \cup ({n} \cap IrbPlaces(rt))
         /\ \A i \in SeenPlaces(rt) : i < n
<1>1. spec.domains \in [RoutingTables -> Seq(Entry)]
  BY SpecTyped DEF TypeOK
<1>2. irbs[rt] \in Seq(Entry) /\ Len(irbs[rt]) \in Nat \ {0} /\ spec.domains[rt] \in Seq(Entry)
  BY <1>1 DEF TypeOK
<1>3. PICK m \in Nat, k \in Nat : m = Len(irbs[rt]) /\ k = Len(spec.domains[rt])
  BY <1>2
<1>4. IsRest(rt) /\ m <= k /\ n = k - m + 1 /\ m > 0
  BY <1>2, <1>3 DEF SoFar, IsRest, Visited
<1>5. /\ DOMAIN irbs[rt] = 1..m /\ Visited(rt) = k - m
      /\ \A i \in 1..m : irbs[rt][i] = spec.domains[rt][(k - m) + i]
  <2>1. DOMAIN irbs[rt] = 1..m /\ Visited(rt) = k - m
    BY <1>2, <1>3 DEF Visited
  <2>. QED BY <1>4, <2>1 DEF IsRest
<1>6. n \in 1..k /\ spec.domains[rt][n] = irbs[rt][1] /\ Head(irbs[rt]) = irbs[rt][1]
  <2>1. 1 \in 1..m /\ (k - m) + 1 = n
    BY <1>4
  <2>. QED BY <1>2, <1>4, <1>5, <2>1
<1>7. /\ irbs'[rt] = Tail(irbs[rt]) /\ Len(irbs'[rt]) = m - 1 /\ DOMAIN irbs'[rt] = 1..(m - 1)
      /\ \A i \in 1..(m - 1) : irbs'[rt][i] = irbs[rt][i + 1]
      /\ Len(spec'.domains[rt]) = k
  BY <1>2, <1>3 DEF TypeOK
<1>8. Visited(rt)' = n
  <2>1. Visited(rt)' = Len(spec'.domains[rt]) - Len(irbs'[rt])
    BY DEF Visited
  <2>2. k - (m - 1) = n
    BY <1>4
  <2>. QED BY <1>7, <2>1, <2>2
<1>9. IsRest(rt)'
  <2>1. ASSUME NEW i \in 1..(m - 1)
        PROVE  irbs'[rt][i] = spec'.domains[rt][n + i]
    <3>1. i + 1 \in 1..m /\ n + i = (k - m) + (i + 1)
      BY <1>4
    <3>2. irbs[rt][i + 1] = spec.domains[rt][(k - m) + (i + 1)]
      BY <1>5, <3>1
    <3>. QED BY <1>7, <3>1, <3>2
  <2>2. Len(irbs'[rt]) <= Len(spec'.domains[rt])
    BY <1>4, <1>7
  <2>. QED BY <1>7, <1>8, <2>1, <2>2 DEF IsRest
<1>10. ASSUME NEW r \in RoutingTables \ {rt}
      PROVE  IsRest(r)' /\ SeenPlaces(r)' = SeenPlaces(r)
  <2>1. irbs'[r] = irbs[r]
    BY DEF TypeOK
  <2>. QED BY <2>1 DEF SoFar, IsRest, SeenPlaces, Visited, IrbPlaces
<1>11. /\ \A i \in IrbPlaces(rt) : i \in 1..k
       /\ IrbPlaces(rt)' = IrbPlaces(rt) /\ Visited(rt) = n - 1
  BY <1>2, <1>3, <1>4, <1>5 DEF IrbPlaces
<1>12. /\ SeenPlaces(rt)' = {i \in IrbPlaces(rt) : i <= n}
       /\ SeenPlaces(rt) = {i \in IrbPlaces(rt) : i <= n - 1}
  BY <1>8, <1>11 DEF SeenPlaces
<1>13. \A i \in 1..k : i <= n <=> i <= n - 1 \/ i = n
  BY <1>6
<1>14. SeenPlaces(rt)' = SeenPlaces(rt) \cup ({n} \cap IrbPlaces(rt))
  BY <1>11, <1>12, <1>13
<1>15. \A i \in SeenPlaces(rt) : i < n
  BY <1>6, <1>11, <1>12
<1>16. DOMAIN spec.domains[rt] = 1..k
  BY <1>2, <1>3
<1>. QED BY <1>6, <1>9, <1>10, <1>14, <1>15, <1>16

\* The two irbs of an entry: that of the bridge domain has no settings, that of the
\* routing table those of the entry.
LEMMA IrbPair ==
  ASSUME NEW c, NEW J, J \subseteq Nis \X Subs, Shape(c, J), NEW visited,
         NEW rt \in RoutingTables, NEW entry, NEW bd \in BridgeDomains, entry.bd = bd,
         \A b \in BridgeDomains : BridgeIrb(c, b),
         \A r \in RoutingTables : TableIrb(c, r, visited[r]),
         NEW e, e = AddVxlan(AddRouteIrb(AddVxlan(AddBridgeIrb(c, bd), bd), rt, entry), rt)
  PROVE  /\ Shape(e, J \cup {<<bd, Irb(bd)>>, <<rt, Irb(rt)>>})
         /\ \A b \in BridgeDomains : BridgeIrb(e, b)
         /\ \A r \in RoutingTables \ {rt} : TableIrb(e, r, visited[r])
         /\ e.subs[Irb(rt)] = Sub("unset", entry.prefixes)
<1>. DEFINE news == [s \in {Irb(bd)} |-> SubOf(c, s)]
            d == AddVxlan(WithSubs(c, bd, news), bd)
            newt == [s \in {Irb(rt)} |-> [SubOf(d, s) EXCEPT !.addresses = entry.prefixes]]
<1>1. bd \in Nis /\ rt \in Nis /\ rt \notin BridgeDomains
  BY DeviceConfigAssumption DEF Nis
<1>2. DOMAIN news = {Irb(bd)} /\ DOMAIN newt = {Irb(rt)}
  OBVIOUS
<1>3. \A k, m \in Nis : Irb(k) = Irb(m) => k = m
  BY DEF Irb
<1>4. e = AddVxlan(WithSubs(d, rt, newt), rt)
  BY DEF AddRouteIrb, AddBridgeIrb
<1>5. news[Irb(bd)] = Plain
  BY DEF SubOf, BridgeIrb
<1>6. newt[Irb(rt)] = [SubOf(d, Irb(rt)) EXCEPT !.addresses = entry.prefixes]
  OBVIOUS
<1>. HIDE DEF news
<1>7. Shape(d, J \cup ({bd} \X DOMAIN news))
  BY <1>1, <1>2, ShapeGrows, SubNames
<1>8. /\ DOMAIN d.subs = DOMAIN news \cup DOMAIN c.subs
      /\ \A s \in DOMAIN news : d.subs[s] = news[s]
  BY SubsGrow
<1>9. \A b \in BridgeDomains : BridgeIrb(d, b)
  <2>1. \A b \in BridgeDomains \ {bd} : BridgeIrb(d, b)
    BY <1>1, <1>2, <1>3, IrbsKept DEF Nis
  <2>2. BridgeIrb(d, bd)
    BY <1>2, <1>5, <1>8 DEF BridgeIrb
  <2>. QED BY <2>1, <2>2
<1>10. \A r \in RoutingTables : TableIrb(d, r, visited[r])
  BY <1>1, <1>2, <1>3, IrbsKept, DeviceConfigAssumption DEF Nis
<1>11. SubOf(d, Irb(rt)) = Plain \/ \E i : SubOf(d, Irb(rt)) = Sub("unset", i)
  BY <1>10 DEF SubOf, TableIrb
<1>12. newt[Irb(rt)] = Sub("unset", entry.prefixes)
  BY <1>6, <1>11 DEF Plain, Sub
<1>. HIDE DEF d, newt
<1>13. J \cup ({bd} \X DOMAIN news) \subseteq Nis \X Subs
  BY <1>1, <1>2, SubNames
<1>14. Shape(e, (J \cup ({bd} \X DOMAIN news)) \cup ({rt} \X DOMAIN newt))
  BY <1>1, <1>2, <1>4, <1>7, <1>13, ShapeGrows, SubNames
<1>15. (J \cup ({bd} \X DOMAIN news)) \cup ({rt} \X DOMAIN newt)
         = J \cup {<<bd, Irb(bd)>>, <<rt, Irb(rt)>>}
  BY <1>2
<1>16. \A b \in BridgeDomains : BridgeIrb(e, b)
  BY <1>1, <1>2, <1>3, <1>4, <1>9, IrbsKept DEF Nis
<1>17. \A r \in RoutingTables \ {rt} : TableIrb(e, r, visited[r])
  BY <1>1, <1>2, <1>3, <1>4, <1>10, IrbsKept DEF Nis
<1>18. e.subs[Irb(rt)] = Sub("unset", entry.prefixes)
  BY <1>2, <1>4, <1>12, SubsGrow
<1>. QED BY <1>14, <1>15, <1>16, <1>17, <1>18

\* One entry of a routing table adds its two irbs, and nothing else.
LEMMA PopulateIrbSoFar ==
  ASSUME TypeOK, SoFar, NEW rt \in RoutingTables, PopulateRouteIrb(rt)
  PROVE  SoFar'
<1>. DEFINE entry == Head(irbs[rt])
<1>0. /\ status = "running" /\ bds = {} /\ rts = {} /\ irbs[rt] # <<>>
      /\ irbs' = [irbs EXCEPT ![rt] = Tail(@)] /\ UNCHANGED <<spec, bds, rts>>
  BY DEF PopulateRouteIrb
<1>1. PICK n : n = Visited(rt) + 1
  OBVIOUS
<1>2. PICK v : v = [r \in RoutingTables |-> SeenPlaces(r)]
  OBVIOUS
<1>3. PICK w : w = [r \in RoutingTables |-> SeenPlaces(r)']
  OBVIOUS
<1>4. /\ n \in DOMAIN spec.domains[rt] /\ spec.domains[rt][n] = entry
      /\ \A r \in RoutingTables : IsRest(r)'
      /\ \A r \in RoutingTables \ {rt} : SeenPlaces(r)' = SeenPlaces(r)
      /\ SeenPlaces(rt)' = SeenPlaces(rt) \cup ({n} \cap IrbPlaces(rt))
      /\ \A i \in SeenPlaces(rt) : i < n
  BY <1>0, <1>1, NextPlace
<1>5. \A r \in RoutingTables : v[r] = SeenPlaces(r) /\ w[r] = SeenPlaces(r)'
  BY <1>2, <1>3
<1>6. /\ Shape(conf, Joined) /\ Joined \subseteq Nis \X Subs
      /\ \A bd \in BridgeDomains : BridgeIrb(conf, bd)
      /\ \A r \in RoutingTables : TableIrb(conf, r, v[r])
  BY <1>0, <1>5 DEF SoFar, Joined
<1>. HIDE DEF entry
<1>7. CASE n \notin IrbPlaces(rt)
  <2>1. \A r \in RoutingTables : SeenPlaces(r)' = SeenPlaces(r)
    BY <1>4, <1>7
  <2>2. Joined' = Joined
    BY <1>0, <2>1 DEF Joined, Irb, Link, Subs, Nis
  <2>3. conf' = conf /\ status' = status
    <3>1. entry.bd \notin BridgeDomains \/ spec.selected[entry.bd] = {}
      BY <1>4, <1>7 DEF IrbPlaces
    <3>2. CASE entry.bd \notin BridgeDomains
      BY <3>2 DEF PopulateRouteIrb, entry
    <3>3. CASE entry.bd \in BridgeDomains /\ spec.selected[entry.bd] = {}
      BY <3>3 DEF PopulateRouteIrb, PopulateIrb, entry
    <3>. QED BY <3>1, <3>2, <3>3
  <2>4. \A r \in RoutingTables : w[r] = v[r]
    BY <1>5, <2>1
  <2>. QED BY <1>0, <1>4, <1>5, <1>6, <2>2, <2>3, <2>4, SoFarStep
<1>8. CASE n \in IrbPlaces(rt)
  <2>1. entry.bd \in BridgeDomains /\ spec.selected[entry.bd] # {}
    BY <1>4, <1>8 DEF IrbPlaces
  <2>2. PopulateIrb(rt, entry)
    BY <2>1 DEF PopulateRouteIrb, entry
  <2>3. CASE Abort("error") \/ Abort("panic")
    BY <1>0, <1>4, <1>5, <2>3, SoFarStep DEF Abort
  <2>4. CASE /\ conf' = AddVxlan(AddRouteIrb(AddVxlan(AddBridgeIrb(conf, entry.bd), entry.bd),
                                             rt, entry), rt)
             /\ status' = status
    <3>1. /\ Shape(conf', Joined \cup {<<entry.bd, Irb(entry.bd)>>, <<rt, Irb(rt)>>})
          /\ \A b \in BridgeDomains : BridgeIrb(conf', b)
          /\ \A r \in RoutingTables \ {rt} : TableIrb(conf', r, v[r])
          /\ conf'.subs[Irb(rt)] = Sub("unset", entry.prefixes)
      <4>1. PICK bd \in BridgeDomains : bd = entry.bd
        BY <2>1
      <4>2. conf' = AddVxlan(AddRouteIrb(AddVxlan(AddBridgeIrb(conf, bd), bd), rt, entry), rt)
        BY <2>4, <4>1
      <4>3. /\ Shape(conf', Joined \cup {<<bd, Irb(bd)>>, <<rt, Irb(rt)>>})
            /\ \A b \in BridgeDomains : BridgeIrb(conf', b)
            /\ \A r \in RoutingTables \ {rt} : TableIrb(conf', r, v[r])
            /\ conf'.subs[Irb(rt)] = Sub("unset", entry.prefixes)
        BY <1>6, <4>1, <4>2, IrbPair
      <4>. QED BY <4>1, <4>3
    <3>2. SeenPlaces(rt)' = SeenPlaces(rt) \cup {n}
      BY <1>4, <1>8
    <3>3. TableIrb(conf', rt, w[rt])
      <4>1. n \in w[rt] /\ \A j \in w[rt] : j <= n
        <5>1. spec.domains[rt] \in Seq(Entry)
          BY SpecTyped DEF TypeOK
        <5>2. n \in Nat /\ \A j \in SeenPlaces(rt) : j \in Nat
          <6>1. DOMAIN spec.domains[rt] \subseteq Nat
            BY <5>1
          <6>2. SeenPlaces(rt) \subseteq DOMAIN spec.domains[rt]
            BY DEF SeenPlaces, IrbPlaces
          <6>. QED BY <1>4, <6>1, <6>2
        <5>3. w[rt] = SeenPlaces(rt) \cup {n}
          BY <1>5, <3>2
        <5>4. \A i \in SeenPlaces(rt) : i < n
          BY <1>4
        <5>. QED BY <5>2, <5>3, <5>4
      <4>. QED BY <1>4, <3>1, <4>1 DEF TableIrb
    <3>4. \A r \in RoutingTables : TableIrb(conf', r, w[r])
      BY <1>4, <1>5, <3>1, <3>3
    <3>5. Joined' = Joined \cup {<<entry.bd, Irb(entry.bd)>>, <<rt, Irb(rt)>>}
      <4>1. ASSUME NEW k \in Nis, NEW s \in Subs
            PROVE  <<k, s>> \in Joined' <=>
                     <<k, s>> \in Joined \/ (s = Irb(k) /\ k \in {rt, entry.bd})
        <5>1. (\E r \in RoutingTables : \E i \in SeenPlaces(r)' :
                 k \in {r, spec.domains[r][i].bd})
              <=> \/ \E r \in RoutingTables : \E i \in SeenPlaces(r) :
                       k \in {r, spec.domains[r][i].bd}
                  \/ k \in {rt, entry.bd}
          BY <1>4, <3>2
        <5>2. <<k, s>> \in Joined <=>
                \/ k \notin bds \cup rts /\ \E l \in spec.selected[k] : s = Link(l)
                \/ /\ s = Irb(k)
                   /\ \E r \in RoutingTables : \E i \in SeenPlaces(r) :
                        k \in {r, spec.domains[r][i].bd}
          BY DEF Joined
        <5>3. <<k, s>> \in Joined' <=>
                \/ k \notin bds \cup rts /\ \E l \in spec.selected[k] : s = Link(l)
                \/ /\ s = Irb(k)
                   /\ \E r \in RoutingTables : \E i \in SeenPlaces(r)' :
                        k \in {r, spec.domains[r][i].bd}
          BY <1>0 DEF Joined, Irb, Link, Subs, Nis
        <5>. QED BY <5>1, <5>2, <5>3
      <4>2. Joined \subseteq Nis \X Subs /\ Joined' \subseteq Nis \X Subs
        BY DEF Joined, Irb, Link, Subs, Nis
      <4>3. entry.bd \in Nis /\ rt \in Nis /\ Irb(rt) \in Subs /\ Irb(entry.bd) \in Subs
        BY <2>1, SubNames DEF Nis
      <4>. QED BY <4>1, <4>2, <4>3
    <3>. QED BY <1>0, <1>4, <1>5, <2>4, <3>1, <3>4, <3>5, SoFarStep
  <2>. QED BY <2>1, <2>2, <2>3, <2>4 DEF PopulateIrb
<1>. QED BY <1>7, <1>8

\* What the loops have visited determines the configuration, at every step.
LEMMA SoFarInvariant == Spec => []SoFar
<1>1. Init => SoFar
  <2>. SUFFICES ASSUME Init PROVE SoFar
    OBVIOUS
  <2>1. spec.domains \in [RoutingTables -> Seq(Entry)]
    BY SpecTyped DEF Init
  <2>2. ASSUME NEW rt \in RoutingTables  PROVE IsRest(rt) /\ SeenPlaces(rt) = {}
    <3>1. /\ irbs[rt] = spec.domains[rt] /\ spec.domains[rt] \in Seq(Entry)
          /\ Len(spec.domains[rt]) \in Nat
      BY <2>1 DEF Init
    <3>2. Visited(rt) = 0
      BY <3>1 DEF Visited
    <3>3. \A k \in DOMAIN irbs[rt] : 0 + k = k /\ k >= 1
      BY <3>1
    <3>. QED BY <3>1, <3>2, <3>3 DEF IsRest, SeenPlaces, IrbPlaces
  <2>3. Joined = {}
    BY <2>2 DEF Joined, Init, Nis
  <2>4. Shape(conf, {})
    BY DEF Shape, Init, EmptyConf
  <2>5. DOMAIN conf.subs = {}
    BY DEF Init, EmptyConf
  <2>. QED BY <2>2, <2>3, <2>4, <2>5 DEF SoFar, BridgeIrb, TableIrb, Init
<1>2. TypeOK /\ SoFar /\ [Next]_vars => SoFar'
  <2>. SUFFICES ASSUME TypeOK, SoFar, [Next]_vars PROVE SoFar'
    OBVIOUS
  <2>1. ASSUME NEW bd \in BridgeDomains, PopulateBridgeDomain(bd)  PROVE SoFar'
    <3>1. bds' \cup rts' = (bds \cup rts) \ {bd}
      BY <2>1, DeviceConfigAssumption DEF PopulateBridgeDomain, TypeOK
    <3>. QED BY <2>1, <3>1, PopulateNiSoFar DEF PopulateBridgeDomain, Nis
  <2>2. ASSUME NEW rt \in RoutingTables, PopulateRouteTable(rt)  PROVE SoFar'
    <3>1. bds' \cup rts' = (bds \cup rts) \ {rt}
      BY <2>2 DEF PopulateRouteTable
    <3>. QED BY <2>2, <3>1, PopulateNiSoFar DEF PopulateRouteTable, Nis
  <2>3. ASSUME NEW rt \in RoutingTables, PopulateRouteIrb(rt)  PROVE SoFar'
    BY <2>3, PopulateIrbSoFar
  <2>4. CASE Finish \/ UNCHANGED vars
    <3>1. UNCHANGED <<spec, bds, rts, irbs, conf>>
      BY <2>4 DEF Finish, vars
    <3>2. \A rt \in RoutingTables : IsRest(rt)' /\ SeenPlaces(rt)' = SeenPlaces(rt)
      BY <3>1 DEF SoFar, IsRest, SeenPlaces, Visited, IrbPlaces
    <3>3. Joined' = Joined
      BY <3>1, <3>2 DEF Joined, Irb, Link, Subs, Nis
    <3>4. status \in {"running", "done"} <=> status' \in {"running", "done"}
      BY <2>4 DEF Finish, vars
    <3>5. Shape(conf, Joined)' <=> Shape(conf, Joined)
      BY <3>1, <3>3 DEF Shape
    <3>6. \A bd \in BridgeDomains : BridgeIrb(conf, bd)' <=> BridgeIrb(conf, bd)
      BY <3>1 DEF BridgeIrb, Irb, Plain, Sub
    <3>7. ASSUME NEW rt \in RoutingTables
          PROVE  TableIrb(conf, rt, SeenPlaces(rt))' <=> TableIrb(conf, rt, SeenPlaces(rt))
      <4>1. PICK S : S = SeenPlaces(rt) /\ S = SeenPlaces(rt)'
        BY <3>2
      <4>2. TableIrb(conf, rt, S)' <=> TableIrb(conf, rt, S)
        BY <3>1 DEF TableIrb, Irb, Sub
      <4>. QED BY <4>1, <4>2
    <3>8. status' = "done" => bds' = {} /\ rts' = {} /\ \A rt \in RoutingTables : irbs'[rt] = <<>>
      BY <2>4, <3>1 DEF SoFar, Finish, vars
    <3>. QED BY <3>2, <3>4, <3>5, <3>6, <3>7, <3>8 DEF SoFar
  <2>. QED BY <2>1, <2>2, <2>3, <2>4 DEF Next
<1>. QED BY <1>1, <1>2, ConfCorrect, PTL DEF Spec

\* When the loops are over, what they have visited is all there is.
LEMMA DoneShape ==
  ASSUME TypeOK, SoFar, status = "done"
  PROVE  /\ Shape(conf, {p \in Nis \X Subs : Joins(p[1], p[2])})
         /\ \A bd \in BridgeDomains : BridgeIrb(conf, bd)
         /\ \A rt \in RoutingTables : TableIrb(conf, rt, IrbPlaces(rt))
<1>1. spec.domains \in [RoutingTables -> Seq(Entry)]
  BY SpecTyped DEF TypeOK
<1>2. ASSUME NEW rt \in RoutingTables  PROVE SeenPlaces(rt) = IrbPlaces(rt)
  <2>1. irbs[rt] = <<>> /\ spec.domains[rt] \in Seq(Entry)
    BY <1>1 DEF SoFar
  <2>2. Visited(rt) = Len(spec.domains[rt])
    BY <2>1 DEF Visited
  <2>3. \A i \in IrbPlaces(rt) : i <= Len(spec.domains[rt])
    BY <2>1 DEF IrbPlaces
  <2>. QED BY <2>2, <2>3 DEF SeenPlaces
<1>3. Joined = {p \in Nis \X Subs : Joins(p[1], p[2])}
  BY <1>2 DEF Joined, Joins, SoFar
<1>. QED BY <1>2, <1>3 DEF SoFar

\* The settings are those the spec asks for, unless two routing tables disagree.
LEMMA DoneSubs ==
  ASSUME TypeOK, SoFar, NoTornSubinterface, status = "done", ~SharedByTables,
         NEW s \in DOMAIN conf.subs
  PROVE  conf.subs[s] = ExpectedSub(s)
<1>1. s \in Subs
  BY DEF TypeOK, ConfOK
<1>2. Shape(conf, {p \in Nis \X Subs : Joins(p[1], p[2])})
  BY DoneShape
<1>3. ASSUME NEW l \in Links, s = Link(l)  PROVE conf.subs[s] = ExpectedSub(s)
  <2>1. s[1] = "link" /\ s[2] = l
    BY <1>3 DEF Link
  <2>2. Attached(conf, l) = Users(l)
    <3>1. ASSUME NEW ni \in Nis
          PROVE  <<ni, Link(l)>> \in conf.attached <=> l \in spec.selected[ni]
      <4>1. Link(l) \in Subs
        BY SubNames
      <4>2. <<ni, Link(l)>> \in conf.attached <=> Joins(ni, Link(l))
        BY <1>2, <4>1 DEF Shape
      <4>3. \A k \in spec.selected[ni] : k \in Links
        BY SpecTyped DEF TypeOK
      <4>. QED BY <4>2, <4>3, SubNames DEF Joins
    <3>. QED BY <3>1 DEF Attached, Users
  <2>3. IsWhole(conf, l)
    BY <1>3 DEF NoTornSubinterface, Whole
  <2>. DEFINE routed == Users(l) \cap RoutingTables
  <2>4. CASE routed = {}
    BY <1>3, <2>1, <2>2, <2>3, <2>4 DEF IsWhole, ExpectedSub
  <2>5. CASE routed # {}
    <3>1. PICK rt \in routed : conf.subs[Link(l)] = Sub("routed", spec.prefixes[rt][l])
      BY <2>2, <2>3, <2>5 DEF IsWhole
    <3>2. (CHOOSE r \in routed : TRUE) \in routed
      BY <2>5
    <3>3. (CHOOSE r \in routed : TRUE) = rt
      BY <3>1, <3>2 DEF SharedByTables
    <3>. QED BY <1>3, <2>1, <2>5, <3>1, <3>3 DEF ExpectedSub
  <2>. QED BY <2>4, <2>5
<1>4. ASSUME NEW rt \in RoutingTables, s = Irb(rt)  PROVE conf.subs[s] = ExpectedSub(s)
  <2>1. s[1] = "irb0" /\ s[2] = rt
    BY <1>4 DEF Irb
  <2>2. PICK i \in IrbPlaces(rt) :
          /\ \A j \in IrbPlaces(rt) : j <= i
          /\ conf.subs[Irb(rt)] = Sub("unset", spec.domains[rt][i].prefixes)
    BY <1>4, DoneShape DEF TableIrb
  <2>3. /\ LastIrb(rt) \in IrbPlaces(rt)
        /\ \A j \in IrbPlaces(rt) : j <= LastIrb(rt)
    BY <2>2 DEF LastIrb
  <2>4. IrbPlaces(rt) \subseteq Nat
    <3>1. spec.domains[rt] \in Seq(Entry)
      BY SpecTyped DEF TypeOK
    <3>2. DOMAIN spec.domains[rt] \subseteq Nat
      BY <3>1
    <3>. QED BY <3>2 DEF IrbPlaces
  <2>5. LastIrb(rt) = i
    BY <2>2, <2>3, <2>4
  <2>. QED BY <1>4, <2>1, <2>2, <2>5 DEF ExpectedSub
<1>5. ASSUME NEW bd \in BridgeDomains, s = Irb(bd)  PROVE conf.subs[s] = ExpectedSub(s)
  <2>1. s[1] = "irb0" /\ s[2] = bd /\ bd \notin RoutingTables
    BY <1>5, DeviceConfigAssumption DEF Irb
  <2>2. conf.subs[s] = Plain
    BY <1>5, DoneShape DEF BridgeIrb
  <2>. QED BY <2>1, <2>2 DEF ExpectedSub
<1>. QED BY <1>1, <1>3, <1>4, <1>5 DEF Subs, Nis

\* The same spec always gives the same configuration, in whatever order Go visits its
\* maps, unless two routing tables select the same subinterface.
THEOREM OrderIndependentCorrect == Spec => []OrderIndependent
<1>1. TypeOK /\ SoFar /\ NoTornSubinterface => OrderIndependent
  <2>. SUFFICES ASSUME TypeOK, SoFar, NoTornSubinterface, status = "done", ~SharedByTables
                PROVE  conf = Expected
    BY DEF OrderIndependent
  <2>. DEFINE J == {p \in Nis \X Subs : Joins(p[1], p[2])}
              nis == {ni \in Nis : \E s \in Subs : Joins(ni, s)}
              subs == {t \in Subs : \E ni \in Nis : Joins(ni, t)}
  <2>1. Shape(conf, J)
    BY DoneShape
  <2>2. \A ni \in Nis, s \in Subs : <<ni, s>> \in J <=> Joins(ni, s)
    OBVIOUS
  <2>3. conf.attached = J
    BY <2>1 DEF Shape
  <2>. HIDE DEF J
  <2>4. conf.nis = nis
    BY <2>1, <2>2 DEF Shape
  <2>5. DOMAIN conf.subs = subs
    BY <2>1, <2>2 DEF Shape
  <2>6. conf.vxlans = {ni \in nis : spec.tunnel[ni] = "vxlan"}
    BY <2>1, <2>4 DEF Shape
  <2>7. conf.subs = [s \in DOMAIN conf.subs |-> conf.subs[s]]
    BY DEF TypeOK, ConfOK
  <2>8. conf.subs = [s \in subs |-> ExpectedSub(s)]
    BY <2>5, <2>7, DoneSubs
  <2>9. conf = [nis |-> conf.nis, attached |-> conf.attached,
                subs |-> conf.subs, vxlans |-> conf.vxlans]
    BY DEF TypeOK, ConfOK
  <2>10. Expected = [nis |-> nis, attached |-> J, subs |-> [s \in subs |-> ExpectedSub(s)],
                     vxlans |-> {ni \in nis : spec.tunnel[ni] = "vxlan"}]
    BY DEF Expected, J
  <2>. QED BY <2>3, <2>4, <2>6, <2>8, <2>9, <2>10
<1>. QED BY <1>1, ConfCorrect, NoTornCorrect, SoFarInvariant, PTL

-----------------------------------------------------------------------------
(* How far the three properties that the code violates still hold: each is   *)
(* lost for the specs below only.                                            *)

\* Every tunnel of the specs is the default of the CRD.
VxlanOnly == \A x \in Specs : \A ni \in Nis : x.tunnel[ni] = "vxlan"

\* No routing table has more than one bridge domain.
SingleDomain == \A x \in Specs : \A rt \in RoutingTables : Len(x.domains[rt]) <= 1

\* Every entry for a bridge domain with interfaces on the device has both families.
BothFamilies ==
  \A x \in Specs : \A rt \in RoutingTables : \A i \in DOMAIN x.domains[rt] :
    LET entry == x.domains[rt][i] IN
    entry.bd \in BridgeDomains /\ x.selected[entry.bd] # {} =>
      entry.prefixes \cap Prefixes4 # {} /\ entry.prefixes \cap Prefixes6 # {}

\* With no other tunnel than vxlan, every network instance that is configured, the
\* bridge domains of irbs included, has the vxlan interface its bgp-evpn refers to.
THEOREM VxlanReferenceCorrect ==
  ASSUME VxlanOnly
  PROVE  Spec => []VxlanReferenceResolves
<1>1. TypeOK /\ SoFar => VxlanReferenceResolves
  BY VxlanOnly, DoneShape DEF VxlanOnly, VxlanReferenceResolves, Shape, TypeOK
<1>. QED BY <1>1, ConfCorrect, SoFarInvariant, PTL

\* A routing table with one bridge domain keeps all prefixes of its irb: they are lost
\* only by the next irb of the same table, never by another table or by the selected
\* interfaces, in whatever order the maps are visited.
THEOREM IrbPrefixesCorrect ==
  ASSUME SingleDomain
  PROVE  Spec => []IrbPrefixesKept
<1>1. TypeOK /\ SoFar => IrbPrefixesKept
  <2>. SUFFICES ASSUME TypeOK, SoFar, status = "done",
                       NEW rt \in RoutingTables, NEW i \in IrbPlaces(rt)
                PROVE  spec.domains[rt][i].prefixes \subseteq conf.subs[Irb(rt)].addresses
    BY DEF IrbPrefixesKept
  <2>1. spec.domains[rt] \in Seq(Entry) /\ Len(spec.domains[rt]) <= 1
    BY SpecTyped DEF TypeOK, SingleDomain
  <2>2. \A j \in IrbPlaces(rt) : j = i
    BY <2>1 DEF IrbPlaces
  <2>3. rt \in Nis /\ Irb(rt) \in Subs
    BY SubNames DEF Nis
  <2>4. Joins(rt, Irb(rt))
    BY DEF Joins
  <2>5. Irb(rt) \in DOMAIN conf.subs
    BY <2>3, <2>4, DoneShape DEF Shape
  <2>6. PICK j \in IrbPlaces(rt) : conf.subs[Irb(rt)] = Sub("unset", spec.domains[rt][j].prefixes)
    BY <2>5, DoneShape DEF TableIrb
  <2>. QED BY <2>2, <2>6 DEF Sub
<1>. QED BY <1>1, ConfCorrect, SoFarInvariant, PTL

\* A vpc whose irbs have prefixes of both families does not take the process down:
\* neither a prefix without a gateway nor an unknown bridge domain leads to the nil.
THEOREM NoPanicCorrect ==
  ASSUME BothFamilies
  PROVE  Spec => []NoPanic
<1>1. Init => NoPanic
  BY DEF Init, NoPanic
<1>2. TypeOK /\ SoFar /\ NoPanic /\ [Next]_vars => NoPanic'
  <2>. SUFFICES ASSUME TypeOK, SoFar, status # "panic", [Next]_vars PROVE status' # "panic"
    BY DEF NoPanic
  <2>1. ASSUME NEW ni \in Nis, PopulateNi(ni)  PROVE status' # "panic"
    BY <2>1 DEF PopulateNi, Abort
  <2>2. ASSUME NEW rt \in RoutingTables, PopulateRouteIrb(rt)  PROVE status' # "panic"
    <3>. DEFINE entry == Head(irbs[rt])
    <3>1. PICK n : n = Visited(rt) + 1
      OBVIOUS
    <3>2. n \in DOMAIN spec.domains[rt] /\ spec.domains[rt][n] = entry
      BY <2>2, <3>1, NextPlace DEF PopulateRouteIrb
    <3>3. spec \in Specs
      BY DEF TypeOK
    <3>4. entry.bd \in BridgeDomains /\ spec.selected[entry.bd] # {} =>
            entry.prefixes \cap Prefixes4 # {} /\ entry.prefixes \cap Prefixes6 # {}
      BY <3>2, <3>3 DEF BothFamilies
    <3>5. \/ UNCHANGED status
          \/ entry.bd \in BridgeDomains /\ PopulateIrb(rt, entry)
      BY <2>2 DEF PopulateRouteIrb
    <3>. HIDE DEF entry
    <3>. QED BY <3>4, <3>5 DEF PopulateIrb, Abort
  <2>3. CASE Finish \/ UNCHANGED vars
    BY <2>3 DEF Finish, vars
  <2>. QED BY <2>1, <2>2, <2>3 DEF Next, PopulateBridgeDomain, PopulateRouteTable, Nis
<1>. QED BY <1>1, <1>2, ConfCorrect, SoFarInvariant, PTL DEF Spec
=============================================================================
