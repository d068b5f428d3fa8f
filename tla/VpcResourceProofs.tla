------------------------- MODULE VpcResourceProofs -------------------------
(***************************************************************************)
(* What populateSchema reads of a Vpc resource, for every list of routing  *)
(* tables a user may write.  The getters make a map entry by entry; what   *)
(* the map holds in the end follows by induction over the list.            *)
(***************************************************************************)
EXTENDS VpcConfig, SequenceTheorems, WellFoundedInduction, TLAPS

-----------------------------------------------------------------------------
(* Lists as maps                                                            *)

\* A set that has 0, and n + 1 with every n of Nat it has, has all of Nat.
LEMMA SetInduction ==
  ASSUME NEW S, 0 \in S, \A n \in Nat : n \in S => n + 1 \in S
  PROVE  Nat \subseteq S
<1> DEFINE T == {n \in Nat : n \notin S}
           R == OpToRel(<, Nat)
<1> SUFFICES ASSUME T # {} PROVE FALSE
    OBVIOUS
<1>1. PICK x \in T : \A y \in T : ~ (<<y, x>> \in R)
    BY NatLessThanWellFounded, WFMin
<1>2. x # 0 /\ x \in Nat
    OBVIOUS
<1>3. x - 1 \in Nat /\ x - 1 < x
    BY <1>2
<1>4. <<x - 1, x>> \in R
    BY <1>3, <1>2 DEF OpToRel
<1>5. x - 1 \in S
    BY <1>1, <1>3, <1>4
<1>6. (x - 1) + 1 \in S
    BY <1>3, <1>5
<1> QED
    BY <1>6, <1>2

\* f is the map made of the first n entries of a list, one by one.
MadeOf(f, list, n) ==
  f = [k \in 0..n |-> IF k = 0 THEN NoEntries ELSE Put(f[k - 1], list[k].key, list[k].value)]

\* There is such a function for every n: the one for n, and one entry more.
LEMMA MadeOfExists == ASSUME NEW list PROVE \A n \in Nat : \E f : MadeOf(f, list, n)
<1> DEFINE S == {n \in Nat : \E f : MadeOf(f, list, n)}
<1>1. 0 \in S
  <2>1. MadeOf([k \in 0..0 |-> NoEntries], list, 0)
      BY DEF MadeOf
  <2> QED
      BY <2>1
<1>2. ASSUME NEW n \in Nat, n \in S PROVE n + 1 \in S
  <2>1. PICK f : MadeOf(f, list, n)
      BY <1>2
  <2> DEFINE new == Put(f[n], list[n + 1].key, list[n + 1].value)
             g == [k \in 0..(n + 1) |-> IF k = n + 1 THEN new ELSE f[k]]
  <2>2. \A k \in 0..n :
          f[k] = IF k = 0 THEN NoEntries ELSE Put(f[k - 1], list[k].key, list[k].value)
      BY <2>1 DEF MadeOf
  <2>3. \A k \in 0..(n + 1) :
          g[k] = IF k = 0 THEN NoEntries ELSE Put(g[k - 1], list[k].key, list[k].value)
    <3> TAKE k \in 0..(n + 1)
    <3>1. CASE k = n + 1
        BY <3>1
    <3>2. CASE k # n + 1
        BY <3>2, <2>2
    <3> QED
        BY <3>1, <3>2
  <2>4. g = [k \in 0..(n + 1) |->
               IF k = 0 THEN NoEntries ELSE Put(g[k - 1], list[k].key, list[k].value)]
      BY <2>3
  <2> HIDE DEF g
  <2>5. MadeOf(g, list, n + 1)
      BY <2>4 DEF MadeOf
  <2> QED
      BY <2>5
<1> HIDE DEF S
<1>3. Nat \subseteq S
    BY <1>1, <1>2, SetInduction
<1> QED
    BY <1>3 DEF S

\* MapAfter is the function its recursive definition says.
LEMMA MapAfterDef ==
  ASSUME NEW list, Len(list) \in Nat
  PROVE  MadeOf(MapAfter(list), list, Len(list))
<1>1. \E f : MadeOf(f, list, Len(list))
    BY MadeOfExists
<1> QED
    BY <1>1 DEF MapAfter, MadeOf

\* The map of a list has the keys of the list, and under each the value of the last
\* entry that has it.
LEMMA AsMapLast ==
  ASSUME NEW list, Len(list) \in Nat
  PROVE  /\ DOMAIN AsMap(list) = {list[i].key : i \in 1..Len(list)}
         /\ \A k \in DOMAIN AsMap(list) : \E i \in 1..Len(list) :
              /\ list[i].key = k /\ AsMap(list)[k] = list[i].value
              /\ \A j \in 1..Len(list) : j > i => list[j].key # k
<1> DEFINE L == Len(list)
           f == MapAfter(list)
           Last(n) ==
             /\ DOMAIN f[n] = {list[i].key : i \in 1..n}
             /\ \A k \in DOMAIN f[n] : \E i \in 1..n :
                  /\ list[i].key = k /\ f[n][k] = list[i].value
                  /\ \A j \in 1..n : j > i => list[j].key # k
           S == {n \in Nat : n <= L => Last(n)}
<1>1. \A n \in 0..L :
        f[n] = IF n = 0 THEN NoEntries ELSE Put(f[n - 1], list[n].key, list[n].value)
    BY MapAfterDef DEF MadeOf
<1> HIDE DEF f
<1>2. 0 \in S
  <2>1. f[0] = NoEntries
      BY <1>1
  <2> QED
      BY <2>1 DEF NoEntries
<1>3. ASSUME NEW n \in Nat, n \in S PROVE n + 1 \in S
  <2> SUFFICES ASSUME n + 1 <= L PROVE Last(n + 1)
      OBVIOUS
  <2> DEFINE key == list[n + 1].key
             value == list[n + 1].value
  <2>1. Last(n)
      BY <1>3
  <2>2. f[n + 1] = Put(f[n], key, value)
      BY <1>1
  <2> HIDE DEF key, value
  <2>3. /\ DOMAIN f[n + 1] = DOMAIN f[n] \cup {key}
        /\ f[n + 1][key] = value
        /\ \A k \in DOMAIN f[n] : k # key => f[n + 1][k] = f[n][k]
      BY <2>2 DEF Put
  <2>4. DOMAIN f[n + 1] = {list[i].key : i \in 1..(n + 1)}
      BY <2>1, <2>3 DEF key
  <2>5. ASSUME NEW k \in DOMAIN f[n + 1]
        PROVE  \E i \in 1..(n + 1) :
                 /\ list[i].key = k /\ f[n + 1][k] = list[i].value
                 /\ \A j \in 1..(n + 1) : j > i => list[j].key # k
    <3>1. CASE k = key
      <4>1. n + 1 \in 1..(n + 1) /\ ~ \E j \in 1..(n + 1) : j > n + 1
          OBVIOUS
      <4> QED
          BY <2>3, <3>1, <4>1 DEF key, value
    <3>2. CASE k # key
      <4>1. k \in DOMAIN f[n] /\ f[n + 1][k] = f[n][k]
          BY <2>3, <2>5, <3>2
      <4>2. PICK i \in 1..n : /\ list[i].key = k /\ f[n][k] = list[i].value
                              /\ \A j \in 1..n : j > i => list[j].key # k
          BY <2>1, <4>1
      <4>3. \A j \in 1..(n + 1) : j > i => list[j].key # k
          BY <3>2, <4>2 DEF key
      <4> QED
          BY <4>1, <4>2, <4>3
    <3> QED
        BY <3>1, <3>2
  <2> QED
      BY <2>4, <2>5
<1> HIDE DEF S
<1>4. Nat \subseteq S
    BY <1>2, <1>3, SetInduction
<1>5. Last(L)
    BY <1>4 DEF S
<1> QED
    BY <1>5 DEF f, AsMap

\* Two lists that have the same keys in the same places, and their maps: they have
\* these keys and take the values of each from the same entry.
SameKeys(a, b) ==
  Len(a) \in Nat /\ Len(b) = Len(a) /\ \A i \in 1..Len(a) : a[i].key = b[i].key

SameEntries(a, b) ==
  /\ DOMAIN AsMap(a) = {a[i].key : i \in 1..Len(a)}
  /\ DOMAIN AsMap(a) = DOMAIN AsMap(b)
  /\ \A k \in DOMAIN AsMap(a) : \E i \in 1..Len(a) :
       a[i].key = k /\ AsMap(a)[k] = a[i].value /\ AsMap(b)[k] = b[i].value

\* The maps of lists that have the same keys do so.
LEMMA SameEntry == ASSUME NEW a, NEW b, SameKeys(a, b) PROVE SameEntries(a, b)
<1>0. Len(a) \in Nat /\ Len(b) = Len(a) /\ \A i \in 1..Len(a) : a[i].key = b[i].key
    BY DEF SameKeys
<1>1. /\ DOMAIN AsMap(a) = {a[i].key : i \in 1..Len(a)}
      /\ \A k \in DOMAIN AsMap(a) : \E i \in 1..Len(a) :
           /\ a[i].key = k /\ AsMap(a)[k] = a[i].value
           /\ \A j \in 1..Len(a) : j > i => a[j].key # k
    BY <1>0, AsMapLast
<1>2. /\ DOMAIN AsMap(b) = {b[i].key : i \in 1..Len(b)}
      /\ \A k \in DOMAIN AsMap(b) : \E i \in 1..Len(b) :
           /\ b[i].key = k /\ AsMap(b)[k] = b[i].value
           /\ \A j \in 1..Len(b) : j > i => b[j].key # k
  <2>1. Len(b) \in Nat
      BY <1>0
  <2> QED
      BY <2>1, AsMapLast
<1>3. DOMAIN AsMap(a) = DOMAIN AsMap(b)
  <2>1. {a[i].key : i \in 1..Len(a)} = {b[i].key : i \in 1..Len(b)}
      BY <1>0
  <2> QED
      BY <1>1, <1>2, <2>1
<1>4. ASSUME NEW k \in DOMAIN AsMap(a)
      PROVE  \E i \in 1..Len(a) :
               a[i].key = k /\ AsMap(a)[k] = a[i].value /\ AsMap(b)[k] = b[i].value
  <2>1. PICK i \in 1..Len(a) : /\ a[i].key = k /\ AsMap(a)[k] = a[i].value
                               /\ \A j \in 1..Len(a) : j > i => a[j].key # k
      BY <1>1, <1>4
  <2>2. PICK m \in 1..Len(b) : /\ b[m].key = k /\ AsMap(b)[k] = b[m].value
                               /\ \A j \in 1..Len(b) : j > m => b[j].key # k
      BY <1>2, <1>3, <1>4
  <2>3. ~(m > i) /\ ~(i > m)
      BY <1>0, <2>1, <2>2
  <2>4. i = m
      BY <2>3
  <2> QED
      BY <2>1, <2>2, <2>4
<1> QED
    BY <1>1, <1>3, <1>4 DEF SameEntries

-----------------------------------------------------------------------------
(* The resource                                                             *)

\* A list with the domain of its length.
IsList(list) == Len(list) \in Nat /\ DOMAIN list = 1..Len(list)

\* The list of the routing tables of a stored vpc: its entries have a tunnel.
LEMMA StoredList ==
  ASSUME NEW x \in Written, NEW list, list = Defaulted(x).routingTables
  PROVE  IsList(list) /\ \A i \in DOMAIN list : list[i].tunnel # ""
<1> DEFINE raw == x.routingTables
           S == {raw[i] : i \in DOMAIN raw}
           T == {DefaultedEntry(raw[i]) : i \in DOMAIN raw}
<1>1. raw \in Seq(S)
    BY WrittenAssumption
<1>2. Len(raw) \in Nat /\ DOMAIN raw = 1..Len(raw)
    BY <1>1, LenProperties
<1>3. list = [i \in 1..Len(raw) |-> DefaultedEntry(raw[i])]
    BY <1>2 DEF Defaulted, DefaultedList
<1>4. list \in [1..Len(raw) -> T]
    BY <1>2, <1>3
<1>5. list \in Seq(T)
    BY <1>2, <1>4, SeqDef
<1>6. Len(list) \in Nat /\ DOMAIN list = 1..Len(list)
    BY <1>5, LenProperties
<1>7. ASSUME NEW i \in DOMAIN list PROVE list[i].tunnel # ""
  <2>1. i \in DOMAIN raw /\ list[i] = DefaultedEntry(raw[i])
      BY <1>2, <1>3, <1>7
  <2>2. "tunnel" \in DOMAIN raw[i]
      BY <2>1, WrittenAssumption
  <2>3. list[i].tunnel = Or(raw[i].tunnel, "vxlan")
      BY <2>1, <2>2 DEF DefaultedEntry
  <2> QED
      BY <2>3 DEF Or
<1> QED
    BY <1>6, <1>7 DEF IsList

\* Two getters of a vpc x answer from one and the same entry of a list for every name.
Agree(x, list) ==
  /\ DOMAIN GetRoutingTables(x) = {list[i].name : i \in DOMAIN list}
  /\ DOMAIN GetBridge2RoutingTable(x) = DOMAIN GetRoutingTables(x)
  /\ \A rt \in DOMAIN GetRoutingTables(x) : \E i \in DOMAIN list :
       /\ list[i].name = rt /\ GetRoutingTables(x)[rt] = list[i]
       /\ GetBridge2RoutingTable(x)[rt] = list[i].bridgeDomains

\* They do so for the list of the vpc.
LEMMA GettersAgree ==
  ASSUME NEW x, NEW list, list = x.routingTables, IsList(list)
  PROVE  Agree(x, list)
<1> DEFINE a == [i \in DOMAIN list |-> [key |-> list[i].name, value |-> list[i]]]
           b == [i \in DOMAIN list |-> [key |-> list[i].name, value |-> list[i].bridgeDomains]]
           n == Len(list)
<1>0. n \in Nat /\ DOMAIN list = 1..n
    BY DEF IsList
<1>1. Len(a) = n /\ Len(b) = n
  <2>1. a \in [1..n -> {a[i] : i \in 1..n}] /\ b \in [1..n -> {b[i] : i \in 1..n}]
      BY <1>0
  <2>2. a \in Seq({a[i] : i \in 1..n}) /\ b \in Seq({b[i] : i \in 1..n})
      BY <1>0, <2>1, SeqDef
  <2>3. DOMAIN a = 1..Len(a) /\ DOMAIN b = 1..Len(b) /\ Len(a) \in Nat /\ Len(b) \in Nat
      BY <2>2, LenProperties
  <2>4. DOMAIN a = 1..n /\ DOMAIN b = 1..n
      BY <1>0
  <2> QED
      BY <1>0, <2>3, <2>4
<1>2. \A i \in 1..n : /\ a[i].key = list[i].name /\ a[i].value = list[i]
                      /\ b[i].key = list[i].name /\ b[i].value = list[i].bridgeDomains
    BY <1>0
<1>3. GetRoutingTables(x) = AsMap(a) /\ GetBridge2RoutingTable(x) = AsMap(b)
    BY DEF GetRoutingTables, ByName, GetBridge2RoutingTable
<1> HIDE DEF a, b
<1>4. SameEntries(a, b)
  <2>1. SameKeys(a, b)
      BY <1>0, <1>1, <1>2 DEF SameKeys
  <2> QED
      BY ONLY <2>1, SameEntry
<1>5. DOMAIN AsMap(a) = {list[i].name : i \in DOMAIN list}
  <2>1. {a[i].key : i \in 1..Len(a)} = {list[i].name : i \in DOMAIN list}
      BY <1>0, <1>1, <1>2
  <2> QED
      BY <1>4, <2>1 DEF SameEntries
<1>6. ASSUME NEW k \in DOMAIN AsMap(a)
      PROVE  \E i \in DOMAIN list :
               list[i].name = k /\ AsMap(a)[k] = list[i] /\ AsMap(b)[k] = list[i].bridgeDomains
  <2>1. PICK i \in 1..Len(a) :
          a[i].key = k /\ AsMap(a)[k] = a[i].value /\ AsMap(b)[k] = b[i].value
      BY <1>4, <1>6 DEF SameEntries
  <2>2. i \in 1..n /\ i \in DOMAIN list
      BY <1>0, <1>1
  <2>3. /\ a[i].key = list[i].name /\ a[i].value = list[i]
        /\ b[i].value = list[i].bridgeDomains
      BY <1>2, <2>2
  <2> QED
      BY <2>1, <2>2, <2>3
<1>7. DOMAIN AsMap(a) = DOMAIN AsMap(b)
    BY <1>4 DEF SameEntries
<1> QED
    BY <1>3, <1>5, <1>6, <1>7 DEF Agree

\* What is read of a routing table, of a stored vpc y: one entry of its name.
LEMMA TableRead ==
  ASSUME NEW x \in Written, NEW y, y = Defaulted(x), NEW list, list = y.routingTables,
         NEW s, s = ReadSpec(y), NEW rt \in RoutingTables
  PROVE  \/ /\ ~ \E i \in DOMAIN list : list[i].name = rt
            /\ s.selected[rt] = {} /\ s.domains[rt] = <<>>
         \/ \E i \in DOMAIN list :
              /\ list[i].name = rt
              /\ list[i].selected = s.selected[rt] /\ list[i].prefixes = s.prefixes[rt]
              /\ list[i].bridgeDomains = s.domains[rt] /\ list[i].tunnel = s.tunnel[rt]
<1>1. IsList(list) /\ \A i \in DOMAIN list : list[i].tunnel # ""
    BY StoredList
<1>2. Agree(y, list)
    BY <1>1, GettersAgree
<1>3. rt \in Nis /\ rt \notin BridgeDomains
    BY DeviceConfigAssumption DEF Nis
<1>4. Entries(y, rt) = GetRoutingTables(y)
    BY <1>3 DEF Entries
<1>5. /\ s.selected[rt] = IF rt \in DOMAIN Entries(y, rt) THEN Entries(y, rt)[rt].selected ELSE {}
      /\ s.prefixes[rt] = IF rt \in DOMAIN Entries(y, rt) THEN Entries(y, rt)[rt].prefixes
                          ELSE [l \in Links |-> {}]
      /\ s.domains[rt] = IF rt \in DOMAIN GetBridge2RoutingTable(y)
                         THEN GetBridge2RoutingTable(y)[rt] ELSE <<>>
      /\ s.tunnel[rt] = GetRoutingTableTunnel(y, rt)
    BY <1>3 DEF ReadSpec
<1>6. CASE rt \in DOMAIN GetRoutingTables(y)
  <2>1. PICK i \in DOMAIN list :
          /\ list[i].name = rt /\ GetRoutingTables(y)[rt] = list[i]
          /\ GetBridge2RoutingTable(y)[rt] = list[i].bridgeDomains
      BY <1>2, <1>6 DEF Agree
  <2>2. GetRoutingTableTunnel(y, rt) = list[i].tunnel
    <3>1. list[i].tunnel # ""
        BY <1>1
    <3> QED
        BY <1>6, <2>1, <3>1 DEF GetRoutingTableTunnel, TunnelOf, Or
  <2>3. rt \in DOMAIN GetBridge2RoutingTable(y)
      BY <1>2, <1>6 DEF Agree
  <2> QED
      BY <1>4, <1>5, <1>6, <2>1, <2>2, <2>3
<1>7. CASE rt \notin DOMAIN GetRoutingTables(y)
  <2>1. /\ rt \notin DOMAIN GetBridge2RoutingTable(y)
        /\ ~ \E i \in DOMAIN list : list[i].name = rt
      BY <1>2, <1>7 DEF Agree
  <2> QED
      BY <1>4, <1>5, <1>7, <2>1
<1> QED
    BY <1>6, <1>7

\* While populateSchema runs, the spec it works with is that of the resource.
ReadInv == written \in Written /\ spec = ReadSpec(Stored)

\* It holds in every state of a behaviour.
LEMMA ReadInvariant == WrittenSpec => []ReadInv
<1>1. WrittenInit => ReadInv
    BY DEF WrittenInit, ReadInv
<1>2. ReadInv /\ [WrittenNext]_<<vars, written>> => ReadInv'
  <2> SUFFICES ASSUME ReadInv, [WrittenNext]_<<vars, written>> PROVE ReadInv'
      OBVIOUS
  <2>1. written' = written
      BY DEF WrittenNext
  <2>2. spec' = spec
      BY DEF WrittenNext, Next, PopulateBridgeDomain, PopulateRouteTable, PopulateRouteIrb,
             Finish, vars
  <2> QED
      BY <2>1, <2>2 DEF ReadInv, Stored
<1> QED
    BY <1>1, <1>2, PTL DEF WrittenSpec

\* Whatever names occur twice, the selectors, the tunnel and the bridge domains that
\* are configured for a routing table come from one and the same entry of the list.
THEOREM OneEntryCorrect == WrittenSpec => []OneEntryPerTable
<1>1. ASSUME ReadInv PROVE OneEntryPerTable
  <2> DEFINE list == Stored.routingTables
  <2>1. ASSUME NEW rt \in RoutingTables
        PROVE  \/ /\ ~ \E i \in DOMAIN list : list[i].name = rt
                  /\ spec.selected[rt] = {} /\ spec.domains[rt] = <<>>
               \/ \E i \in DOMAIN list :
                    /\ list[i].name = rt
                    /\ list[i].selected = spec.selected[rt]
                    /\ list[i].prefixes = spec.prefixes[rt]
                    /\ list[i].bridgeDomains = spec.domains[rt]
                    /\ list[i].tunnel = spec.tunnel[rt]
    <3>1. written \in Written /\ Stored = Defaulted(written) /\ spec = ReadSpec(Stored)
        BY <1>1 DEF ReadInv, Stored
    <3> QED
        BY <3>1, TableRead
  <2> QED
      BY <2>1 DEF OneEntryPerTable
<1> QED
    BY <1>1, ReadInvariant, PTL
=============================================================================
