---------------------------- MODULE SchemaStore ----------------------------
(***************************************************************************)
(* The in-memory schema (pkg/schema), a library: devices with interfaces,  *)
(* subinterfaces and network instances.  Every Create operation is "update *)
(* it, or create it if it is not there"; where the thing is not there, the *)
(* code calls a method of the nil interface the map lookup returned.  What *)
(* exists has been put into the maps by the caller: GetDevices,            *)
(* GetInterfaces and the others return the maps themselves.                *)
(*                                                                         *)
(* The data of a device or an interface is abstracted to whether its kind  *)
(* is set: Print dereferences it.                                          *)
(***************************************************************************)
EXTENDS Naturals

CONSTANTS
  Devices, Itfces, NiNames,
  Indexes,          \* of subinterfaces
  GoodPrefixes,
  NoGateway,        \* prefixes for which there is no gateway
  Unparsable,       \* strings that are no prefix
  MaxPrefixes,      \* bound: prefixes of one call
  Panic             \* in place of a store: the process is gone

ASSUME SchemaStoreAssumption ==
  /\ MaxPrefixes \in Nat
  /\ {} \notin {Devices, Itfces, NiNames, Indexes}

VARIABLE store      \* the schema, or Panic

NoEntries == [k \in {} |-> k]
Empty == [devices |-> NoEntries, itfces |-> NoEntries, subs |-> NoEntries, nis |-> NoEntries]

BadPrefixes == NoGateway \cup Unparsable      \* those getAdressInfo returns an error for
Prefixes == GoodPrefixes \cup BadPrefixes
PrefixLists == UNION {[1..n -> Prefixes] : n \in 0..MaxPrefixes}

Has(map, k) == k \in DOMAIN map
Put(map, k, value) == [j \in DOMAIN map \cup {k} |-> IF j = k THEN value ELSE map[j]]
Unset == [kind |-> FALSE]
Full == [kind |-> TRUE]

-----------------------------------------------------------------------------
(* The operations, on a store s.                                            *)

CreateDevice(s, d, data) ==
  IF Has(s.devices, d) THEN [s EXCEPT !.devices[d] = data] ELSE Panic

CreateDeviceInterface(s, d, i, data) ==
  IF ~Has(s.devices, d) THEN s
  ELSE IF Has(s.itfces, <<d, i>>) THEN [s EXCEPT !.itfces[<<d, i>>] = data]
  ELSE Panic

\* Mutant of CreateSubInterface: a subinterface that is missing is passed over.
CreateSubInterfaceIfThere(s, d, i, n, x) ==
  IF ~Has(s.devices, d) \/ ~Has(s.nis, <<d, n>>) THEN s
  ELSE IF Has(s.itfces, <<d, i>>) THEN [s EXCEPT !.nis[<<d, n>>] = {<<d, i, x>>}]
  ELSE Panic

\* Mutant of CreateSubInterface: a subinterface that exists is made anew.
CreateSubInterfaceAnew(s, d, i, n, x) ==
  LET t == IF Has(s.itfces, <<d, i>>) THEN [s EXCEPT !.subs = Put(@, <<d, i, x>>, {})] ELSE s
  IN  IF ~Has(s.devices, d) \/ ~Has(s.nis, <<d, n>>) THEN t
      ELSE IF Has(s.itfces, <<d, i>>) THEN [t EXCEPT !.nis[<<d, n>>] = {<<d, i, x>>}]
      ELSE Panic

\* What exists is not updated.  The network instance maps a key to the subinterface;
\* the key is set only on the way to the panic, so that it is "" every time and the
\* map never has more than one entry.
CreateSubInterface(s, d, i, n, x) ==
  IF ~Has(s.devices, d) THEN s
  ELSE IF Has(s.itfces, <<d, i>>) /\ ~Has(s.subs, <<d, i, x>>) THEN Panic
  ELSE IF ~Has(s.nis, <<d, n>>) THEN s
  ELSE IF Has(s.itfces, <<d, i>>) THEN [s EXCEPT !.nis[<<d, n>>] = {<<d, i, x>>}]
  ELSE Panic

CreateNetworkInstance(s, d, n) ==
  IF ~Has(s.devices, d) \/ Has(s.nis, <<d, n>>) THEN s ELSE Panic

\* Addresses are kept under their prefix, a second one replaces the first.  A caller
\* that allocates by itself may give a prefix that has no gateway.
CreateAddressInfo(s, d, i, x, p) ==
  IF ~Has(s.subs, <<d, i, x>>) THEN s
  ELSE IF p \in Unparsable THEN Panic
  ELSE [s EXCEPT !.subs[<<d, i, x>>] = @ \cup {p}]

\* An error stops the loop and leaves the addresses before it.
AddAddresses(s, d, i, x, prefixes) ==
  LET bad  == {k \in DOMAIN prefixes : prefixes[k] \in BadPrefixes}
      good == {prefixes[k] : k \in {j \in DOMAIN prefixes : \A b \in bad : j < b}}
  IN  IF Has(s.subs, <<d, i, x>>) THEN [s EXCEPT !.subs[<<d, i, x>>] = @ \cup good] ELSE s

\* The next call, unless the process is gone.
Then(s, next) == IF s = Panic THEN Panic ELSE next

\* The device and the interface are written with a name and nothing else; the
\* subinterface comes before the network instance that refers to it.
PopulateSchema(s, d, i, n, x, prefixes) ==
  LET s1 == CreateDevice(s, d, Unset)
      s2 == Then(s1, CreateDeviceInterface(s1, d, i, Unset))
      s3 == Then(s2, CreateSubInterface(s2, d, i, n, x))
      s4 == Then(s3, CreateNetworkInstance(s3, d, n))
  IN  Then(s4, AddAddresses(s4, d, i, x, prefixes))

-----------------------------------------------------------------------------
(* The callers                                                              *)

Alive == store # Panic

InsertDevice(d) ==
  /\ Alive /\ ~Has(store.devices, d)
  /\ store' = [store EXCEPT !.devices = Put(@, d, Full)]

InsertInterface(d, i) ==
  /\ Alive /\ Has(store.devices, d) /\ ~Has(store.itfces, <<d, i>>)
  /\ store' = [store EXCEPT !.itfces = Put(@, <<d, i>>, Full)]

InsertSubInterface(d, i, x) ==
  /\ Alive /\ Has(store.itfces, <<d, i>>) /\ ~Has(store.subs, <<d, i, x>>)
  /\ store' = [store EXCEPT !.subs = Put(@, <<d, i, x>>, {})]

InsertNetworkInstance(d, n) ==
  /\ Alive /\ Has(store.devices, d) /\ ~Has(store.nis, <<d, n>>)
  /\ store' = [store EXCEPT !.nis = Put(@, <<d, n>>, {})]

Populate(d, i, n, x, prefixes) ==
  /\ Alive
  /\ store' = PopulateSchema(store, d, i, n, x, prefixes)

Create(d, i, n, x) ==
  /\ Alive
  /\ \/ store' = CreateDevice(store, d, Full)
     \/ store' = CreateDeviceInterface(store, d, i, Full)
     \/ store' = CreateNetworkInstance(store, d, n)
     \/ \E p \in Prefixes : store' = CreateAddressInfo(store, d, i, x, p)

CreateAttached(d, i, n, x) ==
  /\ Alive
  /\ store' = CreateSubInterface(store, d, i, n, x)

\* PrintDevices dereferences the kind of every device and interface, and the network
\* instance of every subinterface, which nothing ever sets.
PrintDevices ==
  /\ Alive
  /\ \/ \E d \in DOMAIN store.devices : store.devices[d] = Unset
     \/ \E k \in DOMAIN store.itfces : store.itfces[k] = Unset
     \/ DOMAIN store.subs # {}
  /\ store' = Panic

Init == store = Empty

Next ==
  \/ PrintDevices
  \/ \E d \in Devices : InsertDevice(d)
  \/ \E d \in Devices, n \in NiNames : InsertNetworkInstance(d, n)
  \/ \E d \in Devices, i \in Itfces : InsertInterface(d, i)
  \/ \E d \in Devices, i \in Itfces, x \in Indexes : InsertSubInterface(d, i, x)
  \/ \E d \in Devices, i \in Itfces, n \in NiNames, x \in Indexes :
       \/ Create(d, i, n, x) \/ CreateAttached(d, i, n, x)
       \/ \E prefixes \in PrefixLists : Populate(d, i, n, x, prefixes)

Spec == Init /\ [][Next]_store

-----------------------------------------------------------------------------
(* Properties                                                               *)

\* What a network instance refers to exists: its subinterface is never the nil a map
\* lookup returns for an interface or an index that was not created.
ReferenceResolves ==
  store # Panic =>
    \A k \in DOMAIN store.nis : store.nis[k] \subseteq DOMAIN store.subs

\* A schema that exists is made of four maps: with ReferenceResolves, an invariant
\* that every call keeps.
IsStore(s) ==
  /\ s = [devices |-> s.devices, itfces |-> s.itfces, subs |-> s.subs, nis |-> s.nis]
  /\ \A map \in {s.devices, s.itfces, s.subs, s.nis} : map = [k \in DOMAIN map |-> map[k]]

StoreInv == (store # Panic => IsStore(store)) /\ ReferenceResolves

\* All of f but the entries of K is in g.
SameBut(f, g, K) ==
  /\ DOMAIN f \subseteq DOMAIN g
  /\ \A k \in DOMAIN f \ K : g[k] = f[k]

\* What a call may take away when it is about interface i and network instance n of
\* device d and subinterface x of i: the data of d and i, which PopulateSchema replaces
\* by bare names (schema.go:60-69), and the subinterface that n had before
\* (subinterface.go:23).  The addresses of x only grow.
Confined(s, t, d, i, n, x) ==
  /\ SameBut(s.devices, t.devices, {d})
  /\ SameBut(s.itfces, t.itfces, {<<d, i>>})
  /\ SameBut(s.nis, t.nis, {<<d, n>>})
  /\ SameBut(s.subs, t.subs, {<<d, i, x>>})
  /\ <<d, n>> \in DOMAIN s.nis => t.nis[<<d, n>>] \in {s.nis[<<d, n>>], {<<d, i, x>>}}
  /\ <<d, i, x>> \in DOMAIN s.subs => s.subs[<<d, i, x>>] \subseteq t.subs[<<d, i, x>>]

\* PopulateSchema is called for one interface of one network instance at a time, and
\* stops at a prefix it cannot use.  No call loses anything of what another one has
\* added for other interfaces and network instances, nor an address of its own; what it
\* does take away is what Confined lists.
LossConfined ==
  [][store' # Panic =>
       \E d \in Devices, i \in Itfces, n \in NiNames, x \in Indexes :
         Confined(store, store', d, i, n, x)]_store
=============================================================================
