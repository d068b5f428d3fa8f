------------------------- MODULE SchemaStoreProofs -------------------------
(***************************************************************************)
(* What every call on the in-memory schema keeps, for every set of         *)
(* devices, interfaces, network instances and prefixes: the references of  *)
(* the network instances resolve, and what is lost is confined.            *)
(* PopulateSchema is a chain of the other calls; Confined is transitive.   *)
(***************************************************************************)
EXTENDS SchemaStore, TLAPS

\* The same of a store s that ReferenceResolves says of the variable.
Resolves(s) == \A k \in DOMAIN s.nis : s.nis[k] \subseteq DOMAIN s.subs

\* A call that did not take the process down: the store t it leaves of s is a
\* store, in which every reference resolves, and what is lost of s is confined.
Served(s, t, d, i, n, x) ==
  t # Panic /\ IsStore(s) /\ Resolves(s) => IsStore(t) /\ Resolves(t) /\ Confined(s, t, d, i, n, x)

-----------------------------------------------------------------------------
(* Maps                                                                     *)

\* The four maps of a store, and a store made of four maps.
LEMMA StoreMaps ==
  ASSUME NEW s, IsStore(s)
  PROVE  /\ s.devices = [k \in DOMAIN s.devices |-> s.devices[k]]
         /\ s.itfces = [k \in DOMAIN s.itfces |-> s.itfces[k]]
         /\ s.subs = [k \in DOMAIN s.subs |-> s.subs[k]]
         /\ s.nis = [k \in DOMAIN s.nis |-> s.nis[k]]
BY DEF IsStore

\* One entry of the network instances of a store set.
LEMMA SetReference ==
  ASSUME NEW s, IsStore(s), NEW k, NEW v
  PROVE  [s EXCEPT !.nis[k] = v] =
           [devices |-> s.devices, itfces |-> s.itfces, subs |-> s.subs,
            nis |-> [s.nis EXCEPT ![k] = v]]
BY DEF IsStore

\* A store whose subinterfaces and network instances are those of a sound store s,
\* with another entry for device d or interface i of d, is served.
LEMMA OtherEntries ==
  ASSUME NEW s, NEW D, NEW I, NEW t, NEW d, NEW i, NEW n, NEW x,
         D = [k \in DOMAIN D |-> D[k]], I = [k \in DOMAIN I |-> I[k]],
         IsStore(s) => SameBut(s.devices, D, {d}) /\ SameBut(s.itfces, I, {<<d, i>>}),
         IsStore(s) => t = [devices |-> D, itfces |-> I, subs |-> s.subs, nis |-> s.nis]
  PROVE  Served(s, t, d, i, n, x)
<1> SUFFICES ASSUME IsStore(s), Resolves(s)
             PROVE  IsStore(t) /\ Resolves(t) /\ Confined(s, t, d, i, n, x)
    BY DEF Served
<1>1. /\ t = [devices |-> D, itfces |-> I, subs |-> s.subs, nis |-> s.nis]
      /\ t.devices = D /\ t.itfces = I /\ t.subs = s.subs /\ t.nis = s.nis
    OBVIOUS
<1>2. IsStore(t)
    BY <1>1, StoreMaps DEF IsStore
<1> QED
    BY <1>1, <1>2 DEF Resolves, Confined, SameBut

\* One subinterface of a store is added or grows.
LEMMA MoreSubInterfaces ==
  ASSUME NEW s, NEW S, NEW t, NEW d, NEW i, NEW n, NEW x, S = [k \in DOMAIN S |-> S[k]],
         IsStore(s) => SameBut(s.subs, S, {<<d, i, x>>}),
         IsStore(s) /\ <<d, i, x>> \in DOMAIN s.subs =>
           s.subs[<<d, i, x>>] \subseteq S[<<d, i, x>>],
         IsStore(s) => t = [devices |-> s.devices, itfces |-> s.itfces, subs |-> S, nis |-> s.nis]
  PROVE  Served(s, t, d, i, n, x)
<1> SUFFICES ASSUME IsStore(s), Resolves(s)
             PROVE  IsStore(t) /\ Resolves(t) /\ Confined(s, t, d, i, n, x)
    BY DEF Served
<1>1. /\ t = [devices |-> s.devices, itfces |-> s.itfces, subs |-> S, nis |-> s.nis]
      /\ t.devices = s.devices /\ t.itfces = s.itfces /\ t.subs = S /\ t.nis = s.nis
    OBVIOUS
<1>2. IsStore(t)
    BY <1>1, StoreMaps DEF IsStore
<1> QED
    BY <1>1, <1>2 DEF Resolves, Confined, SameBut

\* A network instance is added, or refers to another subinterface that exists.
LEMMA OtherReferences ==
  ASSUME NEW s, NEW N, NEW t, NEW d, NEW i, NEW n, NEW x, N = [k \in DOMAIN N |-> N[k]],
         IsStore(s) => SameBut(s.nis, N, {<<d, n>>}),
         IsStore(s) /\ <<d, n>> \in DOMAIN s.nis =>
           N[<<d, n>>] \in {s.nis[<<d, n>>], {<<d, i, x>>}},
         IsStore(s) /\ Resolves(s) => \A k \in DOMAIN N : N[k] \subseteq DOMAIN s.subs,
         IsStore(s) => t = [devices |-> s.devices, itfces |-> s.itfces, subs |-> s.subs, nis |-> N]
  PROVE  Served(s, t, d, i, n, x)
<1> SUFFICES ASSUME IsStore(s), Resolves(s)
             PROVE  IsStore(t) /\ Resolves(t) /\ Confined(s, t, d, i, n, x)
    BY DEF Served
<1>1. /\ t = [devices |-> s.devices, itfces |-> s.itfces, subs |-> s.subs, nis |-> N]
      /\ t.devices = s.devices /\ t.itfces = s.itfces /\ t.subs = s.subs /\ t.nis = N
    OBVIOUS
<1>2. IsStore(t)
    BY <1>1, StoreMaps DEF IsStore
<1> QED
    BY <1>1, <1>2 DEF Resolves, Confined, SameBut

\* A call that does nothing is served, and so is one that panics.
LEMMA NothingDone ==
  ASSUME NEW s, NEW d, NEW i, NEW n, NEW x
  PROVE  Served(s, s, d, i, n, x) /\ Served(s, Panic, d, i, n, x)
BY DEF Served, Confined, SameBut

\* Two calls, one after the other.
LEMMA BothServed ==
  ASSUME NEW s, NEW t, NEW u, NEW d, NEW i, NEW n, NEW x,
         Served(s, t, d, i, n, x), Served(t, u, d, i, n, x)
  PROVE  Served(s, Then(t, u), d, i, n, x)
BY DEF Served, Then, Confined, SameBut

-----------------------------------------------------------------------------
(* The calls                                                                *)

\* A device is updated, or the call panics.
LEMMA CreateDeviceServed ==
  ASSUME NEW s, NEW d, NEW i, NEW n, NEW x, NEW data
  PROVE  Served(s, CreateDevice(s, d, data), d, i, n, x)
<1>1. CASE Has(s.devices, d)
  <2> DEFINE D == [s.devices EXCEPT ![d] = data]
             t == [s EXCEPT !.devices[d] = data]
  <2>1. IsStore(s) => t = [devices |-> D, itfces |-> s.itfces, subs |-> s.subs, nis |-> s.nis]
      BY DEF IsStore
  <2>2. D = [k \in DOMAIN D |-> D[k]] /\ SameBut(s.devices, D, {d})
      BY DEF SameBut
  <2>3. /\ IsStore(s) => s.itfces = [k \in DOMAIN s.itfces |-> s.itfces[k]]
        /\ SameBut(s.itfces, s.itfces, {<<d, i>>})
      BY StoreMaps DEF SameBut
  <2>4. CreateDevice(s, d, data) = t
      BY <1>1 DEF CreateDevice
  <2> HIDE DEF D, t
  <2>5. CASE IsStore(s)
      BY <2>1, <2>2, <2>3, <2>4, <2>5, OtherEntries
  <2> QED
      BY <2>4, <2>5 DEF Served
<1> QED
    BY <1>1, NothingDone DEF CreateDevice

\* An interface is updated, or the call panics.
LEMMA CreateDeviceInterfaceServed ==
  ASSUME NEW s, NEW d, NEW i, NEW n, NEW x, NEW data
  PROVE  Served(s, CreateDeviceInterface(s, d, i, data), d, i, n, x)
<1>1. CASE Has(s.devices, d) /\ Has(s.itfces, <<d, i>>)
  <2> DEFINE I == [s.itfces EXCEPT ![<<d, i>>] = data]
             t == [s EXCEPT !.itfces[<<d, i>>] = data]
  <2>1. IsStore(s) => t = [devices |-> s.devices, itfces |-> I, subs |-> s.subs, nis |-> s.nis]
      BY DEF IsStore
  <2>2. I = [k \in DOMAIN I |-> I[k]] /\ SameBut(s.itfces, I, {<<d, i>>})
      BY DEF SameBut
  <2>3. /\ IsStore(s) => s.devices = [k \in DOMAIN s.devices |-> s.devices[k]]
        /\ SameBut(s.devices, s.devices, {d})
      BY StoreMaps DEF SameBut
  <2>4. CreateDeviceInterface(s, d, i, data) = t
      BY <1>1 DEF CreateDeviceInterface
  <2> HIDE DEF I, t
  <2>5. CASE IsStore(s)
      BY <2>1, <2>2, <2>3, <2>4, <2>5, OtherEntries
  <2> QED
      BY <2>4, <2>5 DEF Served
<1> QED
    BY <1>1, NothingDone DEF CreateDeviceInterface

\* The network instance refers to a subinterface that exists, because the call panics
\* where it does not and the interface does, and where the interface does not exist.
LEMMA CreateSubInterfaceServed ==
  ASSUME NEW s, NEW d, NEW i, NEW n, NEW x
  PROVE  Served(s, CreateSubInterface(s, d, i, n, x), d, i, n, x)
<1>1. CASE /\ Has(s.devices, d) /\ Has(s.nis, <<d, n>>) /\ Has(s.itfces, <<d, i>>)
           /\ Has(s.subs, <<d, i, x>>)
  <2> DEFINE N == [s.nis EXCEPT ![<<d, n>>] = {<<d, i, x>>}]
             t == [s EXCEPT !.nis[<<d, n>>] = {<<d, i, x>>}]
  <2>1. IsStore(s) => t = [devices |-> s.devices, itfces |-> s.itfces, subs |-> s.subs, nis |-> N]
      BY SetReference
  <2>2. /\ N = [k \in DOMAIN N |-> N[k]] /\ SameBut(s.nis, N, {<<d, n>>})
        /\ DOMAIN N = DOMAIN s.nis /\ <<d, n>> \in DOMAIN s.nis
        /\ N[<<d, n>>] = {<<d, i, x>>}
      BY <1>1 DEF Has, SameBut
  <2>3. <<d, i, x>> \in DOMAIN s.subs
      BY <1>1 DEF Has
  <2>4. Resolves(s) => \A k \in DOMAIN N : N[k] \subseteq DOMAIN s.subs
      BY <2>2, <2>3 DEF Resolves
  <2>5. CreateSubInterface(s, d, i, n, x) = t
      BY <1>1 DEF CreateSubInterface
  <2> HIDE DEF N, t
  <2>6. CASE IsStore(s)
      BY <2>1, <2>2, <2>4, <2>5, <2>6, OtherReferences
  <2> QED
      BY <2>5, <2>6 DEF Served
<1> QED
    BY <1>1, NothingDone DEF CreateSubInterface

\* A network instance is left as it is, or the call panics.
LEMMA CreateNetworkInstanceServed ==
  ASSUME NEW s, NEW d, NEW i, NEW n, NEW x
  PROVE  Served(s, CreateNetworkInstance(s, d, n), d, i, n, x)
BY NothingDone DEF CreateNetworkInstance

\* The addresses of one subinterface grow.
LEMMA AddressesServed ==
  ASSUME NEW s, NEW d, NEW i, NEW n, NEW x, Has(s.subs, <<d, i, x>>), NEW more
  PROVE  Served(s, [s EXCEPT !.subs[<<d, i, x>>] = @ \cup more], d, i, n, x)
<1> DEFINE S == [s.subs EXCEPT ![<<d, i, x>>] = @ \cup more]
           t == [s EXCEPT !.subs[<<d, i, x>>] = @ \cup more]
<1>1. IsStore(s) => t = [devices |-> s.devices, itfces |-> s.itfces, subs |-> S, nis |-> s.nis]
  <2>1. IsStore(s) => s = [devices |-> s.devices, itfces |-> s.itfces, subs |-> s.subs,
                           nis |-> s.nis]
      BY DEF IsStore
  <2> HIDE DEF S
  <2>2. t = [s EXCEPT !.subs = S]
      BY DEF S
  <2> QED
      BY <2>1, <2>2
<1>2. S = [j \in DOMAIN S |-> S[j]]
    OBVIOUS
<1>3. /\ SameBut(s.subs, S, {<<d, i, x>>})
      /\ s.subs[<<d, i, x>>] \subseteq S[<<d, i, x>>]
    BY DEF Has, SameBut
<1> HIDE DEF S, t
<1>4. Served(s, t, d, i, n, x)
    BY <1>1, <1>2, <1>3, MoreSubInterfaces
<1> QED
    BY <1>4 DEF t

\* An address is added to its subinterface.
LEMMA CreateAddressInfoServed ==
  ASSUME NEW s, NEW d, NEW i, NEW n, NEW x, NEW p
  PROVE  Served(s, CreateAddressInfo(s, d, i, x, p), d, i, n, x)
<1>1. CASE Has(s.subs, <<d, i, x>>)
  <2>1. Served(s, [s EXCEPT !.subs[<<d, i, x>>] = @ \cup {p}], d, i, n, x)
      BY <1>1, AddressesServed
  <2> QED
      BY <1>1, <2>1, NothingDone DEF CreateAddressInfo
<1> QED
    BY <1>1, NothingDone DEF CreateAddressInfo

\* The addresses of the prefixes before the first bad one are added.
LEMMA AddAddressesServed ==
  ASSUME NEW s, NEW d, NEW i, NEW n, NEW x, NEW prefixes
  PROVE  Served(s, AddAddresses(s, d, i, x, prefixes), d, i, n, x)
<1>1. CASE Has(s.subs, <<d, i, x>>)
  <2>1. \A more : Served(s, [s EXCEPT !.subs[<<d, i, x>>] = @ \cup more], d, i, n, x)
      BY <1>1, AddressesServed
  <2> QED
      BY <1>1, <2>1 DEF AddAddresses
<1> QED
    BY <1>1, NothingDone DEF AddAddresses

\* PopulateSchema is five of these calls, the last ones not made after a panic.
LEMMA PopulateSchemaServed ==
  ASSUME NEW s, NEW d, NEW i, NEW n, NEW x, NEW prefixes
  PROVE  Served(s, PopulateSchema(s, d, i, n, x, prefixes), d, i, n, x)
<1> DEFINE s1 == CreateDevice(s, d, Unset)
           s2 == Then(s1, CreateDeviceInterface(s1, d, i, Unset))
           s3 == Then(s2, CreateSubInterface(s2, d, i, n, x))
           s4 == Then(s3, CreateNetworkInstance(s3, d, n))
           s5 == Then(s4, AddAddresses(s4, d, i, x, prefixes))
<1>1. Served(s, s1, d, i, n, x)
    BY CreateDeviceServed
<1>2. Served(s, s2, d, i, n, x)
  <2>1. Served(s1, CreateDeviceInterface(s1, d, i, Unset), d, i, n, x)
      BY CreateDeviceInterfaceServed
  <2> QED
      BY <1>1, <2>1, BothServed
<1>3. Served(s, s3, d, i, n, x)
  <2>1. Served(s2, CreateSubInterface(s2, d, i, n, x), d, i, n, x)
      BY CreateSubInterfaceServed
  <2> QED
      BY <1>2, <2>1, BothServed
<1>4. Served(s, s4, d, i, n, x)
  <2>1. Served(s3, CreateNetworkInstance(s3, d, n), d, i, n, x)
      BY CreateNetworkInstanceServed
  <2> QED
      BY <1>3, <2>1, BothServed
<1>5. Served(s, s5, d, i, n, x)
  <2>1. Served(s4, AddAddresses(s4, d, i, x, prefixes), d, i, n, x)
      BY AddAddressesServed
  <2> QED
      BY <1>4, <2>1, BothServed
<1> QED
    BY <1>5 DEF PopulateSchema

-----------------------------------------------------------------------------
(* The callers                                                              *)

\* A device that is inserted.
LEMMA InsertDeviceServed ==
  ASSUME NEW d, NEW i, NEW n, NEW x, InsertDevice(d)
  PROVE  Served(store, store', d, i, n, x)
<1> DEFINE D == Put(store.devices, d, Full)
<1>1. IsStore(store) => store' = [devices |-> D, itfces |-> store.itfces, subs |-> store.subs,
                                  nis |-> store.nis]
    BY DEF InsertDevice, IsStore
<1>2. D = [k \in DOMAIN D |-> D[k]] /\ SameBut(store.devices, D, {d})
    BY DEF Put, SameBut
<1>3. /\ IsStore(store) => store.itfces = [k \in DOMAIN store.itfces |-> store.itfces[k]]
      /\ SameBut(store.itfces, store.itfces, {<<d, i>>})
    BY StoreMaps DEF SameBut
<1> HIDE DEF D
<1>4. CASE IsStore(store)
    BY <1>1, <1>2, <1>3, <1>4, OtherEntries
<1> QED
    BY <1>4 DEF Served

\* An interface that is inserted.
LEMMA InsertInterfaceServed ==
  ASSUME NEW d, NEW i, NEW n, NEW x, InsertInterface(d, i)
  PROVE  Served(store, store', d, i, n, x)
<1> DEFINE I == Put(store.itfces, <<d, i>>, Full)
<1>1. IsStore(store) => store' = [devices |-> store.devices, itfces |-> I, subs |-> store.subs,
                                  nis |-> store.nis]
    BY DEF InsertInterface, IsStore
<1>2. I = [k \in DOMAIN I |-> I[k]] /\ SameBut(store.itfces, I, {<<d, i>>})
    BY DEF Put, SameBut
<1>3. /\ IsStore(store) => store.devices = [k \in DOMAIN store.devices |-> store.devices[k]]
      /\ SameBut(store.devices, store.devices, {d})
    BY StoreMaps DEF SameBut
<1> HIDE DEF I
<1>4. CASE IsStore(store)
    BY <1>1, <1>2, <1>3, <1>4, OtherEntries
<1> QED
    BY <1>4 DEF Served

\* A subinterface that is inserted: it was not there, so that nothing is replaced.
LEMMA InsertSubInterfaceServed ==
  ASSUME NEW d, NEW i, NEW n, NEW x, InsertSubInterface(d, i, x)
  PROVE  Served(store, store', d, i, n, x)
<1> DEFINE S == Put(store.subs, <<d, i, x>>, {})
<1>1. IsStore(store) => store' = [devices |-> store.devices, itfces |-> store.itfces, subs |-> S,
                                  nis |-> store.nis]
    BY DEF InsertSubInterface, IsStore
<1>2. /\ S = [k \in DOMAIN S |-> S[k]] /\ DOMAIN S = DOMAIN store.subs \cup {<<d, i, x>>}
      /\ \A k \in DOMAIN store.subs : k # <<d, i, x>> => S[k] = store.subs[k]
    BY DEF Put
<1>3. <<d, i, x>> \notin DOMAIN store.subs
    BY DEF InsertSubInterface, Has
<1> HIDE DEF S
<1>4. SameBut(store.subs, S, {<<d, i, x>>})
    BY <1>2, <1>3 DEF SameBut
<1> QED
    BY <1>1, <1>2, <1>3, <1>4, MoreSubInterfaces

\* A network instance that is inserted, with no subinterface.
LEMMA InsertNetworkInstanceServed ==
  ASSUME NEW d, NEW i, NEW n, NEW x, InsertNetworkInstance(d, n)
  PROVE  Served(store, store', d, i, n, x)
<1> DEFINE N == Put(store.nis, <<d, n>>, {})
<1>1. IsStore(store) => store' = [devices |-> store.devices, itfces |-> store.itfces,
                                  subs |-> store.subs, nis |-> N]
    BY DEF InsertNetworkInstance, IsStore
<1>2. /\ N = [k \in DOMAIN N |-> N[k]] /\ DOMAIN N = DOMAIN store.nis \cup {<<d, n>>}
      /\ \A k \in DOMAIN store.nis : k # <<d, n>> => N[k] = store.nis[k]
      /\ N[<<d, n>>] = {}
    BY DEF Put
<1>4. <<d, n>> \notin DOMAIN store.nis
    BY DEF InsertNetworkInstance, Has
<1> HIDE DEF N
<1>3. Resolves(store) => \A k \in DOMAIN N : N[k] \subseteq DOMAIN store.subs
    BY <1>2 DEF Resolves
<1>5. SameBut(store.nis, N, {<<d, n>>})
    BY <1>2, <1>4 DEF SameBut
<1> QED
    BY <1>1, <1>2, <1>3, <1>4, <1>5, OtherReferences

\* Every call is served, with what it is about: where a call names only a device, any
\* interface, network instance and subinterface of it will do.
LEMMA StepServed ==
  ASSUME Next
  PROVE  \E d \in Devices, i \in Itfces, n \in NiNames, x \in Indexes :
           Served(store, store', d, i, n, x)
<1> PICK d0 \in Devices, i0 \in Itfces, n0 \in NiNames, x0 \in Indexes : TRUE
    BY SchemaStoreAssumption
<1>1. CASE PrintDevices
    BY <1>1, NothingDone DEF PrintDevices
<1>2. CASE \E d \in Devices : InsertDevice(d)
    BY <1>2, InsertDeviceServed
<1>3. CASE \E d \in Devices, n \in NiNames : InsertNetworkInstance(d, n)
    BY <1>3, InsertNetworkInstanceServed
<1>4. CASE \E d \in Devices, i \in Itfces : InsertInterface(d, i)
    BY <1>4, InsertInterfaceServed
<1>5. CASE \E d \in Devices, i \in Itfces, x \in Indexes : InsertSubInterface(d, i, x)
    BY <1>5, InsertSubInterfaceServed
<1>6. ASSUME NEW d \in Devices, NEW i \in Itfces, NEW n \in NiNames, NEW x \in Indexes
      PROVE  /\ Create(d, i, n, x) => Served(store, store', d, i, n, x)
             /\ CreateAttached(d, i, n, x) => Served(store, store', d, i, n, x)
             /\ \A prefixes \in PrefixLists :
                  Populate(d, i, n, x, prefixes) => Served(store, store', d, i, n, x)
  <2>1. Create(d, i, n, x) => Served(store, store', d, i, n, x)
      BY CreateDeviceServed, CreateDeviceInterfaceServed, CreateNetworkInstanceServed,
         CreateAddressInfoServed
      DEF Create
  <2>2. CreateAttached(d, i, n, x) => Served(store, store', d, i, n, x)
      BY CreateSubInterfaceServed DEF CreateAttached
  <2>3. ASSUME NEW prefixes \in PrefixLists, Populate(d, i, n, x, prefixes)
        PROVE  Served(store, store', d, i, n, x)
      BY <2>3, PopulateSchemaServed DEF Populate
  <2> QED
      BY <2>1, <2>2, <2>3
<1> QED
    BY <1>1, <1>2, <1>3, <1>4, <1>5, <1>6 DEF Next

\* What is kept from call to call, as long as the process runs.
LEMMA StoreInvariant == Spec => []StoreInv
<1>1. Init => StoreInv
    BY DEF Init, Empty, NoEntries, StoreInv, IsStore, ReferenceResolves
<1>2. StoreInv /\ [Next]_store => StoreInv'
  <2> SUFFICES ASSUME StoreInv, [Next]_store PROVE StoreInv'
      OBVIOUS
  <2>1. CASE Next
    <3>1. store # Panic
        BY <2>1 DEF Next, PrintDevices, InsertDevice, InsertNetworkInstance, InsertInterface,
                    InsertSubInterface, Create, CreateAttached, Populate, Alive
    <3>2. IsStore(store) /\ Resolves(store)
        BY <3>1 DEF StoreInv, ReferenceResolves, Resolves
    <3>3. store' # Panic => IsStore(store') /\ Resolves(store')
        BY <2>1, <3>2, StepServed DEF Served
    <3> QED
        BY <3>3 DEF StoreInv, IsStore, ReferenceResolves, Resolves
  <2>2. CASE UNCHANGED store
      BY <2>2 DEF StoreInv, IsStore, ReferenceResolves
  <2> QED
      BY <2>1, <2>2
<1> QED
    BY <1>1, <1>2, PTL DEF Spec

\* A network instance of the schema never refers to a subinterface that a map lookup
\* did not find, whatever is called and in whatever order.
THEOREM ReferenceCorrect == Spec => []ReferenceResolves
<1>1. StoreInv => ReferenceResolves
    BY DEF StoreInv
<1> QED
    BY <1>1, StoreInvariant, PTL

\* What a call takes away is the data of the device and of the interface it is about and
\* the subinterface its network instance had: it keeps every interface, network instance,
\* subinterface and address that other calls have added.
THEOREM LossConfinedCorrect == Spec => LossConfined
<1> DEFINE Kept ==
      store' # Panic =>
        \E d \in Devices, i \in Itfces, n \in NiNames, x \in Indexes :
          Confined(store, store', d, i, n, x)
<1>1. StoreInv /\ [Next]_store => [Kept]_store
  <2> SUFFICES ASSUME StoreInv, Next PROVE Kept
      OBVIOUS
  <2>1. store # Panic
      BY DEF Next, PrintDevices, InsertDevice, InsertNetworkInstance, InsertInterface,
             InsertSubInterface, Create, CreateAttached, Populate, Alive
  <2>2. IsStore(store) /\ Resolves(store)
      BY <2>1 DEF StoreInv, ReferenceResolves, Resolves
  <2> QED
      BY <2>2, StepServed DEF Served
<1> QED
    BY <1>1, StoreInvariant, PTL DEF Spec, LossConfined
=============================================================================
