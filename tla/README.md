# TLA+ models of the nddo-vpc controller

This directory specifies the Vpc intent controller of this repository in TLA+,
model-checks it with TLC and proves properties of it with TLAPS. Line numbers
refer to the files under `src/`.

## 1. The system

The program is a Kubernetes controller. A `Vpc` resource lists bridge domains and
routing tables, each with selectors for interfaces in the fabric. For every `srl`
node of the topology the controller computes one device configuration per Vpc and
stores it as an `Srl3Device` resource. It is built on the managed reconciler of
nddo-runtime, the intent and abstraction packages of nddp-srl3 and the ni registry;
their code is not part of the repository.

| Component | State | Operations | Interacts with |
|---|---|---|---|
| Reconcile loop, `internal/controllers/vpc/reconciler.go`, `register.go`, `populate-common.go` | maps `intents`, `abstractions` by crName (plain Go maps) | `Initialize`, `Update`, `FinalUpdate`, `Timeout`, `Delete`, `FinalDelete`, each run by one of `--concurrency` workers | API server (List, Delete, Deploy, Destroy of `Srl3Device`; List of `TopologyNode`), ni registers, speedy handler |
| Device watch, `watchnddasrldevices.go` | none | `Create`, `Update` (twice), `Delete`, `Generic` call `add`: list the Vpcs; per Vpc reset the stage, then add the key to the queue | speedy handler, work queue |
| Speedy handler, `internal/speedyhandler` | map crName to stage, under a mutex | `Init`, `GetSpeedy`, `IncrementSpeedy`, `ResetSpeedy`, `Delete` | called by workers and watch |
| SRL configuration, `populate-srl.go:41-354` | the ygot tree of a device in `intents` | `srlPopulateBridgeDomain`, `srlPopulateRouteTable`, `srlPopulateRouteIrb`, `srlPopulateSchema` | called by `populateSchema` |
| Gateway addresses, `populate-srl.go:356-484` | none | `getIPv4Info`, `getIPv6Info`, `GetFirstIP`, `GetLastIP`, `RangeSize`, `GetIndexedIP` | called by `srlPopulateSchema` |
| Ni registers, `internal/nihandler`, `register.go` | `Register` resources owned by the Vpc | `CreateNiRegister` (Apply), `GetNiRegister` (Ready and index, or an error), `DeleteNiRegister` (never called) | ni registry, garbage collector, cache of the client |
| Vpc resource, `apis/vpc/v1alpha1` | spec and status | `InitializeResource`, `SetStatus`, the getters over the lists of the spec | `Initialize`, `populateSchema`, `srlPopulate…` |
| Start-up, `cmd/`, `internal/controllers`, `internal/shared` | flags | number of workers, clients | |
| In-memory schema, `pkg/schema` | maps of devices, interfaces, subinterfaces, network instances | `Create…` operations, `PopulateSchema`, `PrintDevices`; `getAdressInfo` | a library: no other package imports it |

What is hard here: several workers and the watch share maps, stages and the queue
without a common lock; `Update` is a chain of API calls any of which may fail, with
the topology and the registers read at different moments; the controller is woken by
its own writes; the process may restart between any two calls; indexes are read from a
cache, from a registry that all vpcs share and that may run out; the order of every
loop over a Go map is random. What makes each part correct:

* Reconcile loop: what is written is the complete intent of one spec and one reading
  of the topology; nothing stale survives; devices converge; a deletion completes and,
  if no call fails, leaves nothing of the last intent; nothing is written before every
  index is known.
* Watch and speedy handler: stages stay within the back-off table, wake-ups are not
  lost, stages of deleted vpcs are forgotten, the controller comes to rest.
* Ni registers: an index in use is held by its register, belongs to one network
  instance, and stays while the vpc exists; a deletion gets the indexes it waits for.
* Configuration: it is a function of the spec, not of the iteration order; shared
  subinterfaces are not torn; references resolve.
* Addresses: a gateway is an address of its subnet, and the right one.
* Vpc resource: when a name occurs twice, what is configured comes from one entry.
* Schema: a call takes away nothing that is not its own; references resolve.

`PROJECT.json` lists the hazards at their lines, with the properties for each.

## 2. The modules

| Module | What it is |
|---|---|
| `SpeedyHandler` | the five methods of the speedy handler, one atomic step each |
| `VpcController` | the reconcile loop, the watch, the queue and timers around them, users, registry, faults and restarts; properties and their inductive strengthenings at the end. EXTENDS `SpeedyHandler` |
| `VpcIntent` | the abstract controller: one plan per vpc (the spec read, the nodes read) and writes that follow it |
| `VpcRefinement` | the mapping of `VpcController` to `VpcIntent` |
| `MCVpcController`, `MCVpcRefinement` | instances of these for TLC |
| `NiRegister` | registers, registry, garbage collector and cache under several vpcs |
| `NiLease` | the abstract registers: an index granted to a network instance for the life of its vpc |
| `NiRefinement` | the mapping of `NiRegister` to `NiLease`. EXTENDS `NiRegister` |
| `DeviceConfig`, `MCDeviceConfig` | the configuration of one device, built call by call |
| `IpAllocation` | the address functions over small address families, the copy in `pkg/schema` included |
| `VpcResource` | the Vpc resource: the defaults of the CRD and the getters, functions of the lists |
| `VpcConfig`, `MCVpcConfig` | `DeviceConfig` composed with `VpcResource`: the configuration for what users write. EXTENDS both |
| `SchemaStore` | the in-memory schema |
| `VpcControllerProofs` | type correctness, the intents map, the stages, stale configuration |
| `VpcLifetimeProofs` | the life of a vpc: its finalizer, its indexes, its stage, its wake-ups, its end. EXTENDS `VpcControllerProofs` |
| `VpcRefinementProofs` | `VpcController` implements `VpcIntent`. EXTENDS `VpcRefinement`, `VpcLifetimeProofs` |
| `NiRegisterProofs` | what the registers guarantee, and how far the cache may lag; `NiRegister` implements `NiLease`. EXTENDS `NiRefinement` |
| `DeviceConfigProofs` | references, shared subinterfaces and order independence of `DeviceConfig`; how far its violated properties hold |
| `IpAllocationProofs` | the addresses, for every width |
| `VpcResourceProofs` | the getters, for lists of any length, and what `VpcConfig` makes of them. EXTENDS `VpcConfig` |
| `SchemaStoreProofs` | references of the schema, and what a call may take away |

Definitions that begin with "Mutant of" in their comment are variants of the
definition that follows them, with a plausible bug. No specification uses them; each
run's property is known to fail when its mutant takes the place of the original
(`mutants` in `PROJECT.json`). Definitions that begin with "Why it holds" are the
inductive strengthenings of the property before them, used by the proofs.

### VpcController

A step is one API call, one critical section of the speedy handler, or one access to
the shared maps. `pc[w]` names the next call of worker `w`:

| `pc` | Code |
|---|---|
| `get`, `done` | the managed reconciler before the callbacks (Get, AddFinalizer) and after them (RequeueAfter) |
| `start`, `reset` | `speedyHandler.Init`, the reset of both maps (`reconciler.go:168, 244, 266-268`) |
| `strategy`, `create`, `collect` | `GetAddressAllocationStrategy`, the loops of `allocateNiIndexes`, and `gatherNodeInfo` at the end |
| `populate` | the loops over bridge domains and routing tables |
| `remove`, `deploy` | `List` and `Validate`, then `Delete` per device; `Deploy` per device, then the second `List` |
| `final`, `timeout`, `increment` | `FinalUpdate`; `GetSpeedy` and `IncrementSpeedy` of `Timeout` |
| `destroy`, `unfinalize` | `Destroy` per device and `speedyHandler.Delete`; RemoveFinalizer |

`mg[w]` is the worker's copy of the resource, `nodeInfo[w]` the topology it read,
`todo[w]` the rest of the loop it is in. `intents[c]` is the map entry: for every node
the set of network instances populated so far. `abstractions` always has the same
keys, set and deleted in the same places, and needs no variable. The look-ups of
`FinalDelete` (`reconciler.go:254`) are no point of their own among the accesses to the
maps but part of the end of `populate`, which accesses the same entry; `NoMapRace` meets
them there. `device[c][n]` is the
set of network instances configured in the Srl3Device of `c` on `n`, empty if there is none.
Data is abstracted to what the properties tell apart: network instances are model
values, `Selects` says on which nodes each has interfaces, and indexes are reduced to
whether the register has one (`NiRegister` has their values).

Assumed of code outside the repository, from how it is used here:

* The work queue hands a key to one worker at a time, keeps a key added meanwhile for
  after that, and keeps the earliest RequeueAfter of a key.
* The managed reconciler adds the finalizer before `Update`; a callback that fails is
  requeued, with or without `FinalUpdate` and `Timeout` being run (all three are
  allowed); it removes the finalizer before or after `FinalDelete` (both are allowed).
* `intent.Delete`, `Deploy`, `Destroy` handle one resource at a time, in any order, and
  stop at the first error. A save that changes nothing raises no event.
* A worker's Get and the lists see what is stored at that moment (the cache lags the
  API server by nothing but the steps in between; `NiRegister` has a lagging cache).
* Two racing accesses to a Go map, one of them a write, either behave as one after the
  other or end the process (`ConcurrentMapFatal`).

### VpcIntent and the refinement

`VpcIntent` has no maps, workers, queue, stages or events: for a vpc there is either no
plan or one plan (spec, then nodes). `Write` stores the plan's complete set for a node,
never for an absent vpc; `Remove` empties a node that a plan does not name, or, when the
plan is a deletion, one that it does. `VpcRefinement` defines `currentPlan` from the state
of the worker that holds the key; every other variable of the abstract module is one of
the concrete module. It also shows what is *not* promised: a deleting plan removes only
what it contains, so that devices of an earlier spec or topology may be orphaned (the
code neither lists nor validates in `Delete`, and drops the error of `Destroy`).
`DestroyComplete` states the positive half: without a failed call, all that the last
intent names is gone with the vpc.

### NiRegister

Every vpc reconciles by itself: `create` applies one register per network instance of
the spec, `collect` reads them back, then `Deploy` or `Destroy`. Writes go to `register`,
reads come from `seen`, and `news` holds the changes in between, at most `MaxLag` per
register. `owned[c]` are the registers whose owner reference names the Vpc that exists
now; a Vpc created under an old name owns none until it applies them again, and
`CollectRegister` takes what nobody owns. `Indexes` is finite: the registry may run out.
`inherited` is a history variable: vpcs that found the device of a deleted predecessor
(orphaned by a dropped error, or by a spec that no longer named it) and have not
rewritten it (`Destroy` may leave a device, as it empties the nodes of the last intent
only). Their device may show an index that the registry has given away since; the
properties exclude them. One device stands for all devices of a vpc, because
`VpcController` has the loops.

`NiLease` is what the registers promise, without calls, caches, workers or a collector: a
vpc that exists is granted indexes nobody has, one per network instance; a granted index
neither changes nor is lost until the vpc ends, whether or not the spec still names the
network instance; its devices get granted indexes and nothing else. `NiRefinement` maps to
it: an index is granted once its register has it and belongs to the vpc that exists
(`GrantedTo`). So `Grant` is an allocation by the registry, or the `Apply` by which a vpc
adopts a register that a predecessor of its name has left and the collector has not
reached; `Configure` is `Deploy`; `End` is the removal of the finalizer, or a deletion
before there is one. The orphaned device of a predecessor has no counterpart until its
successor has rewritten it (`ConfiguredFor`). `NiLease` says more than `IndexKept`, which
is about indexes in use only.

### DeviceConfig

One device, one run of `populateSchema`. An action is one call of
`srlPopulateBridgeDomain`, `srlPopulateRouteTable` or `srlPopulateRouteIrb`; bridge
domains in any order, then routing tables in any order, then the irbs, per routing
table in list order. `conf` has the network instances, the interfaces attached to
them, the subinterfaces with type and addresses and the vxlan interfaces. Leaves
that are the same for every network instance (ecmp, anycast and arp settings) are left
out. The selected interfaces of one network instance are different subinterfaces, so
that their inner loop is one step (`AddLinks`). `Expected` says what the result should be,
from the spec alone. A network instance that a vpc has is never without a tunnel,
because the CRD defaults it (`vpc_types.go:52-53, 67-68`).

### IpAllocation

`getIPv4Info`/`getIPv6Info` for one prefix, and `getAdressInfo` of `pkg/schema`. Widths
of addresses, bytes and the cap of `RangeSize` are constants. `RangeSize`
shifts an `int64` by at most 30 bits, and addresses are `big.Int`: no width is needed.

### VpcResource and VpcConfig

What users write becomes, by the defaults of the CRD, what is stored (`Defaulted`). The
getters make a map of a list entry by entry (`MapAfter`), so that a later entry of a name
replaces an earlier one. Neither has state. `VpcConfig` gives them a place: its variable
`written` is the vpc a user wrote, `ReadSpec` is what `populateSchema` learns of it through
its getters, each of which walks the lists anew, and its steps are those of `DeviceConfig`
with that spec. A name the vpc does not have reads as one that selects nothing and has no
tunnel. `OneEntryPerTable` relates the two ends: what a routing table is configured from,
and one entry of the list as it was written. Left out: `InitializeResource` and the status,
which nothing in the repository reports or reads back; name parts, descriptions,
conditions, protocols.

### SchemaStore

Devices, interfaces, subinterfaces and network instances as maps; an operation is a
function of the store, and yields `Panic` where the code calls a method of a nil
interface. The `Create` operations update what exists and cannot create anything: where
an entry is missing they panic (or return, when a level above is missing). Entries come
into the maps through the maps themselves, which `GetDevices` and the others hand out
(`Insert…`). A network instance keeps only its last subinterface, since the key of its
map stays `""` (`subinterface.go:18-24`). An operation loses more than that: `PopulateSchema`
replaces the data of its device and of its interface by their names (`schema.go:60-69`), so
that their kind is gone. `LossConfined` lists these losses (`Confined`) and says that there
are no others. `CreateAddressInfo` panics for what cannot be parsed (`address.go:14`);
a prefix without a gateway passes there, and fails in `PopulateSchema`.

## 3. The runs

| Run | Instance | Shows |
|---|---|---|
| `one_worker` | 1 vpc, 1 worker, a bridge domain (on n1) and a routing table (n1, n2), 2 environment changes, 1 fault; 6.0 million states | `TypeOK`, `IntentIsOwn`, `NoStaleConfig`, `UpdateComplete`, `IndexBeforeWrite`, `NoSpeedyLeak`, `DestroyComplete` through create, edit, delete, topology change, loss of a device, API error, dropped event, restart |
| `two_workers` | 2 vpcs, 2 workers, 1 network instance, 1 node, symmetric; 1.8 million states | `SpeedyBounded`, `IntentIsOwn`, `SlowPollWoken` for all interleavings of workers and watch |
| `liveness` | 1 vpc, 1 worker, 1 network instance, 1 node, 2 changes, 1 fault, `FairSpec`; 229 486 states | `Converges`, `DeletionCompletes`, `BackoffSettles`, and the refinement `ImplementsIntent` |
| `ni_register` | 2 vpcs, 1 network instance each, 1 index, 5 changes by users, 1 fault, lag 3; 240 458 states | `TypeOK`, `IndexHeld`, `IndexExclusive`, `IndexKept`; `DeletionEnds` under `FairSpec`; the refinement `ImplementsLease` |
| `device_config` | 2 bridge domains, 2 routing tables, 2 subinterfaces; 13 314 vpcs, one for each of 12 800 specs, the others with routing tables of one name or without one; 173 682 states | `TypeOK`, `OrderIndependent`, `NoTornSubinterface`, `OneEntryPerTable` |
| `ip_allocation` | every prefix of 6-bit and 10-bit addresses, both strategies; 46 848 states | `GatewayInSubnet`, `FailsOnlyFor`, `LastOfRange`, `SchemaAgrees` |
| `schema_store` | 1 device, 2 interfaces, 2 network instances, 1 index, lists of up to 2 prefixes, good, unparsable or without a gateway; 7 186 states | `ReferenceResolves`, `LossConfined` |
| `map_race` | as `two_workers` | **violated**: `NoMapRace` |
| `last_ip` | as `ip_allocation` | **violated**: `LastOfSubnet` |
| `irb_prefixes`, `irb_family`, `vxlan_reference` | one spec each | **violated**: `IrbPrefixesKept`, `NoPanic`, `VxlanReferenceResolves` |

Bounds of `VpcController`. `MaxEnv` bounds the changes users, the topology and other
writers make: two are a change and a second one while the first is processed, on top of
any initial spec and topology. `MaxFaults` bounds API errors, lost events and restarts;
one can hit every step, and a second one after the repair of the first meets a state of
the same kind. `MaxPasses`, 1 at least, saturates the pending passes of the watch: a pass
does the same however many follow, and an event that is pending is never forgotten. A vpc is handled by itself but for the maps and the watch, so
that two vpcs show every interaction; two workers likewise, a key having one worker at
most. `two_workers` starts from stored vpcs that are live or deleting (`MCBusyInit`) and
leaves the other initial states and faults to `one_worker`. Symmetry (vpcs, workers) is
used there only, with invariants only. What these bounds leave open for the safety
properties and the refinement is closed by the proofs (section 4). The liveness properties
are about one vpc, which is why one is enough there.

Bounds of `NiRegister`. Two vpcs and one index are the smallest registry that runs out
and that can move an index from one to the other. Five changes allow a life of each vpc
(create, edit, delete) and a second life of one of them. `MaxLag` is an assumption, not
only a bound: with `MaxLag` 4 and five changes `IndexHeld` fails, because a whole life of
a register (collected, created, allocated) hides in the cache, and a worker uses the
index of the earlier life. Three is the whole range: `HeldCorrect` proves it for every
instance with a lag up to 3. The reconcile that reads such an entry must be that far
behind on one key while its own create call passes; a later reconcile repairs the device.
A larger instance (2 vpcs, 2 network instances, 2 indexes, symmetric, fewer changes;
325837 states) was run once with the same result.

Bounds of the rest. In `DeviceConfig` two bridge domains and two routing tables over two
subinterfaces give every way of sharing one. The small address families of
`IpAllocation` have every relation of prefix length to byte and cap that the real ones
have. `VpcConfig` needs two entries of one name, with one of another between them, `SchemaStore` two owners of a
subinterface and two prefixes of one call (`MaxPrefixes`) for an error after an address.
The proofs have no such bounds; they close all of these for every size.

`CHECK_DEADLOCK FALSE`: the controller may rest, with no vpc and nothing queued; the
others are computations that end, or processes that may panic and stay down.

Fairness (`liveness`). Weak fairness of each worker and of the watch (goroutines of
one process), of each armed timer, and of the allocation of each register. Nothing is
assumed of users, faults or the garbage collector. The allocation is an assumption on
the registry, not on this code: without it neither `Converges` nor `DeletionCompletes`
holds, since `Delete` waits for indexes too. Faults end (their number is bounded).

Fairness (`ni_register`). Weak fairness of each vpc's reconcile (an error is requeued, a
success polled, `reconciler.go:227-241`; `VpcController` has the queue and the timers this
stands for), of the cache, the registry and the garbage collector. The registry answers
while it has an index. `DeletionEnds` assumes that the vpcs that exist do not keep all
indexes from some moment on; without that a deletion may wait for ever, for an index that
a spec edited just before the deletion asks for.

## 4. The proofs

For every number of vpcs, workers, nodes, network instances and every bound, from
`ConstantsAssumption` (and `PlanAssumption` for the refinement: `Idle` and `Unread` are
not plans or sets of nodes), which TLC evaluates in the runs of the modules concerned.

`VpcControllerProofs`:

* `TypeCorrect`: `Spec => []TypeOK`. `TypeOK` is the conjunction of `WorkersOK` (no
  key has two workers; needed by everything below), `QueueOK`, `StoreOK` and
  `ConfigOK`. It is inductive only together with `IntentInv`: that `Deploy` writes a
  set of network instances depends on finding an entry in the map, not `Nil`.
* `IntentCorrect`: `Spec => []IntentIsOwn`. `IntentInv` says for every position of a
  worker what the map has under its key: the empty intent until the nodes are read, the
  intent of the instances already visited while populating, all of it afterwards. No
  other worker writes there because no other worker has the key.
* `SpeedyCorrect`: `Spec => []SpeedyBounded`, from `StageInv`: a worker about to
  increment has a stage of at most 2, which the watch can only lower.
* `NoStaleCorrect`: `Spec => []NoStaleConfig`, from `StaleInv` (`StaleInvariant`):
  while stale devices are removed, those not left to remove are clean; while devices are written, those not
  left to write are as the intent says or empty.

`VpcLifetimeProofs` rests on `KeptInv`: from AddFinalizer on, the resource stays, whatever
users and other workers do, until the worker that holds its key removes the finalizer;
and a worker's copy says "deleting" only if the resource is. From it:

* `IndexCorrect`: `Spec => []IndexBeforeWrite`. `IndexInv`: the indexes collected so far
  are ready, and remain so, since registers of a vpc with a finalizer are not collected.
  It covers the writes and the destruction under the finalizer (`Writing`). Where the
  finalizer goes before `FinalDelete`, the registers may be collected while the devices
  still are there; nothing is claimed of that destruction, which reads no index.
* `NoLeakCorrect`: `Spec => []NoSpeedyLeak`. `LeakInv`: a vpc without a finalizer has no
  stage, but while the worker that removed it is between the two calls (`Gone`); the
  reset of the watch never creates one.
* `WokenCorrect`: `Spec => []SlowPollWoken`. `WakeInv`: a worker that carries the long
  wait to the end of its reconcile has a stage that was not reset since, or its key is
  queued or about to be added by the watch.
* `CompleteCorrect`: `Spec => []UpdateComplete`. `NoStaleConfig` says what an Update does
  not leave; this says what it leaves. `CompleteInv`: a node that `RemoveDone` or `Deploy`
  has passed has its part of the intent, or the vpc is `Awakened` (an event is pending, the
  watch has the vpc in its list, or the key is dirty), which ends only with a `Dequeue` of
  that key (`AwakenedStays`): the watch finds the vpc because it is kept (`KeptInv`), and
  an `Add` of a key in process goes to the dirty set. A loss of a device raises an event
  (`SavePasses`). The condition `faults = 0` of the property is needed for one fault, the
  failed `List` of the watch, which drops the events; TLC finds the counterexample without
  it.
* `DestroyCorrect`: `Spec => []DestroyComplete`. `DestroyInv`: as long as no fault has
  occurred, nodes of the intent that `Destroy` has passed are empty, and nobody writes to
  a vpc without a finalizer.

`VpcRefinementProofs`: `RefinementCorrect`, `Spec => ImplementsIntent`. The plan of a vpc
depends on nothing but the worker that holds its key (`PlanOfHolder`), so that a step of
a worker changes one plan at most. `PlanInv` says that the loops over nodes stay within
that plan; it needs `IntentInv` (the map holds the plan) and `KeptInv` (a write never
meets an absent vpc). Each action is then a stutter (queue, timers, watch, registers,
population of the map) or one action of `VpcIntent`.

`NiRegisterProofs`, from `NiRegisterAssumption`:

* `TypeCorrect`: `Spec => []TypeOK`, for any lag.
* `KeptCorrect`: `Spec /\ []IndexHeld => []IndexKept`, and `ExclusiveCorrect`:
  `Spec /\ []IndexHeld => []IndexExclusive`, for any lag: nothing but `IndexHeld` can take
  an index away from a device. `IndexInv`: a worker has collected indexes of registers
  that its vpc owns, the finalizer keeps the vpc and the ownership, the collector takes
  only what nobody owns, and the registry gives out only what nobody holds (`Distinct`).
* `HeldCorrect`: `Spec => []IndexHeld` where `MaxLag <= 3`. `HeldInv` has two parts.
  `OneLife`: in what the cache shows of a register and the changes it has not got yet, an
  index comes right after "created" and nothing but the collection of the register
  follows it; a second life does not fit into three changes. `Applied`: a register that a
  worker has applied exists until its reconcile is over, so that the index of an earlier
  life cannot be what the cache shows when the worker reads.
* `LagTolerated`: `Spec => [](IndexKept /\ IndexExclusive)` where `MaxLag <= 3`, the two
  results together, without a condition on the behaviour.
* `LeaseCorrect`: `Spec => ImplementsLease` where `MaxLag <= 3`. A step moves the leases
  of one vpc at most (`OnlyMoves`, `LeaseOfMove`). It needs `IndexInv` and `IndexHeld`, by
  which all that `Deploy` writes is granted, `Distinct`, by which an adopted index is
  nobody else's, and `OwnsNothingAbsent`: the owner references of a vpc go with it, so
  that a vpc of the same name begins without a grant.

`DeviceConfigProofs`, from `DeviceConfigAssumption`, for all specs:

* `ConfCorrect`: `Spec => []TypeOK`, in which `ConfOK` says that references resolve.
* `NoTornCorrect`: `Spec => []NoTornSubinterface`. It is inductive with `BridgesFirst`:
  while bridge domains are left, no routing table has attached a subinterface; a bridge
  domain keeps the addresses it finds, and so must find none.
* `OrderIndependentCorrect`: `Spec => []OrderIndependent`. `SoFar` says what the
  configuration is at every step, as a function of what the loops have visited and not of
  their order: which subinterfaces are attached to what (`Joined`, `Shape`), and that
  the irb of a routing table has the addresses of the last of its places visited
  (`TableIrb`). When the loops are over this is `Expected`.
* How far the properties that the code violates hold. `VxlanReferenceCorrect`: where
  every tunnel is vxlan, all references resolve. `IrbPrefixesCorrect`: a routing table with
  one bridge domain keeps its prefixes. `NoPanicCorrect`: where each irb has prefixes of
  both families nothing panics. Each hypothesis is about the specs, and excludes just
  what the violating run uses.

`IpAllocationProofs`, from `WidthAssumption`, for all widths, 32 and 128 bits with bytes
of 8 and a cap of 16 among them:

* `GatewayCorrect`, `FailsCorrect`, `LastCorrect`, `SchemaAgreesCorrect`: the four
  invariants of the run `ip_allocation`. They rest on the laws of `Pow2` (`Pow2Step`, `Pow2Sum`, `Pow2Less`), on
  `Subnet` (the network address is a multiple of the size, so that a subnet is within its
  address space), on `AllBytes` (an address has all its bytes unless its first one is zero)
  and on `Indexed` (what `GetIndexedIP` accepts). Powers of two need induction;
  `SetInduction` derives it, for sets, from the library's statement that `<` on the
  naturals is well-founded, which takes no operator as a parameter.
* `LastOfSmallSubnet`: how far the violated `LastOfSubnet` holds, for every IPv4 subnet and
  for IPv6 subnets within the cap.

`VpcResourceProofs`, from `WrittenAssumption` (lists are lists, entries have their fields):

* `OneEntryCorrect`: `WrittenSpec => []OneEntryPerTable`, for lists of any length.
  `AsMapLast`, by the same induction along the list: the map of a list has the keys of its
  entries and, for each, the value of the last entry with that key. The getters therefore
  choose by the same place of the list (`GettersAgree`). `ReadInv`: what `populateSchema`
  works from stays what it read. By `ReadAssumption` a behaviour of `WrittenSpec` is one of
  `DeviceConfig`'s `Spec`, so that the theorems of `DeviceConfigProofs` hold of it too.

`SchemaStoreProofs`, from `SchemaStoreAssumption`, for all sets and any number of prefixes:

* `ReferenceCorrect`: `Spec => []ReferenceResolves`, from `StoreInv` (a schema that exists
  is made of four maps). One lemma per operation says that it keeps references; those
  of `PopulateSchema` are put together call by call, with the panics in between.
* `LossConfinedCorrect`: `Spec => LossConfined`. What a call may take away is named by the
  device, interface, network instance and index it is about, so that two calls about the
  same four take away no more than one (`BothServed`), and the calls of `PopulateSchema`
  compose.

So every safety invariant and every action property of the passing runs is a theorem.
Only model-checked: the liveness properties (`Converges`, `DeletionCompletes`,
`BackoffSettles`, `DeletionEnds`), which are outside the reach of the proof system. What
the proofs taught about the models: `CASE` expressions whose guards overlap leave open
which branch is taken, and TLC takes the first. Where the code has a chain of conditions,
the models say `IF ... ELSE IF`, which fixes the order as the code does.

## 5. What the violated properties say

1. `NoMapRace`: with `--concurrency` above 1 workers access the plain maps `intents`
   and `abstractions` at the same time. The Go runtime may end the process. Short of
   that, `IntentIsOwn` shows that no worker ever uses another's entry.
2. `IrbPrefixesKept`: every bridge domain of a routing table writes to the same
   subinterface `irb0.<index of the routing table>` and replaces its addresses. Of
   the three bridge domains in `examples/multus.yaml` only the last keeps its prefixes on a node that has all three.
3. `NoPanic`: an irb with prefixes of one family dereferences a nil pointer.
4. `VxlanReferenceResolves`: with another tunnel than vxlan, the bgp-evpn instance
   names a vxlan interface that is not created.
5. `LastOfSubnet`: "GetLastIP returns subnet's last IP" (`populate-srl.go:432`), but of an
   IPv6 subnet larger than 2^16 addresses, the usual /64 for one, it returns base + 65535:
   `RangeSize` caps the size for the sake of an allocator's bitmap. `LastOfRange` says which
   address it is in every case. (In IPv4 the last address is the broadcast address.)

Also met while modelling, without a run of their own:

* An IPv4 /32 or IPv6 /128 written as its network address fails the vpc under "first",
  and so does a subnet that begins with a zero byte (`FailsOnlyFor`).
* `getAdressInfo` of `pkg/schema` exempts 31-bit masks in both families: the network
  address of an IPv6 /127 is replaced, and that of an IPv6 /31 is kept, both unlike in the
  controller (`SchemaAgrees` says that the two differ exactly there).
* A Vpc without `spec.vpc` panics in `InitializeResource`, again after every restart
  (not modelled).
* `spec.vpc.defaults.tunnel` and `.protocol` are never consulted: the CRD fills the field
  of every entry.
* `PopulateSchema` overwrites the kind of a device and an interface with nothing, after
  which `PrintDevices` panics; it panics on every subinterface in any case. Nothing in
  `pkg/schema` says what should hold instead: `LossConfined` records it.
* `--poll-interval` (`start.go:118`) is stored in `NddControllerOptions.Poll` and never
  read: `Timeout` returns one minute at the last stage.
* Two routing tables that select the same subinterface get a configuration that depends
  on the map order (excluded in `OrderIndependent`).
* `admin-state` and the deployment policy are not looked at.
* Registers of network instances removed from a spec stay until the Vpc is deleted:
  `DeleteNiRegister` has no caller. `IndexKept` shows the good side of it.

## 6. Not modelled

* Generated code (`zz_generated.deepcopy.go`, the CRD, registration of types), accessors
  of conditions, setters and getters of single fields: no behaviour of their own.
* `InitializeResource`, status and conditions (written, never read by the controller),
  events and logging.
* Start-up: the flags other than `--concurrency`, leader election (off by default), health
  checks, clients. `FreshProcess` has what a new process starts from.
* `itfceinfo.go` and `nihandler`'s names and selector tags: arguments that are passed on.
* The lag of the informer caches for Vpcs, TopologyNodes and Srl3Devices (`NiRegister` has
  it for registers). Two namespaces do not interact, so that one is modelled.
* In `DeviceConfig`, leaves that are constant or copied from the index, and
  `GetSelectedItfces`, which is outside the repository.
* IPv4-mapped IPv6 prefixes in `IpAllocation`.

## 7. Plan

Done: the controller with its abstract specification, liveness, refinement and proofs;
registers, with the lag they tolerate and the leases they implement; the configuration of a device for what users
write, addresses and the in-memory schema, with proofs of all their invariants.

What could follow:

1. Lagging informer caches for Vpcs, TopologyNodes and Srl3Devices as variables of
   `VpcController`, and the properties and proofs again.
2. A composition of `DeviceConfig` with `VpcController`. It would say little more than
   `BackoffSettles`, which counts a write as an event when the content changes, together
   with `OrderIndependentCorrect`, by which an unchanged spec has unchanged content.
